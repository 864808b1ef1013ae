---------------------------- MODULE Timer8253Proofs ----------------------------
(***************************************************************************)
(* The properties of a counter of the timer, for any size of a byte, any   *)
(* counts that are written and any distance of the accesses of four counts *)
(* or more.                                                                *)
(***************************************************************************)
EXTENDS Timer8253, SequenceTheorems, TLAPS

-----------------------------------------------------------------------------
(* Arithmetic                                                              *)

LEMMA Parameters ==
  /\ Hex \in Nat /\ Hex >= 2 /\ Ten \in Nat /\ Ten >= 2 /\ Ten <= Hex
  /\ Hex % 2 = 0 /\ Ten % 2 = 0
  /\ Apart \in Nat /\ Apart >= 4 /\ Drift \in Nat
  /\ Written \subseteq 0..(Hex - 1)
BY TimerAssumption DEF TimerAssumption

LEMMA EvenSquare == ASSUME NEW n \in Nat, n % 2 = 0 PROVE n * n \in Nat /\ (n * n) % 2 = 0
<1>1. PICK k \in Nat : n = 2 * k
  <2>1. n \div 2 \in Nat /\ n = 2 * (n \div 2)
    OBVIOUS
  <2> QED
    BY <2>1
<1>2. n * n = 2 * (k * n)
  BY <1>1
<1>3. k * n \in Nat
  BY <1>1
<1>4. \A m \in Nat : 2 * m \in Nat /\ (2 * m) % 2 = 0
  OBVIOUS
<1> QED
  BY <1>2, <1>3, <1>4

LEMMA SquareIncreases ==
  ASSUME NEW a \in Nat, NEW b \in Nat, a <= b
  PROVE  a * a <= b * b
OBVIOUS

LEMMA WordFacts ==
  /\ Word \in Nat /\ Word >= 4 /\ Word % 2 = 0
  /\ Start \in Nat /\ Start >= 4 /\ Start % 2 = 0 /\ Start <= Word
<1>1. Word \in Nat /\ Word % 2 = 0 /\ Start \in Nat /\ Start % 2 = 0
  BY Parameters, EvenSquare DEF Word, Start
<1>2. Start <= Word
  BY Parameters, SquareIncreases DEF Word, Start
<1>3. 2 * 2 <= Ten * Ten
  BY Parameters, SquareIncreases
<1> QED
  BY <1>1, <1>2, <1>3 DEF Start

(* Two digits are a number below the square of their base.                 *)
LEMMA TwoDigits ==
  ASSUME NEW n \in Nat, n >= 1, NEW hi \in 0..(n - 1), NEW lo \in 0..(n - 1)
  PROVE  (n * hi) + lo \in 0..((n * n) - 1)
<1>1. n * hi <= n * (n - 1)
  OBVIOUS
<1>2. n * (n - 1) = (n * n) - n /\ n * n \in Nat /\ n * hi \in Nat
  OBVIOUS
<1> QED
  BY <1>1, <1>2

LEMMA Digits ==
  ASSUME NEW x \in Nat
  PROVE  frombcd(x) \in 0..(Word - 1)
<1>1. x \div Hex \in Nat /\ x % Hex \in Nat
  BY Parameters
<1>2. Digit(x \div Hex) \in 0..(Ten - 1) /\ Digit(x % Hex) \in 0..(Ten - 1)
  BY <1>1, Parameters DEF Digit
<1>3. frombcd(x) \in 0..(Start - 1)
  BY <1>2, Parameters, TwoDigits DEF frombcd, Start
<1> QED
  BY <1>3, WordFacts

(* The two bytes of a word are the word.                                   *)
LEMMA BytesOfWord ==
  ASSUME NEW x \in Nat
  PROVE  x = (Hex * Msb(x)) + Lsb(x)
BY Parameters DEF Msb, Lsb

-----------------------------------------------------------------------------
(* A count                                                                 *)

Units ==
  [latch_value : Int, write_state : {0, 1}, latch_mode : 0..3, out : {0, 1}, value : Int,
   mode_int : 0..3, write_lsb : Written \union {0}, loadvalue : 0..(Word - 1), armed : BOOLEAN,
   load : BOOLEAN, enabled : BOOLEAN, bcd : BOOLEAN, delay : 0..3]

LEMMA ReloadFacts ==
  ASSUME NEW u \in Units
  PROVE  /\ Largest(u) \in {Word, Start} /\ Largest(u) >= 4 /\ Largest(u) <= Word
         /\ Reload(u) \in 1..Word
         /\ u.loadvalue # 0 => Reload(u) = u.loadvalue
         /\ u.loadvalue = 0 => Reload(u) = Largest(u)
BY WordFacts DEF Units, Largest, Reload

(* What counting leaves alone.                                             *)
Keeps(u, w) ==
  /\ w \in Units
  /\ w.latch_value = u.latch_value /\ w.write_state = u.write_state
  /\ w.latch_mode = u.latch_mode /\ w.mode_int = u.mode_int
  /\ w.write_lsb = u.write_lsb /\ w.loadvalue = u.loadvalue /\ w.bcd = u.bcd

(* What a count of mode 0 starts from.                                     *)
Previous(u) == IF u.load THEN u.loadvalue ELSE u.value

LEMMA Mode0Keeps ==
  ASSUME NEW u \in Units
  PROVE  /\ Keeps(u, CountMode0(u)) /\ CountMode0(u).enabled = TRUE /\ CountMode0(u).delay = u.delay
         /\ CountMode0(u).out = IF Previous(u) <= 1 /\ (u.load \/ u.armed) /\ Previous(u) # 0 THEN 1
                                ELSE IF u.load THEN 0 ELSE u.out
         /\ CountMode0(u).armed <=> (u.load \/ u.armed) /\ Previous(u) > 1
         /\ CountMode0(u).value =
              IF Previous(u) <= 1 THEN Previous(u) - 1 + Largest(u) ELSE Previous(u) - 1
<1> DEFINE v == Previous(u) - 1
           out == IF v <= 0 /\ (u.load \/ u.armed) /\ Previous(u) # 0 THEN 1
                  ELSE IF u.load THEN 0 ELSE u.out
           armed == (u.load \/ u.armed) /\ v > 0
           value == IF v <= 0 THEN v + Largest(u) ELSE v
<1>1. Previous(u) \in Int
  BY WordFacts DEF Units, Previous
<1>2. value \in Int /\ out \in {0, 1} /\ armed \in BOOLEAN
  BY <1>1, ReloadFacts, WordFacts DEF Units
<1>3. CountMode0(u) = [u EXCEPT !.enabled = TRUE, !.armed = armed, !.out = out, !.value = value]
  BY DEF CountMode0, Previous
<1>4. /\ out = IF Previous(u) <= 1 /\ (u.load \/ u.armed) /\ Previous(u) # 0 THEN 1
               ELSE IF u.load THEN 0 ELSE u.out
      /\ armed <=> (u.load \/ u.armed) /\ Previous(u) > 1
      /\ value = IF Previous(u) <= 1 THEN Previous(u) - 1 + Largest(u) ELSE Previous(u) - 1
  BY <1>1
<1> HIDE DEF value, out, armed
<1> QED
  BY <1>2, <1>3, <1>4 DEF Keeps, Units

LEMMA Mode1Keeps ==
  ASSUME NEW u \in Units
  PROVE  /\ Keeps(u, CountMode1(u)) /\ CountMode1(u).enabled = TRUE /\ CountMode1(u).delay = u.delay
         /\ CountMode1(u).out = u.out
         /\ CountMode1(u).value <= Word \/ CountMode1(u).value <= u.value
         /\ CountMode1(u).value >= u.value \/ CountMode1(u).value >= 0
<1> DEFINE v == u.value - 1
           reload == IF u.loadvalue = 0 THEN Largest(u) ELSE u.loadvalue + 1
           value == IF v <= 0 THEN v + reload ELSE v
<1>1. value \in Int /\ (value <= Word \/ value <= u.value) /\ (value >= u.value \/ value >= 0)
  BY ReloadFacts, WordFacts DEF Units
<1>2. CountMode1(u) = [u EXCEPT !.enabled = TRUE, !.value = value]
  BY DEF CountMode1
<1> HIDE DEF value
<1> QED
  BY <1>1, <1>2 DEF Keeps, Units

LEMMA Mode2Keeps ==
  ASSUME NEW u \in Units
  PROVE  /\ Keeps(u, CountMode2(u)) /\ CountMode2(u).enabled = TRUE /\ CountMode2(u).delay = u.delay
         /\ CountMode2(u).out = u.out
         /\ CountMode2(u).value =
              IF Started(u) <= 1 THEN Started(u) - 1 + Reload(u) ELSE Started(u) - 1
<1> DEFINE value == IF Started(u) - 1 <= 0 THEN Started(u) - 1 + Reload(u) ELSE Started(u) - 1
<1>1. value \in Int /\ Started(u) \in Int
  BY ReloadFacts, WordFacts DEF Units, Started
<1>2. CountMode2(u) = [u EXCEPT !.enabled = TRUE, !.value = value]
  BY DEF CountMode2
<1>3. value = IF Started(u) <= 1 THEN Started(u) - 1 + Reload(u) ELSE Started(u) - 1
  BY <1>1
<1> HIDE DEF value
<1> QED
  BY <1>1, <1>2, <1>3 DEF Keeps, Units

(* How much a square wave counts at once.                                  *)
Step(u) ==
  IF Started(u) = u.loadvalue /\ Started(u) % 2 = 1 THEN (IF u.out = 0 THEN 3 ELSE 1) ELSE 2

LEMMA Mode3Keeps ==
  ASSUME NEW u \in Units
  PROVE  /\ Keeps(u, CountMode3(u)) /\ CountMode3(u).enabled = TRUE /\ CountMode3(u).delay = u.delay
         /\ CountMode3(u).out = IF Started(u) <= Step(u) THEN 1 - u.out ELSE u.out
         /\ CountMode3(u).value =
              IF Started(u) <= Step(u) THEN Started(u) - Step(u) + Reload(u)
              ELSE Started(u) - Step(u)
<1> DEFINE value == IF Started(u) - Step(u) <= 0 THEN Started(u) - Step(u) + Reload(u)
                    ELSE Started(u) - Step(u)
           out == IF Started(u) - Step(u) <= 0 THEN 1 - u.out ELSE u.out
<1>1. value \in Int /\ Started(u) \in Int /\ out \in {0, 1} /\ Step(u) \in 1..3
  BY ReloadFacts, WordFacts DEF Units, Started, Step
<1>2. CountMode3(u) = [u EXCEPT !.enabled = TRUE, !.out = out, !.value = value]
  BY DEF CountMode3, Step
<1>3. /\ value = IF Started(u) <= Step(u) THEN Started(u) - Step(u) + Reload(u)
                 ELSE Started(u) - Step(u)
      /\ out = IF Started(u) <= Step(u) THEN 1 - u.out ELSE u.out
  BY <1>1
<1> HIDE DEF value, out
<1> QED
  BY <1>1, <1>2, <1>3 DEF Keeps, Units

(* A count by the counter's mode.                                          *)
CountMode(u) ==
  CASE u.mode_int = 0 -> CountMode0(u)
    [] u.mode_int = 1 -> CountMode1(u)
    [] u.mode_int = 2 -> CountMode2(u)
    [] u.mode_int = 3 -> CountMode3(u)

LEMMA CountModeKeeps ==
  ASSUME NEW u \in Units
  PROVE  Keeps(u, CountMode(u)) /\ CountMode(u).enabled = TRUE /\ CountMode(u).delay = u.delay
<1>1. u.mode_int \in {0, 1, 2, 3}
  BY DEF Units
<1> QED
  BY <1>1, Mode0Keeps, Mode1Keeps, Mode2Keeps, Mode3Keeps DEF CountMode

(* What counting does, and what it does unless the counter counts.         *)
LEMMA CountFrame ==
  ASSUME NEW u \in Units
  PROVE  /\ Keeps(u, Count(u))
         /\ Count(u).delay = IF u.delay > 0 THEN u.delay - 1 ELSE 0
         /\ Counts(u) => /\ u.delay = 0 /\ Count(u).load = FALSE /\ Count(u).enabled = TRUE
                         /\ Count(u).value = CountMode(u).value /\ Count(u).out = CountMode(u).out
                         /\ Count(u).armed = CountMode(u).armed
         /\ ~Counts(u) => /\ Count(u).load = u.load /\ Count(u).enabled = u.enabled
                          /\ Count(u).value = u.value /\ Count(u).out = u.out
                          /\ Count(u).armed = u.armed
<1>1. CASE u.delay > 0
  BY <1>1 DEF Count, Counts, Keeps, Units
<1>2. CASE u.delay = 0 /\ ~Counts(u)
  BY <1>2 DEF Count, Counts, Keeps, Units
<1>3. CASE Counts(u)
  <2>0. u.delay = 0 /\ ~(u.delay > 0)
    BY <1>3 DEF Counts
  <2>1. Count(u) = [CountMode(u) EXCEPT !.load = FALSE]
    BY <1>3, <2>0, Zenon DEF Count, CountMode
  <2>2. Keeps(u, CountMode(u)) /\ CountMode(u).enabled = TRUE /\ CountMode(u).delay = u.delay
    BY CountModeKeeps
  <2> DEFINE w == CountMode(u)
  <2> HIDE DEF w
  <2>3. Count(u) = [w EXCEPT !.load = FALSE] /\ w \in Units
    BY <2>1, <2>2 DEF w, Keeps
  <2>4. /\ Count(u) \in Units
        /\ Count(u).latch_value = w.latch_value /\ Count(u).write_state = w.write_state
        /\ Count(u).latch_mode = w.latch_mode /\ Count(u).mode_int = w.mode_int
        /\ Count(u).write_lsb = w.write_lsb /\ Count(u).loadvalue = w.loadvalue
        /\ Count(u).bcd = w.bcd /\ Count(u).delay = w.delay /\ Count(u).load = FALSE
        /\ Count(u).enabled = w.enabled /\ Count(u).value = w.value /\ Count(u).out = w.out
        /\ Count(u).armed = w.armed
    BY <2>3 DEF Units
  <2> QED
    BY <1>3, <2>0, <2>2, <2>4 DEF w, Keeps
<1>4. u.delay > 0 \/ u.delay = 0
  BY DEF Units
<1> QED
  BY <1>1, <1>2, <1>3, <1>4

-----------------------------------------------------------------------------
(* The invariant                                                           *)

(* A delay has run out and a count has been taken over by the next access. *)
PaceInv ==
  /\ c \in Units
  /\ gap \in 0..Apart
  /\ c.delay > 0 => c.delay + gap <= Apart
  /\ c.load => c.delay + gap < Apart

(* A square wave of period one falls by at most one for a count.           *)
ValueInv ==
  /\ c.value <= Word
  /\ IF c.mode_int = 3 /\ c.enabled THEN c.value >= -(Drift + 1 + gap)
     ELSE c.value >= -(Drift + Apart + 2)
  /\ c.latch_value \in Lowest..Word

GhostInv ==
  /\ effective \in None..Word
  /\ ticks \in Int
  /\ wave \in [counts : Nat, steady : BOOLEAN, half : Nat]

(* The counts made of the running count: those of the clock, and one made  *)
(* ahead by a latch.                                                       *)
Done == ticks + c.delay

(* An armed counter has not come to its end and shows what is left.        *)
Mode0Inv ==
  c.mode_int = 0 /\ effective # None /\ ~c.load =>
    /\ c.enabled
    /\ c.armed => c.value > 0 /\ c.value = effective - Done /\ c.out = 0 /\ effective > 0
    /\ ~c.armed => \/ effective = 0 /\ c.out = 0
                   \/ effective > 0 /\ c.out = 1 /\ Done >= effective

Mode2Inv ==
  c.mode_int = 2 =>
    /\ c.enabled => c.value >= 0
    /\ effective # None => c.enabled /\ c.value = effective - Done

(* A steady half is as far as its counts say.                              *)
WaveInv ==
  /\ wave.half > 0 \/ wave.steady => c.mode_int = 3 /\ c.enabled
  /\ wave.steady /\ Reload(c) > 1 =>
       /\ wave.counts < HalfPeriod(c.out)
       /\ c.value = IF wave.counts = 0 THEN Reload(c) ELSE 2 * (HalfPeriod(c.out) - wave.counts)
  /\ SquareWave

(* Between its bytes a latched value stays the one that is shown.          *)
ReadInv ==
  \/ paired = <<>>
  \/ /\ c.latch_mode = 3 /\ c.latch_value # None
     /\ \/ c.write_state = 0 /\ paired = <<Shown(c)>>
        \/ c.write_state = 1 /\ paired = <<Shown(c), Lsb(Shown(c))>>
  \/ \E x \in Nat : paired = <<x, Lsb(x), Msb(x)>>

IInv ==
  /\ PaceInv /\ ValueInv /\ GhostInv
  /\ Mode0Inv /\ Mode2Inv /\ WaveInv /\ ReadInv

LEMMA InitInv == Init => IInv
<1> SUFFICES ASSUME Init PROVE IInv
  OBVIOUS
<1>1. c \in Units
  BY WordFacts DEF Init, PowerOn, Units, None
<1>2. PaceInv /\ ValueInv /\ GhostInv
  BY <1>1, Parameters, WordFacts DEF Init, PowerOn, NoWave, PaceInv, ValueInv, GhostInv, Lowest, None
<1>3. Mode0Inv /\ Mode2Inv /\ WaveInv /\ ReadInv
  BY DEF Init, PowerOn, NoWave, Mode0Inv, Mode2Inv, WaveInv, SquareWave, ReadInv, None
<1> QED
  BY <1>2, <1>3 DEF IInv

-----------------------------------------------------------------------------
(* A count of the clock, or one made ahead by a latch                      *)

Ticked(n) ==
  /\ c' \in Units /\ Track(c, n)
  /\ c'.mode_int = c.mode_int /\ c'.bcd = c.bcd /\ c'.loadvalue = c.loadvalue
  /\ c'.load = Count(c).load /\ c'.enabled = Count(c).enabled
  /\ c'.value = Count(c).value /\ c'.out = Count(c).out /\ c'.armed = Count(c).armed
  /\ c'.delay + n = IF c.delay > 0 THEN c.delay ELSE 1

LEMMA ClockTicks == IInv /\ Clock => Ticked(1)
<1> SUFFICES ASSUME IInv, Clock PROVE Ticked(1)
  OBVIOUS
<1>1. c \in Units /\ c.delay \in 0..3
  BY DEF IInv, PaceInv, Units
<1>2. c' = Count(c) /\ Track(c, 1)
  BY DEF Clock
<1>3. c'.delay + 1 = IF c.delay > 0 THEN c.delay ELSE 1
  <2>1. Count(c).delay = IF c.delay > 0 THEN c.delay - 1 ELSE 0
    BY <1>1, CountFrame
  <2> QED
    BY <1>1, <1>2, <2>1
<1> QED
  BY <1>1, <1>2, <1>3, CountFrame DEF Ticked, Keeps

LEMMA LatchTicks == IInv /\ LatchCommand => Ticked(0) /\ c.delay = 0 /\ ~c.load
<1> SUFFICES ASSUME IInv, LatchCommand PROVE Ticked(0) /\ c.delay = 0 /\ ~c.load
  OBVIOUS
<1>1. c.delay = 0 /\ ~c.load /\ c \in Units
  BY DEF IInv, PaceInv, LatchCommand, Access, Units
<1>2. Count(c) \in Units
  BY <1>1, CountFrame DEF Keeps
<1>3. PICK w \in Units : w = Count(c)
  BY <1>2
<1>4. PICK t \in Units : t = [w EXCEPT !.delay = 1]
  <2>1. [w EXCEPT !.delay = 1] \in Units
    BY DEF Units
  <2> QED
    BY <2>1
<1>5. /\ c' \in Units /\ c'.delay = 1
      /\ c'.mode_int = w.mode_int /\ c'.bcd = w.bcd /\ c'.loadvalue = w.loadvalue
      /\ c'.load = w.load /\ c'.enabled = w.enabled
      /\ c'.value = w.value /\ c'.out = w.out /\ c'.armed = w.armed
  <2>1. c' = [t EXCEPT !.latch_value = t.value]
    BY <1>3, <1>4 DEF LatchCommand, Latch, Touched
  <2>2. /\ t.delay = 1 /\ t.mode_int = w.mode_int /\ t.bcd = w.bcd /\ t.loadvalue = w.loadvalue
        /\ t.load = w.load /\ t.enabled = w.enabled
        /\ t.value = w.value /\ t.out = w.out /\ t.armed = w.armed
    BY <1>4 DEF Units
  <2> QED
    BY <2>1, <2>2 DEF Units
<1>6. Keeps(c, Count(c)) /\ Track(c, 0)
  BY <1>1, CountFrame DEF LatchCommand
<1> QED
  BY <1>1, <1>3, <1>5, <1>6 DEF Ticked, Keeps

LEMMA GhostTick == ASSUME IInv, NEW n \in {0, 1}, Ticked(n) PROVE GhostInv'
<1>1. Reload(c) \in 1..Word /\ c.loadvalue \in 0..(Word - 1)
  BY ReloadFacts DEF IInv, PaceInv, Units
<1>2. effective' \in None..Word
  BY <1>1, WordFacts DEF IInv, GhostInv, Ticked, Track, None
<1>3. ticks' \in Int
  BY DEF IInv, GhostInv, Ticked, Track
<1>4. (wave.counts % (Word + 1)) + 1 \in Nat /\ wave.counts + 1 \in Nat
  BY WordFacts DEF IInv, GhostInv
<1>5. wave' \in [counts : Nat, steady : BOOLEAN, half : Nat]
  BY <1>4 DEF IInv, GhostInv, Ticked, Track
<1> QED
  BY <1>2, <1>3, <1>5 DEF GhostInv

LEMMA Mode0Tick == ASSUME IInv, NEW n \in {0, 1}, Ticked(n) PROVE Mode0Inv'
<1> SUFFICES ASSUME c.mode_int = 0, effective' # None, ~c'.load
             PROVE  /\ c'.enabled
                    /\ c'.armed => c'.value > 0 /\ c'.value = effective' - Done' /\ c'.out = 0
                                  /\ effective' > 0
                    /\ ~c'.armed => \/ effective' = 0 /\ c'.out = 0
                                    \/ effective' > 0 /\ c'.out = 1 /\ Done' >= effective'
  BY DEF Mode0Inv, Ticked
<1>1. c \in Units /\ c.delay \in 0..3 /\ c'.delay \in 0..3 /\ c.value \in Int /\ ticks \in Int
      /\ effective \in None..Word /\ c.loadvalue \in 0..(Word - 1)
  BY DEF IInv, PaceInv, GhostInv, Ticked, Units
<1>2. ~Reloaded(c)
  BY DEF Reloaded
<1>3. CASE Counts(c)
  <2>0. c.delay = 0 /\ c'.delay + n = 1 /\ c'.enabled
    <3>1. c.delay = 0
      BY <1>3 DEF Counts
    <3>2. c'.delay + n = 1
      BY <3>1 DEF Ticked
    <3>3. c'.enabled = Count(c).enabled /\ Count(c).enabled = TRUE
      BY <1>1, <1>3, CountFrame DEF Ticked
    <3> QED
      BY <3>1, <3>2, <3>3
  <2>1. /\ c'.out = IF Previous(c) <= 1 /\ (c.load \/ c.armed) /\ Previous(c) # 0 THEN 1
                    ELSE IF c.load THEN 0 ELSE c.out
        /\ c'.armed <=> (c.load \/ c.armed) /\ Previous(c) > 1
        /\ c'.value = IF Previous(c) <= 1 THEN Previous(c) - 1 + Largest(c) ELSE Previous(c) - 1
    <3>1. CountMode(c) = CountMode0(c)
      BY DEF CountMode
    <3>2. c'.out = CountMode0(c).out /\ c'.armed = CountMode0(c).armed
          /\ c'.value = CountMode0(c).value
      BY <1>1, <1>3, <3>1, CountFrame DEF Ticked
    <3> QED
      BY <1>1, <3>2, Mode0Keeps
  <2>2. CASE c.load
    <3>1. effective' = c.loadvalue /\ ticks' = n /\ Previous(c) = c.loadvalue
      BY <1>3, <2>2 DEF Ticked, Track, Taken, Previous
    <3>2. Done' = 1
      BY <1>1, <2>0, <3>1 DEF Done
    <3>3. CASE c.loadvalue > 1
      BY <1>1, <2>0, <2>1, <2>2, <3>1, <3>2, <3>3
    <3>4. CASE c.loadvalue \in {0, 1}
      BY <1>1, <2>0, <2>1, <2>2, <3>1, <3>2, <3>4
    <3> QED
      BY <1>1, <3>3, <3>4
  <2>3. CASE ~c.load
    <3>1. effective' = effective
          /\ ticks' = IF effective = None \/ ticks > Word THEN ticks ELSE ticks + n
      BY <1>2, <2>3 DEF Ticked, Track, Taken
    <3>2. /\ c.enabled /\ Previous(c) = c.value
          /\ c.armed => c.value > 0 /\ c.value = effective - ticks /\ c.out = 0 /\ effective > 0
          /\ ~c.armed => \/ effective = 0 /\ c.out = 0
                         \/ effective > 0 /\ c.out = 1 /\ ticks >= effective
      BY <1>1, <2>0, <2>3, <3>1 DEF IInv, Mode0Inv, Done, Previous
    <3>3. Done' = ticks' + (1 - n)
      BY <1>1, <2>0 DEF Done
    <3>4. CASE c.armed
      <4>1. c.value \in Nat /\ ticks' = ticks + n /\ Done' = ticks + 1
        BY <1>1, <3>1, <3>2, <3>3, <3>4, WordFacts DEF None
      <4>2. CASE c.value > 1
        BY <1>1, <2>0, <2>1, <2>3, <3>1, <3>2, <3>4, <4>1, <4>2
      <4>3. CASE c.value = 1
        BY <1>1, <2>0, <2>1, <2>3, <3>1, <3>2, <3>4, <4>1, <4>3
      <4> QED
        BY <1>1, <3>2, <3>4, <4>2, <4>3
    <3>5. CASE ~c.armed
      <4>1. c'.out = c.out /\ ~c'.armed
        BY <2>1, <2>3, <3>5
      <4>2. Done' >= ticks
        BY <1>1, <3>1, <3>3
      <4> QED
        BY <1>1, <2>0, <3>1, <3>2, <3>3, <3>5, <4>1, <4>2
    <3> QED
      BY <3>4, <3>5
  <2> QED
    BY <2>2, <2>3
<1>4. CASE ~Counts(c)
  <2>1. /\ c'.enabled = c.enabled /\ c'.out = c.out /\ c'.armed = c.armed /\ c'.value = c.value
        /\ ~c.load
    BY <1>1, <1>4, CountFrame DEF Ticked
  <2>2. effective' = effective
        /\ ticks' = IF effective = None \/ ticks > Word THEN ticks ELSE ticks + n
    BY <1>2, <1>4 DEF Ticked, Track, Taken
  <2>3. /\ c.enabled
        /\ c.armed => c.value > 0 /\ c.value = effective - Done /\ c.out = 0 /\ effective > 0
        /\ ~c.armed => \/ effective = 0 /\ c.out = 0
                       \/ effective > 0 /\ c.out = 1 /\ Done >= effective
    BY <2>1, <2>2 DEF IInv, Mode0Inv
  <2>4. c.delay > 0 /\ c'.delay + n = c.delay
    BY <1>1, <1>4, <2>3 DEF Counts, Ticked
  <2> QED
    BY <1>1, <2>1, <2>2, <2>3, <2>4, WordFacts DEF Done, None
<1> QED
  BY <1>3, <1>4

LEMMA Mode2Tick == ASSUME IInv, NEW n \in {0, 1}, Ticked(n) PROVE Mode2Inv'
<1> SUFFICES ASSUME c.mode_int = 2
             PROVE  /\ c'.enabled => c'.value >= 0
                    /\ effective' # None => c'.enabled /\ c'.value = effective' - Done'
  BY DEF Mode2Inv, Ticked
<1>1. /\ c \in Units /\ c.delay \in 0..3 /\ c'.delay \in 0..3 /\ c.value \in Int /\ ticks \in Int
      /\ effective \in None..Word /\ c.loadvalue \in 0..(Word - 1)
      /\ Reload(c) \in 1..Word /\ (c.loadvalue # 0 => Reload(c) = c.loadvalue)
      /\ (c.loadvalue = 0 => Reload(c) >= 4)
  BY ReloadFacts DEF IInv, PaceInv, GhostInv, Ticked, Units
<1>2. CASE Counts(c)
  <2>1. c.delay = 0 /\ c'.delay + n = 1
    <3>1. c.delay = 0
      BY <1>2 DEF Counts
    <3> QED
      BY <3>1 DEF Ticked
  <2>2. /\ c'.enabled
        /\ c'.value = IF Started(c) <= 1 THEN Started(c) - 1 + Reload(c) ELSE Started(c) - 1
    <3>1. CountMode(c) = CountMode2(c)
      BY DEF CountMode
    <3>2. c'.enabled /\ c'.value = CountMode2(c).value
      BY <1>1, <1>2, <3>1, CountFrame DEF Ticked
    <3> QED
      BY <1>1, <3>2, Mode2Keeps
  <2>3. c.enabled \/ c.load
    BY <1>2 DEF Counts
  <2>4. Started(c) \in Nat
    BY <1>1, <2>3, WordFacts DEF Started, IInv, Mode2Inv
  <2>5. c'.value >= 0
    BY <1>1, <2>2, <2>4
  <2>6. Done' = ticks' + (1 - n)
    BY <1>1, <2>1 DEF Done
  <2>7. CASE ~c.enabled
    <3>1. /\ effective' = Reload(c)
          /\ ticks' = IF Started(c) = 1 THEN n - 1 ELSE n
          /\ Started(c) = c.loadvalue
      BY <1>2, <2>3, <2>7 DEF Ticked, Track, Taken, Started
    <3> QED
      BY <1>1, <2>2, <2>4, <2>5, <2>6, <3>1
  <2>8. CASE c.enabled /\ Started(c) <= 1
    <3>1. Reloaded(c)
      BY <1>1, <1>2, <2>2, <2>4, <2>8 DEF Reloaded, Started, Ticked
    <3>2. /\ effective' = Reload(c)
          /\ ticks' = IF Started(c) = 1 THEN n - 1 ELSE n
      BY <2>8, <3>1 DEF Ticked, Track, Taken
    <3> QED
      BY <1>1, <2>2, <2>4, <2>5, <2>6, <2>8, <3>2
  <2>9. CASE c.enabled /\ Started(c) > 1
    <3>1. ~Reloaded(c) /\ ~Taken(c)
      BY <1>1, <1>2, <2>2, <2>4, <2>9 DEF Reloaded, Started, Ticked, Taken
    <3>2. effective' = effective
          /\ ticks' = IF effective = None \/ ticks > Word THEN ticks ELSE ticks + n
      BY <3>1 DEF Ticked, Track
    <3>3. effective # None => Started(c) = effective - ticks
      BY <1>1, <2>1, <2>9 DEF Started, IInv, Mode2Inv, Done
    <3> QED
      BY <1>1, <2>2, <2>4, <2>5, <2>6, <2>9, <3>2, <3>3, WordFacts DEF None
  <2> QED
    BY <2>4, <2>7, <2>8, <2>9
<1>3. CASE ~Counts(c)
  <2>1. c'.enabled = c.enabled /\ c'.value = c.value
    BY <1>1, <1>3, CountFrame DEF Ticked
  <2>2. effective' = effective
        /\ ticks' = IF effective = None \/ ticks > Word THEN ticks ELSE ticks + n
    BY <1>3 DEF Ticked, Track, Taken, Reloaded
  <2>3. c.enabled => c.delay > 0 /\ c'.delay + n = c.delay
    BY <1>1, <1>3 DEF Counts, Ticked
  <2>4. /\ c.enabled => c.value >= 0
        /\ effective # None => c.enabled /\ c.value = effective - Done
    BY DEF IInv, Mode2Inv
  <2> QED
    BY <1>1, <2>1, <2>2, <2>3, <2>4, WordFacts DEF Done, None
<1> QED
  BY <1>2, <1>3

(* The halves of an even and of an odd count.                              *)
Half(r, out) == IF out = 1 THEN (r + 1) \div 2 ELSE r \div 2

LEMMA Halves ==
  ASSUME NEW r \in Nat, NEW out \in {0, 1}
  PROVE  /\ Half(r, out) \in Nat /\ Half(r, out) <= r
         /\ r % 2 = 0 => 2 * Half(r, out) = r
         /\ r % 2 = 1 => 2 * Half(r, out) = IF out = 1 THEN r + 1 ELSE r - 1
         /\ r > 1 => Half(r, out) >= 1
         /\ r % 2 \in {0, 1}
BY DEF Half

(* A steady half counts down to zero by two, whatever it started by.       *)
LEMMA SteadyStep ==
  ASSUME IInv, c.mode_int = 3, wave.steady, Reload(c) > 1
  PROVE  /\ Started(c) = c.value
         /\ c.value - Step(c) = 2 * (Half(Reload(c), c.out) - (wave.counts + 1))
         /\ wave.counts < Half(Reload(c), c.out)
<1> DEFINE r == Reload(c)
           h == Half(r, c.out)
<1>1. /\ c \in Units /\ r \in Nat /\ c.out \in {0, 1} /\ c.value \in Int /\ wave.counts \in Nat
      /\ c.loadvalue \in Nat
  BY ReloadFacts, WordFacts DEF IInv, PaceInv, GhostInv, Units
<1>2. /\ c.enabled /\ wave.counts < h
      /\ c.value = IF wave.counts = 0 THEN r ELSE 2 * (h - wave.counts)
  BY DEF IInv, WaveInv, HalfPeriod, Half
<1>3. /\ h \in Nat
      /\ r % 2 = 0 => 2 * h = r
      /\ r % 2 = 1 => 2 * h = IF c.out = 1 THEN r + 1 ELSE r - 1
      /\ r % 2 \in {0, 1}
  BY <1>1, Halves
<1>4. /\ c.loadvalue # 0 => r = c.loadvalue
      /\ c.loadvalue = 0 => r % 2 = 0 /\ r # 0
  BY <1>1, ReloadFacts, WordFacts
<1>5. Started(c) = c.value
  BY <1>2 DEF Started
<1> HIDE DEF r, h
<1>6. ASSUME wave.counts = 0 PROVE c.value - Step(c) = 2 * (h - (wave.counts + 1))
  <2>1. c.value = r
    BY <1>2, <1>6
  <2>2. CASE r % 2 = 0
    BY <1>1, <1>3, <1>4, <1>5, <1>6, <2>1, <2>2 DEF Step
  <2>3. CASE r % 2 = 1
    <3>1. c.loadvalue = r
      BY <1>4, <2>3
    <3>2. Step(c) = IF c.out = 0 THEN 3 ELSE 1
      BY <1>5, <2>1, <2>3, <3>1 DEF Step
    <3> QED
      BY <1>1, <1>3, <1>6, <2>1, <2>3, <3>2
  <2> QED
    BY <1>3, <2>2, <2>3
<1>7. ASSUME wave.counts # 0 PROVE c.value - Step(c) = 2 * (h - (wave.counts + 1))
  <2>1. c.value = 2 * (h - wave.counts) /\ h - wave.counts \in Int
    BY <1>1, <1>2, <1>3, <1>7
  <2>2. \A k \in Int : (2 * k) % 2 = 0
    OBVIOUS
  <2>3. Step(c) = 2
    BY <1>5, <2>1, <2>2 DEF Step
  <2> QED
    BY <1>1, <1>3, <2>1, <2>3
<1> QED
  BY <1>2, <1>5, <1>6, <1>7 DEF r, h

LEMMA WaveTick == ASSUME IInv, NEW n \in {0, 1}, Ticked(n) PROVE WaveInv'
<1>1. /\ c \in Units /\ c' \in Units /\ c.out \in {0, 1} /\ c'.out \in {0, 1} /\ c.value \in Int
      /\ wave \in [counts : Nat, steady : BOOLEAN, half : Nat] /\ c.mode_int \in 0..3
  BY DEF IInv, PaceInv, GhostInv, Ticked, Units
<1>2. Reload(c') = Reload(c) /\ Reload(c) \in 1..Word /\ c'.mode_int = c.mode_int
  BY <1>1, ReloadFacts DEF Ticked, Reload, Largest
<1>3. \A out : HalfPeriod(out)' = Half(Reload(c), out)
  BY <1>2 DEF HalfPeriod, Half
<1>4. \A out : HalfPeriod(out) = Half(Reload(c), out)
  BY DEF HalfPeriod, Half
<1>8. \A out \in {0, 1} :
        /\ Half(Reload(c), out) \in Nat /\ Half(Reload(c), out) <= Word
        /\ Reload(c) > 1 => Half(Reload(c), out) >= 1
  <2>1. Reload(c) \in Nat /\ Reload(c) <= Word
    BY <1>2, WordFacts
  <2>2. \A out \in {0, 1} :
          /\ Half(Reload(c), out) \in Nat /\ Half(Reload(c), out) <= Reload(c)
          /\ Reload(c) > 1 => Half(Reload(c), out) >= 1
    BY <2>1, Halves
  <2>3. Word \in Nat
    BY WordFacts
  <2>4. TAKE out \in {0, 1}
  <2>5. Half(Reload(c), out) \in Nat /\ Half(Reload(c), out) <= Reload(c)
        /\ (Reload(c) > 1 => Half(Reload(c), out) >= 1)
    BY <2>2
  <2> QED
    BY <2>1, <2>3, <2>5
<1>5. CASE c.mode_int # 3
  <2>1. wave' = wave /\ wave.half = 0 /\ ~wave.steady
    BY <1>1, <1>5 DEF Ticked, Track, IInv, WaveInv
  <2> QED
    BY <2>1 DEF WaveInv, SquareWave
<1>6. CASE c.mode_int = 3 /\ ~Counts(c)
  <2>1. wave' = wave /\ c'.enabled = c.enabled /\ c'.value = c.value /\ c'.out = c.out
    BY <1>1, <1>6, CountFrame DEF Ticked, Track
  <2> QED
    BY <1>2, <1>3, <1>4, <2>1 DEF IInv, WaveInv, SquareWave
<1>7. CASE c.mode_int = 3 /\ Counts(c)
  <2>1. /\ c'.enabled
        /\ c'.out = IF Started(c) <= Step(c) THEN 1 - c.out ELSE c.out
        /\ c'.value = IF Started(c) <= Step(c) THEN Started(c) - Step(c) + Reload(c)
                      ELSE Started(c) - Step(c)
    <3>1. CountMode(c) = CountMode3(c)
      BY <1>7 DEF CountMode
    <3>2. c'.enabled /\ c'.value = CountMode3(c).value /\ c'.out = CountMode3(c).out
      BY <1>1, <1>7, <3>1, CountFrame DEF Ticked
    <3> QED
      BY <1>1, <3>2, Mode3Keeps
  <2>2. Started(c) <= Step(c) <=> c'.out # c.out
    BY <1>1, <2>1
  <2>3. CASE Started(c) <= Step(c)
    <3>1. /\ wave'.counts = 0 /\ (wave'.steady <=> c'.value = Reload(c))
          /\ wave'.half = IF wave.steady THEN wave.counts + 1 ELSE 0
      BY <1>7, <2>2, <2>3 DEF Ticked, Track
    <3>2. wave.steady /\ Reload(c) > 1 => wave.counts + 1 = Half(Reload(c), c.out)
      <4> SUFFICES ASSUME wave.steady, Reload(c) > 1
                   PROVE  wave.counts + 1 = Half(Reload(c), c.out)
        OBVIOUS
      <4>1. Half(Reload(c), c.out) \in Nat
        BY <1>1, <1>8
      <4>2. Step(c) \in Int
        BY DEF Step
      <4> QED
        BY <1>1, <1>7, <2>3, <4>1, <4>2, SteadyStep
    <3>3. 1 - c'.out = c.out
      BY <1>1, <2>1, <2>3
    <3>4. SquareWave'
      BY <1>2, <1>3, <3>1, <3>2, <3>3 DEF SquareWave
    <3>5. Reload(c) > 1 => Half(Reload(c), c'.out) >= 1 /\ Half(Reload(c), c'.out) \in Nat
      BY <1>1, <1>8
    <3> QED
      BY <1>2, <1>3, <1>7, <2>1, <3>1, <3>4, <3>5 DEF WaveInv
  <2>4. CASE ~(Started(c) <= Step(c))
    <3>1. /\ wave'.counts = (wave.counts % (Word + 1)) + 1 /\ wave'.steady = wave.steady
          /\ wave'.half = wave.half /\ c'.out = c.out /\ c'.value = Started(c) - Step(c)
      BY <1>7, <2>1, <2>2, <2>4 DEF Ticked, Track
    <3>2. SquareWave'
      BY <1>2, <1>3, <1>4, <3>1 DEF SquareWave, IInv, WaveInv
    <3>3. ASSUME wave.steady, Reload(c) > 1
          PROVE  /\ wave'.counts = wave.counts + 1 /\ wave'.counts < Half(Reload(c), c.out)
                 /\ c'.value = 2 * (Half(Reload(c), c.out) - wave'.counts)
      <4>1. Half(Reload(c), c.out) \in Nat /\ Half(Reload(c), c.out) <= Word /\ Step(c) \in Int
        BY <1>1, <1>8 DEF Step
      <4>2. wave.counts \in Nat /\ wave.counts < Word + 1
        BY <1>1, <1>7, <3>3, <4>1, SteadyStep, WordFacts
      <4>3. wave'.counts = wave.counts + 1
        BY <3>1, <4>2, WordFacts
      <4> QED
        BY <1>1, <1>7, <2>4, <3>1, <3>3, <4>1, <4>2, <4>3, SteadyStep
    <3>4. wave'.counts # 0
      BY <1>1, <3>1, WordFacts
    <3> QED
      BY <1>2, <1>3, <1>7, <2>1, <3>1, <3>2, <3>3, <3>4 DEF WaveInv
  <2> QED
    BY <2>3, <2>4
<1> QED
  BY <1>5, <1>6, <1>7

(* How far one count takes a counter up or down.                           *)
LEMMA CountValue ==
  ASSUME NEW u \in Units, u.value <= Word
  PROVE  /\ Count(u).value \in Int /\ Count(u).value <= Word
         /\ u.mode_int # 3 => Count(u).value >= u.value \/ Count(u).value >= -1
         /\ Count(u).value >= u.value - 1 \/ Count(u).value >= -1
<1>1. /\ u.value \in Int /\ u.loadvalue \in 0..(Word - 1) /\ u.mode_int \in {0, 1, 2, 3}
      /\ Word \in Nat /\ Word >= 4
      /\ Reload(u) \in Nat /\ Reload(u) >= 1 /\ Reload(u) <= Word
      /\ Largest(u) \in Nat /\ Largest(u) >= 4 /\ Largest(u) <= Word
      /\ (u.loadvalue # 0 => Reload(u) = u.loadvalue)
      /\ (u.loadvalue = 0 => Reload(u) = Largest(u))
  BY ReloadFacts, WordFacts DEF Units
<1>2. CASE ~Counts(u)
  <2>1. Count(u).value = u.value
    BY <1>2, CountFrame
  <2> QED
    BY <1>1, <2>1
<1>3. CASE Counts(u)
  <2> DEFINE v == CountMode(u).value
  <2>1. Count(u).value = v
    BY <1>3, CountFrame
  <2>2. ASSUME u.mode_int = 0 PROVE v \in Int /\ v <= Word /\ (v >= u.value \/ v >= -1)
    <3>1. v = IF Previous(u) <= 1 THEN Previous(u) - 1 + Largest(u) ELSE Previous(u) - 1
      <4>1. CountMode(u) = CountMode0(u)
        BY <2>2 DEF CountMode
      <4> QED
        BY <4>1, Mode0Keeps
    <3>2. Previous(u) \in Int /\ Previous(u) <= Word /\ (Previous(u) = u.value \/ Previous(u) >= 0)
      BY <1>1 DEF Previous
    <3> QED
      BY <1>1, <3>1, <3>2
  <2>3. ASSUME u.mode_int = 1 PROVE v \in Int /\ v <= Word /\ (v >= u.value \/ v >= -1)
    <3>1. CountMode(u) = CountMode1(u)
      BY <2>3 DEF CountMode
    <3>2. v = CountMode1(u).value /\ CountMode1(u) \in Units
      BY <3>1, Mode1Keeps DEF Keeps
    <3>3. v \in Int
      BY <3>2 DEF Units
    <3>4. (v <= Word \/ v <= u.value) /\ (v >= u.value \/ v >= 0)
      BY <3>2, Mode1Keeps
    <3> HIDE DEF v
    <3> QED
      BY <1>1, <3>3, <3>4
  <2>4. Started(u) \in Int /\ Started(u) <= Word /\ (Started(u) = u.value \/ Started(u) = u.loadvalue)
    BY <1>1 DEF Started
  <2>5. ASSUME u.mode_int = 2 PROVE v \in Int /\ v <= Word /\ (v >= u.value \/ v >= -1)
    <3>1. v = IF Started(u) <= 1 THEN Started(u) - 1 + Reload(u) ELSE Started(u) - 1
      <4>1. CountMode(u) = CountMode2(u)
        BY <2>5 DEF CountMode
      <4> QED
        BY <4>1, Mode2Keeps
    <3> QED
      BY <1>1, <2>4, <3>1
  <2>6. ASSUME u.mode_int = 3 PROVE v \in Int /\ v <= Word /\ (v >= u.value - 1 \/ v >= -1)
    <3>1. v = IF Started(u) <= Step(u) THEN Started(u) - Step(u) + Reload(u)
              ELSE Started(u) - Step(u)
      <4>1. CountMode(u) = CountMode3(u)
        BY <2>6 DEF CountMode
      <4> QED
        BY <4>1, Mode3Keeps
    <3>2. Step(u) \in {1, 2, 3} /\ (Step(u) # 2 => Started(u) = u.loadvalue)
      BY DEF Step
    <3> QED
      BY <1>1, <2>4, <3>1, <3>2
  <2> HIDE DEF v
  <2> QED
    BY <1>1, <2>1, <2>2, <2>3, <2>5, <2>6
<1> QED
  BY <1>2, <1>3

LEMMA ShownIsNat == ASSUME NEW u \in Units PROVE Shown(u) \in Nat
<1> DEFINE v == IF u.latch_value # None THEN u.latch_value ELSE u.value
<1>1. v \in Int
  BY DEF Units
<1>2. v % Word \in Nat
  BY <1>1, WordFacts
<1>3. (v % Word) % Ten \in Nat /\ ((v % Word) \div Ten) % Ten \in Nat
  BY <1>2, Parameters
<1>4. tobcd(v) \in Nat
  BY <1>3, Parameters DEF tobcd
<1> QED
  BY <1>2, <1>4 DEF Shown

LEMMA ClockInv == IInv /\ Clock => IInv'
<1> SUFFICES ASSUME IInv, Clock PROVE IInv'
  OBVIOUS
<1>1. Ticked(1)
  BY ClockTicks
<1>2. GhostInv' /\ Mode0Inv' /\ Mode2Inv' /\ WaveInv'
  BY <1>1, GhostTick, Mode0Tick, Mode2Tick, WaveTick
<1>3. /\ c \in Units /\ c' = Count(c) /\ c' \in Units /\ gap \in 0..Apart /\ c.delay \in 0..3
      /\ c'.delay = IF c.delay > 0 THEN c.delay - 1 ELSE 0
      /\ Apart \in Nat /\ Drift \in Nat
      /\ gap' = IF gap < Apart THEN gap + 1 ELSE gap
  <2>1. c \in Units
    BY DEF IInv, PaceInv
  <2> QED
    BY <2>1, CountFrame, Parameters DEF IInv, PaceInv, Clock, Keeps, Units
<1>4. PaceInv'
  <2>1. c'.load => c.load /\ c.delay > 0
    <3>1. Counts(c) => ~c'.load
      BY <1>3, CountFrame
    <3>2. ~Counts(c) => c'.load = c.load
      BY <1>3, CountFrame
    <3>3. c.load /\ c.delay = 0 => Counts(c)
      BY DEF Counts
    <3>4. c.delay = 0 \/ c.delay > 0
      BY <1>3
    <3> QED
      BY <3>1, <3>2, <3>3, <3>4, Zenon
  <2> QED
    BY <1>3, <2>1 DEF IInv, PaceInv
<1>5. ValueInv'
  <2>1. c'.value \in Int /\ c'.value <= Word
        /\ (c.mode_int # 3 => c'.value >= c.value \/ c'.value >= -1)
        /\ (c'.value >= c.value - 1 \/ c'.value >= -1)
    BY <1>3, CountValue DEF IInv, ValueInv
  <2>2. c'.mode_int = c.mode_int /\ c'.latch_value = c.latch_value /\ c.value \in Int
    BY <1>3, CountFrame DEF Keeps, Units
  <2>3. c.mode_int # 3 => c.value >= -(Drift + Apart + 2)
    BY DEF IInv, ValueInv
  <2>4. c.mode_int = 3 /\ c'.enabled /\ c.enabled => c'.value >= -(Drift + 1 + gap')
    <3> SUFFICES ASSUME c.mode_int = 3, c.enabled PROVE c'.value >= -(Drift + 1 + gap')
      OBVIOUS
    <3>1. c.value >= -(Drift + 1 + gap) /\ (gap < Apart \/ c.value > -Drift)
      BY DEF IInv, ValueInv, Clock, Room
    <3> QED
      BY <1>3, <2>1, <2>2, <3>1
  <2>5. c.mode_int = 3 /\ c'.enabled /\ ~c.enabled => c'.value >= -1
    <3> SUFFICES ASSUME c.mode_int = 3, c'.enabled, ~c.enabled PROVE c'.value >= -1
      OBVIOUS
    <3>1. Counts(c)
      BY <1>3, CountFrame
    <3>5. CountMode(c) = CountMode3(c)
      BY DEF CountMode
    <3>2. /\ Started(c) = c.loadvalue /\ c.loadvalue \in Nat /\ Step(c) \in {1, 2, 3}
          /\ Reload(c) \in Nat /\ (c.loadvalue # 0 => Reload(c) = c.loadvalue)
          /\ (c.loadvalue = 0 => Reload(c) >= 4)
      BY <1>3, ReloadFacts, WordFacts DEF Started, Step, Units
    <3>3. c'.value = IF Started(c) <= Step(c) THEN Started(c) - Step(c) + Reload(c)
                     ELSE Started(c) - Step(c)
      <4>1. c'.value = CountMode3(c).value
        BY <1>3, <3>1, <3>5, CountFrame
      <4> QED
        BY <1>3, <4>1, Mode3Keeps
    <3>4. Step(c) # 2 => c.loadvalue # 0
      BY <3>2 DEF Step
    <3> QED
      BY <3>2, <3>3, <3>4
  <2>6. c.mode_int = 3 /\ ~c'.enabled => c'.value = c.value /\ ~c.enabled
    BY <1>3, CountFrame
  <2> QED
    BY <1>3, <2>1, <2>2, <2>3, <2>4, <2>5, <2>6 DEF IInv, ValueInv
<1>6. ReadInv'
  <2>1. /\ c'.latch_value = c.latch_value /\ c'.bcd = c.bcd /\ c'.latch_mode = c.latch_mode
        /\ c'.write_state = c.write_state
    BY <1>3, CountFrame DEF Keeps
  <2>2. c.latch_value # None => Shown(c') = Shown(c)
    BY <2>1 DEF Shown
  <2>3. paired' = paired
    BY DEF Clock
  <2> QED
    BY <2>1, <2>2, <2>3 DEF IInv, ReadInv
<1> QED
  BY <1>2, <1>4, <1>5, <1>6 DEF IInv

LEMMA LatchInv == IInv /\ LatchCommand => IInv'
<1> SUFFICES ASSUME IInv, LatchCommand PROVE IInv'
  OBVIOUS
<1>1. Ticked(0) /\ c.delay = 0 /\ ~c.load
  BY LatchTicks
<1>2. GhostInv' /\ Mode0Inv' /\ Mode2Inv' /\ WaveInv'
  BY <1>1, GhostTick, Mode0Tick, Mode2Tick, WaveTick
<1>3. c \in Units /\ Keeps(c, Count(c)) /\ gap = Apart /\ gap' = 0 /\ Apart \in Nat /\ Apart >= 4
      /\ Drift \in Nat
  BY CountFrame, Parameters DEF IInv, PaceInv, LatchCommand, Access
<1>4. PICK w \in Units : w = Count(c)
  BY <1>3 DEF Keeps
<1>5. PICK t \in Units : t = [w EXCEPT !.delay = 1]
  <2>1. [w EXCEPT !.delay = 1] \in Units
    BY DEF Units
  <2> QED
    BY <2>1
<1>6. c' = [t EXCEPT !.latch_value = t.value] /\ t.value = w.value
  BY <1>4, <1>5 DEF LatchCommand, Latch, Touched, Units
<1>7. /\ c' \in Units /\ c'.delay = 1 /\ c'.value = w.value /\ c'.latch_value = w.value
      /\ c'.load = w.load /\ c'.enabled = w.enabled /\ c'.mode_int = w.mode_int
      /\ c'.latch_mode = w.latch_mode /\ c'.write_state = w.write_state
  BY <1>5, <1>6 DEF Units
<1>8. PaceInv'
  <2>1. ~w.load
    BY <1>1, <1>3, <1>4, CountFrame
  <2> QED
    BY <1>3, <1>7, <2>1 DEF PaceInv
<1>9. ValueInv'
  <2>1. w.value \in Int /\ w.value <= Word
        /\ (c.mode_int # 3 => w.value >= c.value \/ w.value >= -1)
        /\ (w.value >= c.value - 1 \/ w.value >= -1) /\ w.mode_int = c.mode_int /\ c.value \in Int
    BY <1>3, <1>4, CountValue DEF IInv, ValueInv, Units, Keeps
  <2>2. c.mode_int # 3 => c.value >= -(Drift + Apart + 2)
    BY DEF IInv, ValueInv
  <2>3. c.mode_int = 3 /\ c.enabled => c.value > -Drift
    BY DEF LatchCommand, Room
  <2>4. c.mode_int = 3 /\ ~c.enabled => c.value >= -(Drift + Apart + 2) /\ w.value = c.value
                                          /\ w.enabled = c.enabled
    <3>1. ~c.enabled => ~Counts(c)
      BY <1>1 DEF Counts
    <3> QED
      BY <1>3, <1>4, <3>1, CountFrame DEF IInv, ValueInv
  <2> QED
    BY <1>3, <1>7, <2>1, <2>2, <2>3, <2>4, WordFacts DEF ValueInv, Lowest
<1>10. ReadInv'
  <2>1. c'.value >= 0 => c'.latch_value # None
    BY <1>7 DEF None
  <2>2. Shown(c') \in Nat
    BY <1>7, ShownIsNat
  <2>3. c'.latch_mode = c.latch_mode /\ c'.write_state = c.write_state
    BY <1>3, <1>4, <1>7 DEF Keeps
  <2> QED
    BY <2>1, <2>2, <2>3 DEF LatchCommand, ReadInv
<1> QED
  BY <1>2, <1>8, <1>9, <1>10 DEF IInv

-----------------------------------------------------------------------------
(* The other accesses                                                      *)

LEMMA ControlInv ==
  ASSUME IInv, NEW mode \in 0..3, NEW latch \in 1..3, NEW bcd \in BOOLEAN,
         ControlWord(mode, latch, bcd)
  PROVE  IInv'
<1>1. c \in Units /\ Keeps(c, Count(c)) /\ gap = Apart /\ gap' = 0 /\ Apart \in Nat /\ Apart >= 4
      /\ Drift \in Nat
  BY CountFrame, Parameters DEF IInv, PaceInv, ControlWord, Access
<1>2. PICK w \in Units : w = Count(c)
  BY <1>1 DEF Keeps
<1>3. PICK t \in Units : t = [w EXCEPT !.delay = 1] /\ t.value = w.value
                         /\ t.latch_value = w.latch_value
  <2>1. [w EXCEPT !.delay = 1] \in Units /\ [w EXCEPT !.delay = 1].value = w.value
        /\ [w EXCEPT !.delay = 1].latch_value = w.latch_value
    BY DEF Units
  <2> QED
    BY <2>1
<1>4. PICK out \in {0, 1}, armed \in BOOLEAN :
        c' = [t EXCEPT !.mode_int = mode, !.bcd = bcd, !.latch_mode = latch, !.out = out,
                       !.armed = armed, !.enabled = FALSE, !.load = FALSE, !.write_state = 0]
  <2>1. (IF mode = 0 THEN 0 ELSE 1) \in {0, 1} /\ (mode \in {0, 1} \/ c.armed) \in BOOLEAN
    OBVIOUS
  <2>2. c' = [t EXCEPT !.mode_int = mode, !.bcd = bcd, !.latch_mode = latch,
                       !.out = IF mode = 0 THEN 0 ELSE 1, !.armed = mode \in {0, 1} \/ c.armed,
                       !.enabled = FALSE, !.load = FALSE, !.write_state = 0]
    BY <1>2, <1>3 DEF ControlWord, SetMode, Touched
  <2> QED
    BY <2>1, <2>2
<1>5. c' \in Units /\ ~c'.load /\ ~c'.enabled /\ c'.delay = 1 /\ c'.value = w.value
      /\ c'.latch_value = w.latch_value
  <2> DEFINE s == [t EXCEPT !.mode_int = mode, !.bcd = bcd, !.latch_mode = latch, !.out = out]
  <2>0. t.delay = 1 /\ latch \in 0..3
    BY <1>3 DEF Units
  <2>1. s \in Units /\ s.delay = 1 /\ s.value = t.value /\ s.latch_value = t.latch_value
    BY <1>3, <2>0 DEF Units
  <2>2. c' = [s EXCEPT !.armed = armed, !.enabled = FALSE, !.load = FALSE, !.write_state = 0]
    BY <1>4
  <2> HIDE DEF s
  <2> QED
    BY <1>3, <2>1, <2>2 DEF Units
<1>6. PaceInv'
  BY <1>1, <1>5 DEF PaceInv
<1>7. ValueInv'
  <2>1. w.value \in Int /\ w.value <= Word /\ c.value \in Int
        /\ (c.mode_int # 3 => w.value >= c.value \/ w.value >= -1)
        /\ (w.value >= c.value - 1 \/ w.value >= -1) /\ w.latch_value = c.latch_value
    BY <1>1, <1>2, CountValue DEF IInv, ValueInv, Units, Keeps
  <2>2. c.mode_int = 3 /\ ~c.enabled => w.value = c.value
    <3>1. ~c.enabled => ~Counts(c)
      BY <1>1 DEF Counts, IInv, PaceInv, Units
    <3> QED
      BY <1>1, <1>2, <3>1, CountFrame
  <2>3. IF c.mode_int = 3 /\ c.enabled THEN c.value >= -(Drift + 1 + Apart)
        ELSE c.value >= -(Drift + Apart + 2)
    BY <1>1 DEF IInv, ValueInv
  <2>4. w.value >= -(Drift + Apart + 2)
    BY <1>1, <2>1, <2>2, <2>3
  <2> QED
    BY <1>5, <2>1, <2>4 DEF IInv, ValueInv
<1>8. GhostInv' /\ Mode0Inv' /\ Mode2Inv' /\ WaveInv' /\ ReadInv'
  BY <1>5, WordFacts
  DEF ControlWord, NoWave, GhostInv, Mode0Inv, Mode2Inv, WaveInv, SquareWave, ReadInv, None
<1> QED
  BY <1>6, <1>7, <1>8 DEF IInv

LEMMA AppendLast ==
  ASSUME NEW q \in Seq(Nat), NEW b \in Nat, NEW t \in Seq(Nat), Len(t) = Len(q) + 1,
         \A i \in 1..Len(q) : t[i] = q[i], t[Len(q) + 1] = b
  PROVE  Append(q, b) = t
<1>1. /\ Append(q, b) \in Seq(Nat) /\ Len(Append(q, b)) = Len(q) + 1
      /\ \A i \in 1..Len(q) : Append(q, b)[i] = q[i]
      /\ Append(q, b)[Len(q) + 1] = b
  BY AppendProperties
<1>2. \A i \in 1..Len(Append(q, b)) : Append(q, b)[i] = t[i]
  BY <1>1
<1> QED
  BY <1>1, <1>2, SeqEqual

LEMMA AppendOne == ASSUME NEW a \in Nat, NEW b \in Nat PROVE Append(<<a>>, b) = <<a, b>>
<1>1. <<a>> \in Seq(Nat) /\ <<a, b>> \in Seq(Nat)
  OBVIOUS
<1>2. PICK q \in Seq(Nat), t \in Seq(Nat) : q = <<a>> /\ t = <<a, b>>
  BY <1>1
<1>3. Len(t) = Len(q) + 1 /\ (\A i \in 1..Len(q) : t[i] = q[i]) /\ t[Len(q) + 1] = b
  BY <1>2
<1>4. Append(q, b) = t
  BY <1>3, AppendLast
<1> QED
  BY <1>2, <1>4

LEMMA AppendTwo ==
  ASSUME NEW a \in Nat, NEW b \in Nat, NEW d \in Nat
  PROVE  Append(<<a, b>>, d) = <<a, b, d>>
<1>1. <<a, b>> \in Seq(Nat) /\ <<a, b, d>> \in Seq(Nat)
  OBVIOUS
<1>2. PICK q \in Seq(Nat), t \in Seq(Nat) : q = <<a, b>> /\ t = <<a, b, d>>
  BY <1>1
<1>3. Len(t) = Len(q) + 1 /\ (\A i \in 1..Len(q) : t[i] = q[i]) /\ t[Len(q) + 1] = d
  BY <1>2
<1>4. Append(q, d) = t
  BY <1>3, AppendLast
<1> QED
  BY <1>2, <1>4

LEMMA ReadStepInv == IInv /\ Read => IInv'
<1> SUFFICES ASSUME IInv, Read PROVE IInv'
  OBVIOUS
<1>1. c \in Units /\ gap = Apart /\ gap' = 0 /\ Apart \in Nat /\ Drift \in Nat
  BY Parameters DEF IInv, PaceInv, Read, Access
<1>2. PICK ws \in {0, 1}, lv \in {c.latch_value, None} :
        /\ c' = [c EXCEPT !.write_state = ws, !.latch_value = lv]
        /\ c.latch_mode = 3 /\ c.write_state = 0 => ws = 1 /\ lv = c.latch_value
  <2>1. c.latch_mode = 3 => c.write_state \in {0, 1}
    BY <1>1 DEF Units
  <2>2. CASE c.latch_mode = 3 /\ c.write_state = 0
    <3>1. c' = [c EXCEPT !.write_state = 1]
      BY <2>2 DEF Read, AfterRead
    <3>2. c' = [c EXCEPT !.write_state = 1, !.latch_value = c.latch_value]
      BY <1>1, <3>1 DEF Units
    <3> QED
      BY <3>2
  <2>3. CASE c.latch_mode = 3 /\ c.write_state = 1
    BY <2>3 DEF Read, AfterRead
  <2>4. CASE c.latch_mode \in {1, 2}
    <3>1. c' = [c EXCEPT !.latch_value = None]
      BY <2>4 DEF Read, AfterRead
    <3>2. c' = [c EXCEPT !.write_state = c.write_state, !.latch_value = None]
      BY <1>1, <3>1 DEF Units
    <3>3. c.write_state \in {0, 1} /\ c.latch_mode # 3
      BY <1>1, <2>4 DEF Units
    <3> QED
      BY <3>2, <3>3
  <2>5. CASE c.latch_mode = 0
    <3>1. c' = c
      BY <2>5 DEF Read, AfterRead
    <3>2. c' = [c EXCEPT !.write_state = c.write_state, !.latch_value = c.latch_value]
      BY <1>1, <3>1 DEF Units
    <3>3. c.write_state \in {0, 1} /\ c.latch_mode # 3
      BY <1>1, <2>5 DEF Units
    <3> QED
      BY <3>2, <3>3
  <2>6. c.latch_mode \in {0, 1, 2, 3}
    BY <1>1 DEF Units
  <2> QED
    BY <2>1, <2>2, <2>3, <2>4, <2>5, <2>6
<1>3. /\ c' \in Units /\ c'.latch_value = lv /\ c'.write_state = ws
      /\ c'.latch_mode = c.latch_mode /\ c'.out = c.out /\ c'.value = c.value
      /\ c'.mode_int = c.mode_int /\ c'.loadvalue = c.loadvalue /\ c'.armed = c.armed
      /\ c'.load = c.load /\ c'.enabled = c.enabled /\ c'.bcd = c.bcd /\ c'.delay = c.delay
  <2>1. None \in Int
    BY DEF None
  <2> QED
    BY <1>1, <1>2, <2>1 DEF Units
<1>4. PaceInv'
  BY <1>1, <1>3 DEF IInv, PaceInv, Units
<1>5. ValueInv'
  <2>1. c.mode_int = 3 /\ c.enabled => c.value > -Drift
    BY DEF Read, Room
  <2>2. lv \in Lowest..Word
    BY <1>1, <1>2, WordFacts DEF IInv, ValueInv, Lowest, None
  <2> QED
    BY <1>1, <1>3, <2>1, <2>2 DEF IInv, ValueInv, Units
<1>6. GhostInv' /\ Mode0Inv' /\ Mode2Inv'
  BY <1>3 DEF Read, IInv, GhostInv, Mode0Inv, Mode2Inv, Done
<1>7. WaveInv'
  <2>1. Reload(c') = Reload(c) /\ wave' = wave
    BY <1>3 DEF Read, Reload, Largest
  <2> QED
    BY <1>3, <2>1 DEF IInv, WaveInv, SquareWave, HalfPeriod
<1>8. ReadInv'
  <2>1. Shown(c) \in Nat
    BY <1>1, ShownIsNat
  <2>7. Lsb(Shown(c)) \in Nat /\ Msb(Shown(c)) \in Nat
    BY <2>1, Parameters DEF Lsb, Msb
  <2>2. CASE /\ c.latch_mode = 3 /\ c.latch_value # None
             /\ c.write_state = 0 /\ paired = <<Shown(c)>>
    <3>1. Shown(c') = Shown(c)
      BY <1>2, <1>3, <2>2 DEF Shown
    <3>2. Len(paired) = 1 /\ read_value(c) = Lsb(Shown(c))
      BY <2>2 DEF read_value
    <3>3. paired' = <<Shown(c), Lsb(Shown(c))>>
      <4>1. paired' = Append(paired, read_value(c))
        BY <3>2 DEF Read
      <4>2. Append(<<Shown(c)>>, Lsb(Shown(c))) = <<Shown(c), Lsb(Shown(c))>>
        BY <2>1, <2>7, AppendOne
      <4> QED
        BY <2>2, <3>2, <4>1, <4>2
    <3> QED
      BY <1>2, <1>3, <2>2, <3>1, <3>3 DEF ReadInv
  <2>3. CASE /\ c.latch_mode = 3 /\ c.write_state = 1
             /\ paired = <<Shown(c), Lsb(Shown(c))>>
    <3>1. Len(paired) = 2 /\ read_value(c) = Msb(Shown(c))
      BY <2>3 DEF read_value
    <3>2. paired' = <<Shown(c), Lsb(Shown(c)), Msb(Shown(c))>>
      <4>1. paired' = Append(paired, read_value(c))
        BY <3>1 DEF Read
      <4>2. Append(<<Shown(c), Lsb(Shown(c))>>, Msb(Shown(c)))
              = <<Shown(c), Lsb(Shown(c)), Msb(Shown(c))>>
        BY <2>1, <2>7, AppendTwo
      <4> QED
        BY <2>3, <3>1, <4>1, <4>2
    <3> QED
      BY <2>1, <3>2 DEF ReadInv
  <2>4. CASE paired = <<>> \/ \E x \in Nat : paired = <<x, Lsb(x), Msb(x)>>
    <3>1. Len(paired) \notin {1, 2}
      BY <2>4
    <3> QED
      BY <3>1 DEF Read, ReadInv
  <2> QED
    BY <2>2, <2>3, <2>4 DEF IInv, ReadInv
<1> QED
  BY <1>4, <1>5, <1>6, <1>7, <1>8 DEF IInv

LEMMA LoadedFacts ==
  ASSUME NEW u \in Units, u.delay = 0, NEW word \in 0..(Word - 1)
  PROVE  /\ Loaded(u, word) \in Units /\ Loaded(u, word).load
         /\ Loaded(u, word).delay \in {0, 3}
         /\ Loaded(u, word).delay = 3 => u.mode_int = 0 \/ ~u.enabled
         /\ Loaded(u, word).latch_value = u.latch_value /\ Loaded(u, word).value = u.value
         /\ Loaded(u, word).mode_int = u.mode_int /\ Loaded(u, word).enabled = u.enabled
<1>1. word \in Nat /\ word \in 0..(Word - 1)
  BY WordFacts
<1>2. PICK lv \in 0..(Word - 1) : lv = IF u.bcd THEN frombcd(word) ELSE word
  BY <1>1, Digits
<1>3. PICK d \in {0, 3} : /\ d = IF u.mode_int = 0 \/ ~u.enabled THEN 3 ELSE u.delay
                          /\ d = 3 => u.mode_int = 0 \/ ~u.enabled
  OBVIOUS
<1>4. Loaded(u, word) = [u EXCEPT !.load = TRUE, !.loadvalue = lv, !.delay = d]
  BY <1>2, <1>3 DEF Loaded
<1>5. d \in 0..3
  OBVIOUS
<1> DEFINE w == Loaded(u, word)
<1> HIDE DEF w
<1>6. /\ w \in Units /\ w.load /\ w.delay = d /\ w.latch_value = u.latch_value
      /\ w.value = u.value /\ w.mode_int = u.mode_int /\ w.enabled = u.enabled
  BY <1>4, <1>5 DEF w, Units
<1> QED
  BY <1>3, <1>6 DEF w

(* A write loads a whole count, or leaves all but its first byte alone.    *)
WriteKeeps(u, w) ==
  /\ w \in Units /\ w.delay \in {0, 3} /\ w.mode_int = u.mode_int /\ w.enabled = u.enabled
  /\ w.latch_value = u.latch_value
  /\ w.value = u.value \/ (u.latch_mode = 2 /\ w.value \in 0..Word)
  /\ w.delay = 3 => w.load /\ (u.mode_int = 0 \/ ~u.enabled)
  /\ ~w.load => /\ w.loadvalue = u.loadvalue /\ w.bcd = u.bcd /\ w.armed = u.armed
                /\ w.out = u.out /\ w.value = u.value

LEMMA Writes ==
  ASSUME NEW u \in Units, u.delay = 0, ~u.load, NEW w8 \in Written
  PROVE  WriteKeeps(u, write_value(u, w8))
<1> DEFINE w == write_value(u, w8)
<1>1. w8 \in 0..(Hex - 1) /\ Hex \in Nat /\ Hex >= 1 /\ Written \subseteq 0..(Hex - 1)
  BY Parameters
<1>2. u.write_lsb \in 0..(Hex - 1) /\ u.write_lsb \in Written \union {0}
  <2>1. u.write_lsb \in Written \union {0}
    BY DEF Units
  <2>2. 0 \in 0..(Hex - 1)
    BY <1>1
  <2> QED
    BY <1>1, <2>1, <2>2
<1>3. (Hex * w8) + u.write_lsb \in 0..(Word - 1)
  BY <1>1, <1>2, TwoDigits DEF Word
<1>4. Hex * w8 \in 0..(Word - 1) /\ w8 \in 0..(Word - 1)
  <2>1. (Hex * w8) + 0 \in 0..(Word - 1) /\ (Hex * 0) + w8 \in 0..(Word - 1)
    BY <1>1, TwoDigits DEF Word
  <2>2. (Hex * w8) + 0 = Hex * w8 /\ (Hex * 0) + w8 = w8
    BY <1>1
  <2> QED
    BY <2>1, <2>2
<1>5. CASE u.latch_mode = 3 /\ u.write_state = 0
  <2>1. w = [u EXCEPT !.write_lsb = w8, !.write_state = 1]
    BY <1>5 DEF write_value
  <2> HIDE DEF w
  <2>2. /\ w \in Units /\ w.delay = 0 /\ w.mode_int = u.mode_int /\ w.enabled = u.enabled
        /\ w.latch_value = u.latch_value /\ w.value = u.value /\ w.loadvalue = u.loadvalue
        /\ w.bcd = u.bcd /\ w.armed = u.armed /\ w.out = u.out
    BY <2>1 DEF Units
  <2> QED
    BY <2>2 DEF w, WriteKeeps
<1>6. CASE u.latch_mode = 3 /\ u.write_state = 1
  <2>1. PICK t \in Units : /\ t = [u EXCEPT !.write_lsb = 0, !.write_state = 0]
                          /\ t.delay = 0 /\ t.latch_value = u.latch_value /\ t.value = u.value
                          /\ t.mode_int = u.mode_int /\ t.enabled = u.enabled
    <3>1. [u EXCEPT !.write_lsb = 0, !.write_state = 0] \in Units
      BY DEF Units
    <3> QED
      BY <3>1 DEF Units
  <2>4. PICK word \in 0..(Word - 1) : word = (Hex * w8) + u.write_lsb
    BY <1>3
  <2>5. t.delay = 0
    BY <2>1
  <2>2. w = Loaded(t, word)
    BY <1>6, <2>1, <2>4 DEF write_value
  <2> HIDE DEF w
  <2>3. /\ w \in Units /\ w.load /\ w.delay \in {0, 3}
        /\ w.delay = 3 => t.mode_int = 0 \/ ~t.enabled
        /\ w.latch_value = t.latch_value /\ w.value = t.value
        /\ w.mode_int = t.mode_int /\ w.enabled = t.enabled
    BY <2>2, <2>5, LoadedFacts
  <2> QED
    BY <2>1, <2>3 DEF w, WriteKeeps
<1>7. CASE u.latch_mode = 1
  <2>1. w = Loaded(u, w8)
    BY <1>7 DEF write_value
  <2> HIDE DEF w
  <2>2. /\ w \in Units /\ w.load /\ w.delay \in {0, 3}
        /\ w.delay = 3 => u.mode_int = 0 \/ ~u.enabled
        /\ w.latch_value = u.latch_value /\ w.value = u.value
        /\ w.mode_int = u.mode_int /\ w.enabled = u.enabled
    BY <1>4, <2>1, LoadedFacts
  <2> QED
    BY <2>2 DEF w, WriteKeeps
<1>8. CASE u.latch_mode = 2
  <2>1. PICK t \in Units : /\ t = [u EXCEPT !.value = Hex * w8]
                          /\ t.delay = 0 /\ t.latch_value = u.latch_value /\ t.value = Hex * w8
                          /\ t.mode_int = u.mode_int /\ t.enabled = u.enabled
    <3>1. Hex * w8 \in Int
      BY <1>1
    <3>2. [u EXCEPT !.value = Hex * w8] \in Units
      BY <3>1 DEF Units
    <3> QED
      BY <3>2 DEF Units
  <2>2. w = Loaded(t, Hex * w8)
    BY <1>8, <2>1 DEF write_value
  <2> HIDE DEF w
  <2>3. /\ w \in Units /\ w.load /\ w.delay \in {0, 3}
        /\ w.delay = 3 => t.mode_int = 0 \/ ~t.enabled
        /\ w.latch_value = t.latch_value /\ w.value = t.value
        /\ w.mode_int = t.mode_int /\ w.enabled = t.enabled
    BY <1>4, <2>1, <2>2, LoadedFacts
  <2>4. w.value \in 0..Word
    BY <1>4, <2>1, <2>3, WordFacts
  <2> QED
    BY <1>8, <2>1, <2>3, <2>4 DEF w, WriteKeeps
<1>9. CASE u.latch_mode = 0
  <2>1. w = u
    BY <1>9 DEF write_value
  <2> HIDE DEF w
  <2> QED
    BY <2>1 DEF w, WriteKeeps
<1>10. u.latch_mode \in {0, 1, 2, 3} /\ u.write_state \in {0, 1}
  BY DEF Units
<1> QED
  BY <1>5, <1>6, <1>7, <1>8, <1>9, <1>10

LEMMA WriteInv == ASSUME IInv, NEW w8 \in Written, Write(w8) PROVE IInv'
<1>1. /\ c \in Units /\ gap = Apart /\ gap' = 0 /\ c.delay = 0 /\ ~c.load
      /\ Apart \in Nat /\ Apart >= 4 /\ Drift \in Nat
  BY Parameters DEF IInv, PaceInv, Write, Access, Units
<1>2. PICK w \in Units :
        /\ c' = w
        /\ w.delay \in {0, 3} /\ w.mode_int = c.mode_int /\ w.enabled = c.enabled
        /\ w.latch_value = c.latch_value
        /\ w.value = c.value \/ (c.latch_mode = 2 /\ w.value \in 0..Word)
        /\ w.delay = 3 => w.load /\ (c.mode_int = 0 \/ ~c.enabled)
        /\ ~w.load => /\ w.loadvalue = c.loadvalue /\ w.bcd = c.bcd /\ w.armed = c.armed
                      /\ w.out = c.out /\ w.value = c.value
  BY <1>1, Writes DEF Write, WriteKeeps
<1>3. PaceInv'
  BY <1>1, <1>2 DEF PaceInv
<1>4. ValueInv'
  <2>1. c.mode_int = 3 /\ c.enabled => c.value > -Drift
    BY DEF Write, Room
  <2>2. c.value \in Int /\ Word \in Nat
    BY <1>1, WordFacts DEF Units
  <2> QED
    BY <1>1, <1>2, <2>1, <2>2 DEF IInv, ValueInv
<1>5. GhostInv'
  <2>1. wave' = wave \/ wave' = [wave EXCEPT !.steady = FALSE, !.half = 0]
    BY DEF Write
  <2>2. wave' \in [counts : Nat, steady : BOOLEAN, half : Nat]
    <3>1. PICK v \in [counts : Nat, steady : BOOLEAN, half : Nat] : v = wave
      BY DEF IInv, GhostInv
    <3>2. [v EXCEPT !.steady = FALSE, !.half = 0] \in [counts : Nat, steady : BOOLEAN, half : Nat]
      OBVIOUS
    <3> QED
      BY <2>1, <3>1, <3>2
  <2>3. effective' \in None..Word /\ ticks' \in Int
    BY WordFacts DEF IInv, GhostInv, Write, None
  <2> QED
    BY <2>2, <2>3 DEF GhostInv
<1>6. Mode0Inv'
  <2>1. ~w.load => w.delay = 0 /\ (effective' # None => effective' = effective) /\ ticks' = ticks
    BY <1>2 DEF Write
  <2> QED
    BY <1>1, <1>2, <2>1 DEF IInv, Mode0Inv, Done
<1>7. Mode2Inv'
  <2>1. effective' # None => effective' = effective /\ c.latch_mode # 2
    BY DEF Write
  <2>2. ticks' = ticks /\ Word \in Nat
    BY WordFacts DEF Write
  <2> QED
    BY <1>1, <1>2, <2>1, <2>2 DEF IInv, Mode2Inv, Done
<1>8. WaveInv'
  <2>1. CASE w.load
    <3>1. wave' = [wave EXCEPT !.steady = FALSE, !.half = 0]
      BY <1>2, <2>1 DEF Write
    <3>2. ~wave'.steady /\ wave'.half = 0
      BY <3>1 DEF IInv, GhostInv
    <3> QED
      BY <3>2 DEF WaveInv, SquareWave
  <2>2. CASE ~w.load
    <3>1. wave' = wave /\ c'.enabled = c.enabled /\ c'.value = c.value /\ c'.out = c.out
          /\ c'.mode_int = c.mode_int
      BY <1>2, <2>2 DEF Write
    <3>2. Reload(c') = Reload(c)
      BY <1>2, <2>2 DEF Reload, Largest
    <3> QED
      BY <3>1, <3>2 DEF IInv, WaveInv, SquareWave, HalfPeriod
  <2> QED
    BY <2>1, <2>2
<1>9. ReadInv'
  BY DEF Write, ReadInv
<1> QED
  BY <1>3, <1>4, <1>5, <1>6, <1>7, <1>8, <1>9 DEF IInv

LEMMA StutterInv == IInv /\ UNCHANGED vars => IInv'
BY DEF vars, IInv, PaceInv, ValueInv, GhostInv, Mode0Inv, Mode2Inv, Done, WaveInv, SquareWave,
       HalfPeriod, ReadInv

LEMMA NextInv == IInv /\ [Next]_vars => IInv'
<1> SUFFICES ASSUME IInv, [Next]_vars PROVE IInv'
  OBVIOUS
<1>1. CASE Clock
  BY <1>1, ClockInv
<1>2. CASE LatchCommand
  BY <1>2, LatchInv
<1>3. CASE Read
  BY <1>3, ReadStepInv
<1>4. CASE \E mode \in 0..3, latch \in 1..3, bcd \in BOOLEAN : ControlWord(mode, latch, bcd)
  BY <1>4, ControlInv
<1>5. CASE \E w8 \in Written : Write(w8)
  BY <1>5, WriteInv
<1>6. CASE UNCHANGED vars
  BY <1>6, StutterInv
<1> QED
  BY <1>1, <1>2, <1>3, <1>4, <1>5, <1>6 DEF Next

-----------------------------------------------------------------------------
(* The theorems                                                            *)

(* The inductive invariant of a counter.                                   *)
THEOREM Invariant == Spec => []IInv
BY InitInv, NextInv, PTL DEF Spec

(* The value of a counter stays in its range, and a written count has been *)
(* taken over before the next access, whatever is programmed.              *)
THEOREM TypeCorrect == Spec => []TypeOK
<1>1. IInv => TypeOK
  <2> SUFFICES ASSUME IInv PROVE TypeOK
    OBVIOUS
  <2>1. /\ c \in Units /\ c.value \in Int /\ c.delay \in 0..3
        /\ Apart \in Nat /\ Drift \in Nat /\ Word \in Nat
    BY Parameters, WordFacts DEF IInv, PaceInv, Units
  <2>2. c.value \in Lowest..Word /\ c.latch_value \in Lowest..Word
    BY <2>1 DEF IInv, ValueInv, Lowest, PaceInv
  <2>3. gap \in 0..Apart /\ (c.load => gap < Apart) /\ (c.delay > 0 => gap < Apart)
    BY <2>1 DEF IInv, PaceInv
  <2> QED
    BY <2>1, <2>2, <2>3 DEF TypeOK, Units
<1> QED
  BY <1>1, Invariant, PTL

(* Mode 0 raises its output when as many counts have been made as were     *)
(* written, and not for a count of zero.                                   *)
THEOREM TerminalCountHolds == Spec => []TerminalCount
<1>1. IInv => TerminalCount
  <2> SUFFICES ASSUME IInv, c.mode_int = 0, effective # None, ~c.load
               PROVE  c.out = 1 <=> effective > 0 /\ ticks + c.delay >= effective
    BY DEF TerminalCount
  <2>1. effective \in Int /\ ticks \in Int /\ c.delay \in Int /\ c.value \in Int
    BY WordFacts DEF IInv, PaceInv, GhostInv, Units, None
  <2> QED
    BY <2>1 DEF IInv, Mode0Inv, Done
<1> QED
  BY <1>1, Invariant, PTL

(* The rate generator shows what is left of its period, whatever is        *)
(* latched, read or written on the way.                                    *)
THEOREM RateGeneratorHolds == Spec => []RateGenerator
<1>1. IInv => RateGenerator
  BY DEF IInv, Mode2Inv, Done, RateGenerator
<1> QED
  BY <1>1, Invariant, PTL

(* A steady half of a square wave is half its count long, and the high one *)
(* a count longer for an odd count.                                        *)
THEOREM SquareWaveHolds == Spec => []SquareWave
<1>1. IInv => SquareWave
  BY DEF IInv, WaveInv
<1> QED
  BY <1>1, Invariant, PTL

(* The bytes read of a latched value are the bytes of that value.          *)
THEOREM LatchedReadHolds == Spec => []LatchedRead
<1>1. IInv => LatchedRead
  <2> SUFFICES ASSUME IInv, Len(paired) = 3
               PROVE  paired[1] = (Hex * paired[3]) + paired[2]
    BY DEF LatchedRead
  <2>1. PICK x \in Nat : paired = <<x, Lsb(x), Msb(x)>>
    BY DEF IInv, ReadInv
  <2> QED
    BY <2>1, BytesOfWord
<1> QED
  BY <1>1, Invariant, PTL
=============================================================================
