----------------------------- MODULE FrameProofs -----------------------------
(***************************************************************************)
(* What a frame leaves behind.  Its picture, its time and its interrupt    *)
(* request, for any number of lines, heights and borders (Raster); and its *)
(* sound, for any number and size of the buffers in the ring (SoundRing).  *)
(***************************************************************************)
EXTENDS Raster, SoundRing, TLAPS

(* What the numbers of the beam's place are.                               *)
PlaceInv ==
  /\ raster_line \in 0..(Lines - 1)
  /\ \E n \in 0..47 : raster_pixel = 16 * n
  /\ \E n \in 0..9 : instr_time = 4 * n
  /\ between \in Nat /\ asked \in Nat /\ brk \in BOOLEAN

(* Between the frames the beam is past the edge by the cycles carried over. *)
EdgeInv ==
  brk => /\ raster_line = 0 /\ raster_pixel = 4 * instr_time
         /\ between \in {FrameTime, FrameTime + 16} /\ asked = 1

(* Before the first instruction of a frame it still is.                    *)
BeginInv ==
  ~brk /\ between = 0 => raster_line = 0 /\ raster_pixel = 4 * instr_time /\ asked = 0

(* After it, the cycles of the frame are those the beam has moved, but for *)
(* an acknowledge; and the request was made if its place lies behind.      *)
CountInv ==
  ~brk /\ between # 0 =>
    /\ instr_time = 0
    /\ 4 * between - ((raster_line * 768) + raster_pixel) \in {0, 64}
    /\ asked = IF raster_line = 0 /\ raster_pixel < RequestPixel THEN 0 ELSE 1

BeamInv == PlaceInv /\ EdgeInv /\ BeginInv /\ CountInv

LEMMA InitBeam == Init => BeamInv
<1> SUFFICES ASSUME Init PROVE BeamInv
  OBVIOUS
<1>1. raster_pixel = 16 * 0 /\ instr_time = 4 * 0 /\ raster_line = 0 /\ between = 0
      /\ asked = 0 /\ brk = FALSE
  BY DEF Init
<1>2. PlaceInv
  <2>1. raster_line \in 0..(Lines - 1)
    BY <1>1, RasterAssumption DEF RasterAssumption
  <2>2. 0 \in 0..47 /\ 0 \in 0..9
    OBVIOUS
  <2> QED
    BY <1>1, <2>1, <2>2 DEF PlaceInv
<1> QED
  BY <1>1, <1>2 DEF BeamInv, EdgeInv, BeginInv, CountInv

LEMMA StartBeam == BeamInv /\ StartFrame => BeamInv'
<1> SUFFICES ASSUME BeamInv, StartFrame PROVE BeamInv'
  OBVIOUS
<1>1. /\ raster_pixel = 4 * instr_time
      /\ raster_pixel' = raster_pixel /\ instr_time' = instr_time
      /\ raster_line' = 0 /\ brk' = FALSE /\ between' = 0 /\ asked' = 0
  BY DEF BeamInv, EdgeInv, StartFrame, BeamAfterReset
<1>2. PlaceInv'
  <2>1. raster_line' \in 0..(Lines - 1)
    BY <1>1, RasterAssumption DEF RasterAssumption
  <2>2. between' \in Nat /\ asked' \in Nat /\ brk' \in BOOLEAN
    BY <1>1
  <2> QED
    BY <1>1, <2>1, <2>2 DEF BeamInv, PlaceInv
<1> QED
  BY <1>1, <1>2 DEF BeamInv, EdgeInv, BeginInv, CountInv

LEMMA FrameTimeValue == FrameTime = 192 * Lines
BY RasterAssumption DEF RasterAssumption, FrameTime

(* The cycles of a step are a multiple of four, and at most 40 in all.     *)
LEMMA TimingSizes ==
  ASSUME NEW timing \in Timings
  PROVE  \E n \in 1..6 : timing[2] = 4 * n
BY DEF Timings

(* The cycles that a step fills, as single_step() counts them.             *)
Begun == instr_time + IF irq /\ iff THEN 16 ELSE 0
Time(timing) == timing[2] + IF Begun # 0 /\ between = 0 THEN 0 ELSE Begun

LEMMA StepTime ==
  ASSUME BeamInv, NEW kind, NEW timing \in Timings, Step(kind, timing)
  PROVE  \E k \in 1..10 : Time(timing) = 4 * k
<1>1. PICK i \in 0..9 : instr_time = 4 * i
  BY DEF BeamInv, PlaceInv
<1>2. PICK t \in 1..6 : timing[2] = 4 * t
  BY TimingSizes
<1>3. ~brk /\ between \in Nat
  BY DEF Step, BeamInv, PlaceInv
<1>4. between # 0 => i = 0
  BY <1>1, <1>3 DEF BeamInv, CountInv
<1>5. CASE Begun # 0 /\ between = 0
  BY <1>2, <1>5 DEF Time
<1>6. CASE ~(Begun # 0 /\ between = 0)
  <2>1. Begun = 4 * 0 \/ Begun = 4 * 4
    BY <1>1, <1>4, <1>6 DEF Begun
  <2>2. PICK b \in 0..4 : Begun = 4 * b
    BY <2>1
  <2> QED
    BY <1>2, <1>6, <2>2 DEF Time
<1> QED
  BY <1>5, <1>6

(* A step moves the beam by at most 40 cycles, so that it crosses at most  *)
(* one line and never asks beyond the edge of the frame.                   *)
LEMMA StepBeam ==
  ASSUME BeamInv, NEW kind, NEW timing \in Timings, Step(kind, timing)
  PROVE  BeamInv' /\ (brk' => irq_carry' = FALSE)
<1> DEFINE ack == irq /\ iff
           begun == instr_time + IF ack THEN 16 ELSE 0
           starts == begun # 0 /\ between = 0
           time == timing[2] + IF starts THEN 0 ELSE begun
           end == raster_pixel + (4 * time)
           clk == irq_clk(end)
           asks == clk # None
           over == raster_line = Lines - 1 /\ end >= 768
           after == IF over THEN (end - 768) \div 4 ELSE 0
<1>1. /\ ~brk /\ fill1(end)
      /\ between' = (IF starts THEN begun ELSE between) + time - after
      /\ instr_time' = after
      /\ asked' = asked + IF asks THEN 1 ELSE 0
      /\ ~asks => irq_carry' = FALSE
  BY RasterAssumption DEF RasterAssumption, Step
<1>2. PICK p \in 0..47 : raster_pixel = 16 * p
  BY DEF BeamInv, PlaceInv
<1>3. PICK i \in 0..9 : instr_time = 4 * i
  BY DEF BeamInv, PlaceInv
<1>4. PICK t \in 1..6 : timing[2] = 4 * t
  BY TimingSizes
<1>5. /\ raster_line \in 0..(Lines - 1) /\ between \in Nat /\ asked \in Nat
      /\ brk = FALSE /\ Lines \in Nat \ {0}
  BY <1>1, RasterAssumption DEF RasterAssumption, BeamInv, PlaceInv
<1>6. PICK k \in 1..10 : time = 4 * k
  BY StepTime DEF Time, Begun
<1>7. end = 16 * (p + k)
  BY <1>2, <1>6
<1> HIDE DEF time, end
<1>8. /\ raster_line' = IF end >= 768 /\ raster_line = Lines - 1 THEN 0
                        ELSE IF end >= 768 THEN raster_line + 1 ELSE raster_line
      /\ raster_pixel' = IF end >= 768 THEN end - 768 ELSE end
      /\ (over => brk' = TRUE) /\ (~over => brk' = FALSE)
  <2>1. Line = 768 /\ (end >= 768) \in BOOLEAN
    BY <1>7, RasterAssumption DEF RasterAssumption
  <2>2. /\ raster_line' = IF end >= 768 /\ raster_line = Lines - 1 THEN 0
                          ELSE IF end >= 768 THEN raster_line + 1 ELSE raster_line
        /\ raster_pixel' = IF end >= 768 THEN end - 768 ELSE end
    BY <1>1, <1>5, <2>1 DEF fill1
  <2>3. brk' = ((IF end >= 768 THEN raster_line + 1 ELSE raster_line) = Lines)
    BY <1>1, <2>1 DEF fill1
  <2>4. ((IF end >= 768 THEN raster_line + 1 ELSE raster_line) = Lines) <=> over
    BY <1>5, <2>1
  <2> QED
    BY <2>2, <2>3, <2>4
<1>9. asks <=> raster_line = 0 /\ raster_pixel < RequestPixel /\ RequestPixel <= end
  BY <1>2, <1>5, <1>6, <1>7, RasterAssumption DEF RasterAssumption, irq_clk, None, RequestPixel
<1>10. after = IF over THEN 4 * (p + k - 48) ELSE 0
  BY <1>7
<1>11. PlaceInv'
  <2>1. raster_line' \in 0..(Lines - 1) /\ brk' \in BOOLEAN
    <3>1. brk' \in BOOLEAN
      BY <1>8
    <3> QED
      BY <1>5, <1>8, <3>1
  <2>2. \E n \in 0..47 : raster_pixel' = 16 * n
    <3>1. CASE end >= 768
      <4>1. raster_pixel' = 16 * (p + k - 48) /\ p + k - 48 \in 0..47
        BY <1>7, <1>8, <3>1
      <4> QED
        BY <4>1
    <3>2. CASE ~(end >= 768)
      <4>1. raster_pixel' = 16 * (p + k) /\ p + k \in 0..47
        BY <1>7, <1>8, <3>2
      <4> QED
        BY <4>1
    <3> QED
      BY <3>1, <3>2
  <2>3. \E n \in 0..9 : instr_time' = 4 * n
    <3>1. CASE over
      <4>1. instr_time' = 4 * (p + k - 48) /\ p + k - 48 \in 0..9
        BY <1>1, <1>7, <1>10, <3>1
      <4> QED
        BY <4>1
    <3>2. CASE ~over
      <4>1. instr_time' = 4 * 0
        BY <1>1, <1>10, <3>2
      <4> QED
        BY <4>1
    <3> QED
      BY <3>1, <3>2
  <2>4. between' \in Nat
    <3>1. (IF starts THEN begun ELSE between) \in Nat
      BY <1>3, <1>5
    <3>2. time - after \in Nat
      BY <1>6, <1>7, <1>10
    <3>3. time \in Nat /\ after \in Nat
      BY <1>6, <1>7, <1>10
    <3> HIDE DEF starts, begun, after
    <3> QED
      BY <1>1, <3>1, <3>2, <3>3
  <2>5. asked' \in Nat
    BY <1>1, <1>5
  <2> QED
    BY <2>1, <2>2, <2>3, <2>4, <2>5 DEF PlaceInv
<1>12. ASSUME between = 0 PROVE BeamInv'
  <2>1. raster_line = 0 /\ p = i /\ asked = 0
    BY <1>2, <1>3, <1>5, <1>12 DEF BeamInv, BeginInv
  <2>2. time = 4 * t /\ between' = begun + time - after /\ begun \in {4 * i, (4 * i) + 16}
    <3>1. begun \in {4 * i, (4 * i) + 16}
      BY <1>3
    <3>2. IF starts THEN begun = (IF starts THEN begun ELSE between) ELSE begun = 0
      BY <1>12
    <3>3. time = 4 * t
      BY <1>4, <3>2 DEF time
    <3> QED
      BY <1>1, <1>12, <3>1, <3>2, <3>3
  <2>3. end < 768 /\ ~over /\ after = 0
    BY <1>2, <1>7, <1>6, <2>1, <2>2, <1>10 DEF over
  <2>4. /\ brk' = FALSE /\ raster_line' = 0 /\ raster_pixel' = end /\ instr_time' = 0
        /\ between' # 0 /\ asked' = IF end < RequestPixel THEN 0 ELSE 1
    <3>1. brk' = FALSE /\ raster_line' = 0 /\ raster_pixel' = end /\ instr_time' = 0
      BY <1>1, <1>7, <1>8, <2>1, <2>3 DEF over
    <3>2. between' # 0
      <4> HIDE DEF begun
      <4>1. begun >= 0 /\ between' = begun + (4 * t)
        BY <2>2, <2>3
      <4> QED
        BY <4>1, <2>2
    <3>3. asked' = IF end < RequestPixel THEN 0 ELSE 1
      BY <1>1, <1>2, <1>3, <1>7, <1>9, <2>1 DEF RequestPixel
    <3> QED
      BY <3>1, <3>2, <3>3
  <2>5. 4 * between' - raster_pixel' \in {0, 64}
    BY <1>2, <1>6, <1>7, <2>1, <2>2, <2>3, <2>4
  <2>6. CountInv'
    <3>1. (raster_line' * 768) + raster_pixel' = raster_pixel'
      BY <1>7, <2>4
    <3> QED
      BY <2>4, <2>5, <3>1 DEF CountInv
  <2> QED
    BY <1>11, <2>4, <2>6 DEF BeamInv, EdgeInv, BeginInv
<1>13. ASSUME between # 0 PROVE BeamInv'
  <2>1. PICK d \in {0, 64} : 4 * between - ((raster_line * 768) + (16 * p)) = d
    BY <1>2, <1>5, <1>13 DEF BeamInv, CountInv
  <2>2. /\ asked = IF raster_line = 0 /\ 16 * p < 174 THEN 0 ELSE 1
        /\ between' = between + time - after
    BY <1>1, <1>2, <1>5, <1>13 DEF BeamInv, CountInv, RequestPixel
  <2>3. asked' = IF raster_line = 0 /\ 16 * (p + k) < 174 THEN 0 ELSE 1
    BY <1>1, <1>2, <1>7, <1>9, <2>2 DEF RequestPixel
  <2>4. CASE over
    <3>1. raster_line = Lines - 1 /\ p + k >= 48
      BY <1>7, <2>4 DEF over
    <3>2. brk' = TRUE /\ raster_line' = 0 /\ instr_time' = 4 * (p + k - 48)
          /\ raster_pixel' = 16 * (p + k - 48)
      BY <1>1, <1>7, <1>8, <1>10, <2>4, <3>1 DEF over
    <3>3. between' = (192 * Lines) + (d \div 4)
      BY <1>5, <1>6, <1>10, <2>1, <2>2, <2>4, <3>1
    <3>4. asked' = 1
      BY <2>3, <3>1
    <3>5. EdgeInv'
      BY <3>2, <3>3, <3>4, <1>5, FrameTimeValue DEF EdgeInv, FrameTime
    <3> QED
      BY <1>11, <3>2, <3>5 DEF BeamInv, BeginInv, CountInv
  <2>5. CASE ~over
    <3>1. brk' = FALSE /\ instr_time' = 0 /\ between' = between + (4 * k)
      BY <1>1, <1>5, <1>6, <1>8, <1>10, <2>2, <2>5 DEF over
    <3>2. between' # 0
      BY <3>1, <1>5
    <3>3. (raster_line' * 768) + raster_pixel' = (raster_line * 768) + (16 * p) + (16 * k)
      BY <1>5, <1>7, <1>8, <2>5 DEF over
    <3>4. 4 * between' - ((raster_line' * 768) + raster_pixel') \in {0, 64}
      BY <1>5, <2>1, <3>1, <3>3
    <3>5. asked' = IF raster_line' = 0 /\ raster_pixel' < RequestPixel THEN 0 ELSE 1
      BY <1>5, <1>7, <1>8, <2>3, <2>5 DEF over, RequestPixel
    <3> QED
      BY <1>11, <3>1, <3>2, <3>4, <3>5 DEF BeamInv, EdgeInv, BeginInv, CountInv
  <2> QED
    BY <2>4, <2>5
<1>14. brk' => irq_carry' = FALSE
  <2>1. CASE asks
    <3>1. end < 768
      BY <1>2, <1>7, <1>9, <2>1 DEF RequestPixel
    <3>2. ~over
      BY <1>7, <3>1 DEF over
    <3> QED
      BY <1>8, <3>2
  <2>2. CASE ~asks
    BY <1>1, <2>2
  <2> QED
    BY <2>1, <2>2
<1> QED
  BY <1>12, <1>13, <1>14

LEMMA NextBeam == BeamInv /\ [Next]_vars => BeamInv'
<1> SUFFICES ASSUME BeamInv, [Next]_vars PROVE BeamInv'
  OBVIOUS
<1>1. CASE StartFrame
  BY <1>1, StartBeam
<1>2. ASSUME NEW timing \in Timings, Step("plain", timing) PROVE BeamInv'
  BY <1>2, StepBeam
<1>3. <<4, 4>> \in Timings
  BY DEF Timings
<1>4. CASE Step("EI", <<4, 4>>)
  BY <1>3, <1>4, StepBeam
<1>5. CASE Step("DI", <<4, 4>>)
  BY <1>3, <1>5, StepBeam
<1>6. CASE UNCHANGED vars
  BY <1>6 DEF vars, filler, BeamInv, PlaceInv, EdgeInv, BeginInv, CountInv
<1> QED
  BY <1>1, <1>2, <1>4, <1>5, <1>6 DEF Next

(* The cycles counted to a frame are those the beam has moved in it, and   *)
(* the request is made once its place is passed (single_step(), fill1()).  *)
THEOREM BeamTracksTheClock == Spec => []BeamInv
BY InitBeam, NextBeam, PTL DEF Spec

(* A frame accounts for the time of its lines, with 16 cycles more for an  *)
(* acknowledge before its first instruction (execute_frame(), single_step()). *)
THEOREM FrameIsWholeHolds == Spec => []FrameIsWhole
<1>1. BeamInv => FrameIsWhole
  BY DEF BeamInv, EdgeInv, FrameIsWhole
<1> QED
  BY <1>1, BeamTracksTheClock, PTL

(* Every frame asks for an interrupt once, however its first and last      *)
(* instructions lie across the edges (fill1()).                            *)
THEOREM OneRequestHolds == Spec => []OneRequest
<1>1. BeamInv => OneRequest
  BY DEF BeamInv, PlaceInv, EdgeInv, BeginInv, CountInv, OneRequest
<1> QED
  BY <1>1, BeamTracksTheClock, PTL

-----------------------------------------------------------------------------
(* A request that is due to a program that is open for it is at the board, *)
(* or was late and is held over; and nothing is held over a frame's edge,  *)
(* where execute_frame() would forget it.                                  *)
DueInv ==
  /\ owed = 0 \/ (inte /\ iff /\ ((owed = 1 /\ (irq \/ irq_carry)) \/ (owed = 2 /\ irq)))
  /\ brk => irq_carry = FALSE

LEMMA StepDue ==
  ASSUME BeamInv, DueInv, NEW kind, NEW timing \in Timings, Step(kind, timing)
  PROVE  DueInv'
<1> DEFINE ack == irq /\ iff
           begun == instr_time + IF ack THEN 16 ELSE 0
           starts == begun # 0 /\ between = 0
           time == timing[2] + IF starts THEN 0 ELSE begun
           end == raster_pixel + (4 * time)
           clk == irq_clk(end)
           asks == clk # None
           late == asks /\ clk > 4 * thresh(timing[1])
<1>1. /\ irq' = (inte' /\ ((irq /\ ~ack) \/ (asks /\ ~late) \/ CarriedOver(asks)))
      /\ irq_carry' = IF asks THEN late \/ irq_carry ELSE FALSE
      /\ owed' = IF ~inte' \/ ~iff' THEN 0
                 ELSE IF asks THEN 1
                 ELSE IF ack \/ owed = 0 THEN 0 ELSE owed + 1
  BY DEF Step
<1>2. brk' => irq_carry' = FALSE
  BY StepBeam
<1> HIDE DEF begun, starts, time, end, clk, asks, late
<1>3. CASE ~inte' \/ ~iff'
  BY <1>1, <1>2, <1>3 DEF DueInv
<1>4. CASE inte' /\ iff' /\ asks
  BY <1>1, <1>2, <1>4 DEF DueInv
<1>5. CASE inte' /\ iff' /\ ~asks /\ (ack \/ owed = 0)
  BY <1>1, <1>2, <1>5 DEF DueInv
<1>6. CASE inte' /\ iff' /\ ~asks /\ ~(ack \/ owed = 0)
  <2>1. owed = 1 /\ irq_carry
    BY <1>6 DEF DueInv
  <2>2. owed' = 2
    BY <1>1, <1>6, <2>1
  <2>3. irq'
    BY <1>1, <1>6, <2>1, Zenon DEF CarriedOver
  <2> QED
    BY <1>2, <1>6, <2>2, <2>3 DEF DueInv
<1> QED
  BY <1>3, <1>4, <1>5, <1>6

(* A program open for interrupts is interrupted after the instruction in   *)
(* which the raster asked, or after the next (single_step()).              *)
THEOREM PromptHolds == Spec => []Prompt
<1>1. Init => DueInv
  BY DEF Init, DueInv
<1>2. BeamInv /\ DueInv /\ [Next]_vars => DueInv'
  <2> SUFFICES ASSUME BeamInv, DueInv, [Next]_vars PROVE DueInv'
    OBVIOUS
  <2>1. CASE StartFrame
    BY <2>1 DEF StartFrame, DueInv
  <2>2. ASSUME NEW timing \in Timings, Step("plain", timing) PROVE DueInv'
    BY <2>2, StepDue
  <2>3. <<4, 4>> \in Timings
    BY DEF Timings
  <2>4. CASE Step("EI", <<4, 4>>)
    BY <2>3, <2>4, StepDue
  <2>5. CASE Step("DI", <<4, 4>>)
    BY <2>3, <2>5, StepDue
  <2>6. CASE UNCHANGED vars
    BY <2>6 DEF vars, filler, interrupts, DueInv
  <2> QED
    BY <2>1, <2>2, <2>4, <2>5, <2>6 DEF Next
<1>3. DueInv => Prompt
  BY DEF DueInv, Prompt
<1> QED
  BY <1>1, <1>2, <1>3, BeamTracksTheClock, PTL DEF Spec

-----------------------------------------------------------------------------
(* The picture.                                                            *)

LEMMA ViewSizes ==
  ASSUME view \in Views
  PROVE  /\ view.left \in Nat /\ view.width \in Nat /\ view.left + view.width <= 768
         /\ view.height \in Nat
         /\ EvensBelow(view.left + view.width) - EvensBelow(view.left) = view.width \div 2
         /\ 2 * (view.width \div 2) = view.width
<1>1. PICK border \in Borders, height \in Heights :
        view = [width |-> 512 + (2 * border), left |-> 152 - border, height |-> height]
  BY DEF Views
<1>2. border \in 0..104 /\ height \in Nat
  BY RasterAssumption DEF RasterAssumption
<1>3. view.width = 512 + (2 * border) /\ view.left = 152 - border /\ view.height = height
  BY <1>1
<1>4. EvensBelow(664 + border) - EvensBelow(152 - border) = 256 + border
  BY <1>2 DEF EvensBelow
<1> QED
  BY <1>2, <1>3, <1>4

LEMMA DrawnAdds ==
  ASSUME view \in Views, NEW from \in 0..768, NEW to \in from..768
  PROVE  Drawn(0, from) + Drawn(from, to) = Drawn(0, to)
<1>1. view.left \in Nat /\ view.width \in Nat
  BY ViewSizes
<1>2. \A n \in Int : EvensBelow(n) \in Int
  BY DEF EvensBelow
<1>3. PICK L \in Nat, R \in Nat : L = view.left /\ R = view.left + view.width
  BY <1>1
<1> DEFINE Cut(n) == IF n < R THEN n ELSE R
           Lo == IF from > L THEN from ELSE L
<1>4. /\ Drawn(0, from) = IF L < Cut(from) THEN 2 * (EvensBelow(Cut(from)) - EvensBelow(L)) ELSE 0
      /\ Drawn(0, to) = IF L < Cut(to) THEN 2 * (EvensBelow(Cut(to)) - EvensBelow(L)) ELSE 0
      /\ Drawn(from, to) = IF Lo < Cut(to) THEN 2 * (EvensBelow(Cut(to)) - EvensBelow(Lo)) ELSE 0
  BY <1>3 DEF Drawn, Larger, Smaller
<1>5. PICK f \in Int, t \in Int, lo \in Int : f = Cut(from) /\ t = Cut(to) /\ lo = Lo
  BY <1>3
<1>6. /\ EvensBelow(f) \in Int /\ EvensBelow(t) \in Int
      /\ EvensBelow(lo) \in Int /\ EvensBelow(L) \in Int
  BY <1>2, <1>5
<1>7. /\ Drawn(0, from) = IF L < f THEN 2 * (EvensBelow(f) - EvensBelow(L)) ELSE 0
      /\ Drawn(0, to) = IF L < t THEN 2 * (EvensBelow(t) - EvensBelow(L)) ELSE 0
      /\ Drawn(from, to) = IF lo < t THEN 2 * (EvensBelow(t) - EvensBelow(lo)) ELSE 0
  BY <1>4, <1>5
<1> QED
  BY <1>3, <1>5, <1>6, <1>7

LEMMA DrawnOfLine ==
  ASSUME view \in Views
  PROVE  /\ Drawn(0, 768) = view.width
         /\ Drawn(0, 0) = 0
         /\ \A to \in 0..768 : Drawn(0, to) \in 0..view.width
<1>1. Drawn(0, 768) = view.width /\ Drawn(0, 0) = 0
  BY ViewSizes DEF Drawn, Larger, Smaller
<1>2. ASSUME NEW to \in 0..768 PROVE Drawn(0, to) \in 0..view.width
  BY ViewSizes DEF Drawn, Larger, Smaller, EvensBelow
<1> QED
  BY <1>1, <1>2

LEMMA OneMore == ASSUME NEW m \in Int, NEW n \in Int PROVE (m + 1) * n = (m * n) + n
OBVIOUS

LEMMA FewerLines ==
  ASSUME NEW m \in Nat, NEW n \in Nat, NEW k \in 0..m PROVE k * n <= m * n
<1>1. PICK d \in Nat : m = k + d
  OBVIOUS
<1>2. m * n = (k * n) + (d * n)
  BY <1>1
<1>3. d * n \in Nat /\ k * n \in Nat
  BY <1>1
<1> QED
  BY <1>2, <1>3

(* The bitmap holds the lines drawn so far and the part of the beam's line *)
(* that lies in the view.  A view of Lines or more has no first line.      *)
FirstLine == Lines - view.height
DrawInv ==
  /\ view \in Views /\ visible \in BOOLEAN /\ update_screen \in BOOLEAN
  /\ brk => /\ ~visible
            /\ bmpofs = IF update_screen /\ view.height < Lines THEN view.width * view.height ELSE 0
  /\ ~brk /\ ~visible =>
       bmpofs = 0 /\ (update_screen /\ view.height < Lines => raster_line < FirstLine)
  /\ ~brk /\ visible =>
       /\ update_screen /\ view.height < Lines /\ raster_line >= FirstLine
       /\ bmpofs = ((raster_line - FirstLine) * view.width) + Drawn(0, raster_pixel)

LEMMA InitDraw == Init => DrawInv
<1> SUFFICES ASSUME Init PROVE DrawInv
  OBVIOUS
<1>1. view \in Views /\ update_screen \in BOOLEAN /\ visible = FALSE /\ brk = FALSE
      /\ bmpofs = 0 /\ raster_line = 0
  BY DEF Init
<1>2. view.height < Lines => 0 < FirstLine
  BY <1>1, ViewSizes, RasterAssumption DEF RasterAssumption, FirstLine
<1> QED
  BY <1>1, <1>2 DEF DrawInv

LEMMA StartDraw == DrawInv /\ StartFrame => DrawInv'
<1> SUFFICES ASSUME DrawInv, StartFrame PROVE DrawInv'
  OBVIOUS
<1>1. /\ view' = view /\ view \in Views /\ update_screen' \in BOOLEAN
      /\ visible' = FALSE /\ brk' = FALSE /\ bmpofs' = 0 /\ raster_line' = 0
  BY DEF StartFrame, DrawInv
<1>2. view'.height < Lines => 0 < FirstLine'
  BY <1>1, ViewSizes, RasterAssumption DEF RasterAssumption, FirstLine
<1> QED
  BY <1>1, <1>2 DEF DrawInv

LEMMA StepDraw ==
  ASSUME BeamInv, DrawInv, NEW kind, NEW timing \in Timings, Step(kind, timing)
  PROVE  DrawInv'
<1> DEFINE end == raster_pixel + (4 * Time(timing))
           W == view.width
<1>1. /\ brk = FALSE /\ fill1(end) /\ view' = view /\ update_screen' = update_screen
      /\ view \in Views /\ visible \in BOOLEAN /\ update_screen \in BOOLEAN
      /\ Line = 768 /\ Lines \in Nat \ {0} /\ raster_line \in 0..(Lines - 1)
  BY RasterAssumption DEF Step, Time, Begun, RasterAssumption, BeamInv, PlaceInv, DrawInv
<1>2. PICK p \in 0..47 : raster_pixel = 16 * p
  BY DEF BeamInv, PlaceInv
<1>3. PICK k \in 1..10 : Time(timing) = 4 * k
  BY StepTime
<1>4. end = 16 * (p + k)
  BY <1>2, <1>3
<1> HIDE DEF end
<1>5. /\ W \in Nat /\ view.height \in Nat
      /\ FirstLine \in Int /\ view.height = Lines - FirstLine
      /\ view.height < Lines => FirstLine >= 1
  BY <1>1, ViewSizes DEF FirstLine
<1>6. /\ FirstLine' = FirstLine /\ view'.width = W /\ view'.height = view.height
      /\ \A n : Drawn(0, n)' = Drawn(0, n)
  BY <1>1 DEF FirstLine, Drawn
<1>7. /\ \A n \in 0..768 : Drawn(0, n) \in Int
      /\ Drawn(0, 768) = W
  BY <1>1, DrawnOfLine
<1>8. /\ Drawn(0, raster_pixel) + Drawn(raster_pixel, Smaller(end, 768))
           = Drawn(0, Smaller(end, 768))
      /\ \A n \in 0..768 : Drawn(raster_pixel, n) \in Int
      /\ Drawn(0, raster_pixel) \in Int
  <2>1. raster_pixel \in 0..768 /\ Smaller(end, 768) \in raster_pixel..768
    BY <1>2, <1>4 DEF Smaller
  <2>2. ASSUME NEW n \in 0..768 PROVE Drawn(raster_pixel, n) \in Int
    BY <1>1, <2>1, ViewSizes DEF Drawn, EvensBelow, Smaller, Larger
  <2>3. Drawn(0, raster_pixel) \in Int
    BY <1>7, <2>1
  <2>4. raster_pixel \in 0..768
    BY <2>1
  <2>5. Drawn(0, raster_pixel) + Drawn(raster_pixel, Smaller(end, 768))
          = Drawn(0, Smaller(end, 768))
    <3>1. view \in Views
      BY <1>1
    <3>2. ASSUME NEW n \in raster_pixel..768
          PROVE  Drawn(0, raster_pixel) + Drawn(raster_pixel, n) = Drawn(0, n)
      BY <3>1, <2>4, DrawnAdds
    <3>3. PICK n \in raster_pixel..768 : n = Smaller(end, 768)
      BY <2>1
    <3> QED
      BY <3>2, <3>3
  <2> QED
    BY <2>2, <2>3, <2>5
<1>9. CASE end < 768
  <2>1. ~(end >= 768) /\ Smaller(end, 768) = end /\ end \in 0..768
    BY <1>4, <1>9 DEF Smaller
  <2>2. raster_line' = raster_line /\ raster_pixel' = end
    BY <1>1, <2>1 DEF fill1
  <2>3. brk' = FALSE
    <3>1. brk' = (raster_line = Lines)
      BY <1>1, <2>1 DEF fill1
    <3>2. (raster_line = Lines) = FALSE
      BY <1>1
    <3> QED
      BY <3>1, <3>2
  <2>4. visible' = visible
    BY <1>1, <2>1 DEF fill1
  <2>5. bmpofs' = bmpofs + (IF visible THEN Drawn(raster_pixel, end) ELSE 0) + 0
    BY <1>1, <2>1 DEF fill1
  <2>6. CASE visible
    <3>1. bmpofs = ((raster_line - FirstLine) * W) + Drawn(0, raster_pixel)
          /\ update_screen /\ view.height < Lines /\ raster_line >= FirstLine
      BY <1>1, <2>6 DEF DrawInv
    <3>2. Drawn(raster_pixel, end) \in Int
      BY <1>8, <2>1
    <3>3. (raster_line - FirstLine) * W \in Int
      BY <1>1, <1>5
    <3>4. bmpofs' = ((raster_line - FirstLine) * W) + Drawn(0, end)
      BY <1>7, <1>8, <2>1, <2>5, <2>6, <3>1, <3>2, <3>3
    <3>5. Drawn(0, raster_pixel)' = Drawn(0, end)
      BY <1>1, <2>2 DEF Drawn
    <3> QED
      BY <1>1, <1>6, <2>2, <2>3, <2>4, <2>6, <3>1, <3>4, <3>5 DEF DrawInv
  <2>7. CASE ~visible
    <3>1. bmpofs = 0 /\ (update_screen /\ view.height < Lines => raster_line < FirstLine)
      BY <1>1, <2>7 DEF DrawInv
    <3>2. bmpofs' = 0
      BY <2>5, <2>7, <3>1
    <3> QED
      BY <1>1, <1>6, <2>2, <2>3, <2>4, <2>7, <3>1, <3>2 DEF DrawInv
  <2> QED
    BY <2>6, <2>7
<1>10. ASSUME end >= 768 PROVE DrawInv'
  <2>1. Smaller(end, 768) = 768 /\ end - 768 \in 0..768 /\ 768 \in 0..768
    BY <1>2, <1>4, <1>10 DEF Smaller
  <2>2. bmpofs' = bmpofs + (IF visible THEN Drawn(raster_pixel, 768) ELSE 0)
                         + (IF visible' THEN Drawn(0, end - 768) ELSE 0)
    BY <1>1, <1>10, <2>1 DEF fill1
  <2>3. visible' = VisibleAfter(visible, raster_line + 1)
    BY <1>1, <1>10 DEF fill1
  <2>4. brk' = (raster_line + 1 = Lines)
    BY <1>1, <1>10 DEF fill1
  <2>5. raster_pixel' = end - 768
        /\ raster_line' = IF raster_line + 1 = Lines THEN 0 ELSE raster_line + 1
    BY <1>1, <1>10 DEF fill1
  <2>6. Drawn(raster_pixel, 768) \in Int /\ Drawn(0, end - 768) \in Int
        /\ Drawn(0, raster_pixel) + Drawn(raster_pixel, 768) = W
    BY <1>7, <1>8, <2>1
  <2>7. visible =>
          /\ bmpofs = ((raster_line - FirstLine) * W) + Drawn(0, raster_pixel)
          /\ update_screen /\ view.height < Lines /\ raster_line >= FirstLine
    BY <1>1 DEF DrawInv
  <2>8. ~visible => bmpofs = 0 /\ (update_screen /\ view.height < Lines => raster_line < FirstLine)
    BY <1>1 DEF DrawInv
  <2>9. visible => bmpofs + Drawn(raster_pixel, 768) = (raster_line + 1 - FirstLine) * W
    <3>1. (raster_line - FirstLine + 1) * W = ((raster_line - FirstLine) * W) + W
      BY <1>1, <1>5, OneMore
    <3>2. (raster_line - FirstLine) * W \in Int /\ raster_line + 1 - FirstLine
            = raster_line - FirstLine + 1
      BY <1>1, <1>5
    <3> QED
      BY <1>8, <2>6, <2>7, <3>1, <3>2
  <2>10. CASE raster_line + 1 = Lines
    <3>1. brk' = TRUE /\ visible' = FALSE
      BY <2>3, <2>4, <2>10 DEF VisibleAfter
    <3>2. visible => bmpofs' = W * view.height /\ update_screen /\ view.height < Lines
      <4>1. raster_line + 1 - FirstLine = view.height
        BY <1>1, <1>5, <2>10
      <4>2. view.height * W = W * view.height
        BY <1>5
      <4>3. W * view.height \in Int
        BY <1>5
      <4>4. visible => bmpofs \in Int
        BY <1>1, <1>5, <1>8, <2>7
      <4> QED
        BY <2>2, <2>6, <2>7, <2>9, <3>1, <4>1, <4>2, <4>3, <4>4
    <3>3. ~visible => bmpofs' = 0 /\ (update_screen /\ view.height < Lines => view.height = 0)
      BY <1>1, <1>5, <2>2, <2>8, <2>10, <3>1
    <3>5. view.height = 0 => W * view.height = 0
      BY <1>5
    <3>4. bmpofs' = IF update_screen /\ view.height < Lines THEN W * view.height ELSE 0
      BY <1>1, <3>2, <3>3, <3>5
    <3> QED
      BY <1>1, <1>6, <3>1, <3>4 DEF DrawInv
  <2>11. CASE raster_line + 1 # Lines
    <3>1. brk' = FALSE /\ raster_line' = raster_line + 1
      BY <2>4, <2>5, <2>11
    <3>2. visible' = (visible \/ (update_screen /\ raster_line + 1 = FirstLine))
      BY <2>3, <2>11 DEF VisibleAfter, FirstLine
    <3>3. visible' => bmpofs' = ((raster_line + 1 - FirstLine) * W) + Drawn(0, end - 768)
                      /\ update_screen /\ view.height < Lines /\ raster_line + 1 >= FirstLine
      <4>1. CASE visible
        <5>1. bmpofs \in Int /\ (raster_line + 1 - FirstLine) * W \in Int
          BY <1>1, <1>5, <1>8, <2>7, <4>1
        <5> QED
          BY <1>1, <1>5, <2>2, <2>6, <2>7, <2>9, <4>1, <5>1
      <4>2. CASE ~visible /\ update_screen /\ raster_line + 1 = FirstLine
        <5>1. (raster_line + 1 - FirstLine) * W = 0
          BY <1>1, <1>5, <4>2
        <5> QED
          BY <1>1, <1>5, <2>2, <2>6, <2>8, <3>2, <4>2, <5>1
      <4> QED
        BY <3>2, <4>1, <4>2
    <3>4. ~visible' => bmpofs' = 0 /\ (update_screen /\ view.height < Lines
                                        => raster_line + 1 < FirstLine)
      BY <1>1, <1>5, <2>2, <2>8, <3>2
    <3>5. Drawn(0, raster_pixel)' = Drawn(0, end - 768)
      BY <1>1, <2>5 DEF Drawn
    <3>6. visible' \in BOOLEAN
      BY <3>2
    <3>7. /\ view' \in Views /\ update_screen' \in BOOLEAN /\ FirstLine' = FirstLine
          /\ view'.width = W /\ update_screen' = update_screen /\ view'.height = view.height
      BY <1>1, <1>6
    <3>8. CASE visible'
      <4>1. update_screen' /\ view'.height < Lines /\ raster_line' >= FirstLine'
        BY <3>1, <3>3, <3>7, <3>8
      <4>2. bmpofs' = ((raster_line' - FirstLine') * view'.width) + Drawn(0, raster_pixel)'
        <5> HIDE DEF W
        <5>1. bmpofs' = ((raster_line + 1 - FirstLine) * W) + Drawn(0, end - 768)
          BY <3>3, <3>8, Zenon
        <5>2. raster_line' - FirstLine' = raster_line + 1 - FirstLine /\ view'.width = W
          BY <1>1, <1>5, <3>1, <3>7
        <5>3. bmpofs' = ((raster_line' - FirstLine') * view'.width) + Drawn(0, end - 768)
          BY <5>1, <5>2
        <5> QED
          BY <5>3, <3>5
      <4>3. visible' = TRUE /\ brk' = FALSE
        BY <3>1, <3>6, <3>8
      <4> QED
        BY <3>7, <4>1, <4>2, <4>3 DEF DrawInv
    <3>9. CASE ~visible'
      BY <3>1, <3>4, <3>6, <3>7, <3>9 DEF DrawInv
    <3> QED
      BY <3>8, <3>9
  <2> QED
    BY <2>10, <2>11
<1> QED
  BY <1>4, <1>9, <1>10

LEMMA NextDraw == BeamInv /\ DrawInv /\ [Next]_vars => DrawInv'
<1> SUFFICES ASSUME BeamInv, DrawInv, [Next]_vars PROVE DrawInv'
  OBVIOUS
<1>1. CASE StartFrame
  BY <1>1, StartDraw
<1>2. ASSUME NEW timing \in Timings, Step("plain", timing) PROVE DrawInv'
  BY <1>2, StepDraw
<1>3. <<4, 4>> \in Timings
  BY DEF Timings
<1>4. CASE Step("EI", <<4, 4>>)
  BY <1>3, <1>4, StepDraw
<1>5. CASE Step("DI", <<4, 4>>)
  BY <1>3, <1>5, StepDraw
<1>6. CASE UNCHANGED vars
  BY <1>6 DEF vars, filler, DrawInv, FirstLine, Drawn
<1> QED
  BY <1>1, <1>2, <1>4, <1>5, <1>6 DEF Next

(* The writes of fill1() stay in the bitmap for every border and height,   *)
(* and fill it for every height below Lines; from Lines on there are none. *)
THEOREM BitmapFilledHolds == Spec => []BitmapFilled
<1>1. BeamInv /\ DrawInv => BitmapFilled
  <2> SUFFICES ASSUME BeamInv, DrawInv PROVE BitmapFilled
    OBVIOUS
  <2>1. /\ view \in Views /\ visible \in BOOLEAN /\ update_screen \in BOOLEAN
        /\ brk \in BOOLEAN /\ Lines \in Nat \ {0} /\ raster_line \in 0..(Lines - 1)
    BY RasterAssumption DEF RasterAssumption, BeamInv, PlaceInv, DrawInv
  <2>2. /\ view.width \in Nat /\ view.height \in Nat
        /\ FirstLine = Lines - view.height
    BY <2>1, ViewSizes DEF FirstLine
  <2>3. view.width * view.height \in Nat
    BY <2>2
  <2>4. CASE brk
    BY <2>1, <2>3, <2>4 DEF DrawInv, BitmapFilled
  <2>5. CASE ~brk /\ ~visible
    BY <2>1, <2>3, <2>5 DEF DrawInv, BitmapFilled
  <2>6. CASE ~brk /\ visible
    <3>1. PICK p \in 0..47 : raster_pixel = 16 * p
      BY DEF BeamInv, PlaceInv
    <3>2. Drawn(0, raster_pixel) \in 0..view.width
      BY <2>1, <3>1, DrawnOfLine
    <3>3. bmpofs = ((raster_line - FirstLine) * view.width) + Drawn(0, raster_pixel)
          /\ raster_line >= FirstLine
      BY <2>6 DEF DrawInv
    <3>4. (raster_line - FirstLine + 1) * view.width
            = ((raster_line - FirstLine) * view.width) + view.width
      BY <2>1, <2>2, OneMore
    <3>5. (raster_line - FirstLine + 1) * view.width <= view.height * view.width
      <4>1. raster_line - FirstLine + 1 \in 0..view.height
        BY <2>1, <2>2, <3>3
      <4> QED
        BY <2>2, <4>1, FewerLines
    <3>6. view.height * view.width = view.width * view.height
      BY <2>2
    <3>7. (raster_line - FirstLine) * view.width \in Int
      BY <2>1, <2>2
    <3>8. bmpofs <= view.width * view.height
      BY <2>2, <2>3, <3>2, <3>3, <3>4, <3>5, <3>6, <3>7
    <3> QED
      BY <2>6, <3>8 DEF BitmapFilled
  <2> QED
    BY <2>4, <2>5, <2>6
<1> QED
  BY <1>1, InitDraw, NextDraw, BeamTracksTheClock, PTL DEF Spec

-----------------------------------------------------------------------------
(* The sound.  What the threads do in the order of the code.               *)

Resetting(t) == resetting[t] \in {"wrptr", "rdbuf", "wrbuf"}

(* Nothing has happened yet that InOrder makes an exception of.            *)
Quiet == ~raced /\ peak < NBUFFERS

Half == IF enginePc = "sample" THEN 1 ELSE 0

(* The engine writes samples in frames only, and waits for its own pause().*)
EngineInv ==
  /\ lock = "sample" <=> enginePc = "sample"
  /\ enginePc \notin {"frame", "sample"} => todo = 0
  /\ enginePc = "sample" => todo > 0
  /\ todo <= sound_frame_size + drift
  /\ enginePc # "sample" => wrptr < Floats
  /\ Resetting("engine") => enginePc = "unmute"
  /\ resetting["engine"] = "done" <=> ~firstEvent
  /\ enginePc = "unmute" => firstEvent

(* A callback runs between the engine's pause() and that of the end only,  *)
(* unless it raced one of them; it has been given room for its frame.      *)
CallbackInv ==
  /\ running => resetting["engine"] # "no"
  /\ lock \in {"starve", "full"} /\ ~vsync => pending < MaxPending
  /\ ~raced /\ lock \in {"starve", "full"} =>
       running /\ resetting["engine"] = "done" /\ ~Resetting("ui")
  /\ ~raced /\ resetting["engine"] = "done" /\ Resetting("ui") => ~running
  /\ ~raced /\ ~Resetting("ui") =>
       /\ resetting["engine"] \in {"rdbuf", "wrbuf"} => wrptr = 0
       /\ resetting["engine"] = "wrbuf" => rdbuf = 0

(* What is unheard, and what the frame begun will add to it, comes from    *)
(* frames that the credit counts.                                          *)
Allowed == (credit - pending) * Floats

CreditInv ==
  /\ credit <= peak
  /\ Quiet => unheard - Half + (2 * todo) <= Allowed + (2 * drift)

(* The ring between its indices is what is unheard.  A full ring looks     *)
(* empty, but the reader does not lose its place by that.                  *)
Listening == Quiet /\ running /\ resetting["engine"] = "done" /\ ~Resetting("ui")

Between(full) ==
  /\ wrbuf \in {rdbuf + full, rdbuf + full - NBUFFERS}
  /\ unheard = (full * Floats) + wrptr
  /\ full = NBUFFERS => wrptr = 0

BetweenInv ==
  Listening =>
    /\ wrptr % 2 = Half
    /\ \E full \in 0..NBUFFERS : Between(full)
    /\ unheard > 0 => first = <<rdbuf, 0>>
    /\ lock = "starve" => wrbuf = rdbuf
    /\ lock = "full" => wrbuf # rdbuf

SoundInv == RingTypeOK /\ EngineInv /\ CallbackInv /\ CreditInv /\ BetweenInv /\ InOrder

LEMMA RingSizes ==
  /\ sound_frame_size \in Nat /\ sound_frame_size >= 1
  /\ NBUFFERS \in Nat /\ NBUFFERS >= 2
  /\ Jitter \in Nat /\ Jitter <= sound_frame_size
  /\ MaxPending \in Nat /\ MaxPending >= 1
  /\ Floats = 2 * sound_frame_size /\ Floats \in Nat /\ Floats >= 2
  /\ Capacity = NBUFFERS * Floats /\ Capacity \in Nat /\ Capacity >= 2
<1>1. /\ sound_frame_size \in Nat /\ sound_frame_size >= 1
      /\ NBUFFERS \in Nat /\ NBUFFERS >= 2
      /\ Jitter \in Nat /\ Jitter <= sound_frame_size
      /\ MaxPending \in Nat /\ MaxPending >= 1
  BY RingAssumption DEF RingAssumption
<1>2. Floats = 2 * sound_frame_size /\ Floats \in Nat /\ Floats >= 2
  BY <1>1 DEF Floats
<1>3. /\ \A m, n \in Nat : m * n \in Nat
      /\ \A m, n \in Nat : m >= 2 /\ n >= 2 => m * n >= 2
  OBVIOUS
<1>4. Capacity = NBUFFERS * Floats /\ Capacity \in Nat /\ Capacity >= 2
  BY <1>1, <1>2, <1>3 DEF Capacity
<1> QED
  BY <1>1, <1>2, <1>4

LEMMA InitSound == RingInit => SoundInv
<1> SUFFICES ASSUME RingInit PROVE SoundInv
  OBVIOUS
<1>1. RingTypeOK
  <2>1. 0 \in Buffers /\ first \in Buffers \X (0..Floats)
    BY RingSizes DEF RingInit, Buffers
  <2>2. wrptr \in 0..Floats /\ todo \in 0..(Jitter + sound_frame_size) /\ unheard \in 0..Capacity
    BY RingSizes DEF RingInit
  <2>3. credit \in 0..NBUFFERS /\ peak \in 0..NBUFFERS /\ pending \in 0..MaxPending /\ drift \in 0..Jitter
    BY RingSizes DEF RingInit
  <2> QED
    BY <2>1, <2>2, <2>3, RingAssumption DEF RingAssumption, RingInit, RingTypeOK
<1>2. EngineInv /\ CallbackInv /\ BetweenInv /\ InOrder
  BY RingSizes DEF RingInit, EngineInv, CallbackInv, BetweenInv, Listening, InOrder, Resetting, Threads
<1>3. CreditInv
  BY RingSizes DEF RingInit, CreditInv, Half, Allowed
<1> QED
  BY <1>1, <1>2, <1>3 DEF SoundInv

(* What the steps that several actions share do.                           *)
LEMMA CountsCredit ==
  ASSUME RingTypeOK, NEW c \in Int, Count(c)
  PROVE  /\ credit' \in 0..NBUFFERS /\ peak' \in 0..NBUFFERS
         /\ credit' <= peak' /\ peak <= peak'
         /\ credit' = IF c \in 0..NBUFFERS THEN c ELSE credit
BY RingSizes DEF RingTypeOK, Count

LEMMA WritesFloat ==
  ASSUME RingTypeOK, Written
  PROVE  /\ unheard' \in 0..Capacity /\ lost' \in BOOLEAN /\ first' \in Buffers \X (0..Floats)
         /\ unheard < Capacity => unheard' = unheard + 1 /\ lost' = lost
         /\ first' = IF unheard = 0 THEN <<wrbuf, wrptr>> ELSE first
<1>1. unheard' \in 0..Capacity /\ lost' \in BOOLEAN
      /\ (unheard < Capacity => unheard' = unheard + 1 /\ lost' = lost)
  BY RingSizes DEF RingTypeOK, Written
<1>2. <<wrbuf, wrptr>> \in Buffers \X (0..Floats) /\ first \in Buffers \X (0..Floats)
  BY DEF RingTypeOK
<1> QED
  BY <1>1, <1>2 DEF Written

LEMMA NextBufferIs ==
  ASSUME NEW b \in Buffers
  PROVE  /\ NextBuffer(b) \in Buffers
         /\ NextBuffer(b) = IF b + 1 = NBUFFERS THEN 0 ELSE b + 1
         /\ b \in 0..(NBUFFERS - 1)
BY RingSizes DEF Buffers, NextBuffer

LEMMA PlaysFloats ==
  ASSUME RingTypeOK, NEW n \in 0..Floats, Play(n)
  PROVE  /\ unheard' \in 0..Capacity /\ lost' \in BOOLEAN /\ first' \in Buffers \X (0..Floats)
         /\ n <= unheard => unheard' = unheard - n
         /\ Continues(n) => lost' = lost
         /\ first' = IF n = Floats THEN <<NextBuffer(rdbuf), 0>> ELSE <<rdbuf, n>>
<1>1. unheard' \in 0..Capacity /\ lost' \in BOOLEAN /\ (n <= unheard => unheard' = unheard - n)
      /\ (Continues(n) => lost' = lost)
  BY RingSizes DEF RingTypeOK, Play, Continues
<1>2. NextBuffer(rdbuf) \in Buffers /\ rdbuf \in Buffers /\ 0 \in 0..Floats
  BY NextBufferIs, RingSizes DEF RingTypeOK
<1>3. first' = IF n = Floats THEN <<NextBuffer(rdbuf), 0>> ELSE <<rdbuf, n>>
  BY DEF Play
<1>4. first' \in Buffers \X (0..Floats)
  BY <1>2, <1>3
<1> QED
  BY <1>1, <1>3, <1>4

LEMMA PauseTypes ==
  ASSUME RingTypeOK, NEW t \in Threads, NEW s \in {"wrptr", "rdbuf", "wrbuf", "done"},
         resetting' = [resetting EXCEPT ![t] = s]
  PROVE  /\ resetting' \in [Threads -> {"no", "wrptr", "rdbuf", "wrbuf", "done"}]
         /\ resetting'[t] = s
         /\ \A u \in Threads \ {t} : resetting'[u] = resetting[u]
BY DEF RingTypeOK

-----------------------------------------------------------------------------
(* The indices stay inside the buffers.                                    *)

LEMMA RingTypeStep == SoundInv /\ [RingNext]_soundVars => RingTypeOK'
<1> SUFFICES ASSUME SoundInv, [RingNext]_soundVars PROVE RingTypeOK'
  OBVIOUS
<1>0. RingTypeOK /\ EngineInv /\ CallbackInv
  BY DEF SoundInv
<1> USE <1>0
<1>1. CASE BeginFrame
  <2>1. PICK d \in 0..Jitter : drift' = d /\ todo' = sound_frame_size + d - drift
    BY <1>1 DEF BeginFrame
  <2>2. todo' \in 0..(Jitter + sound_frame_size) /\ pending' \in 0..MaxPending
    BY <1>1, <2>1, RingSizes DEF BeginFrame, RingTypeOK
  <2> QED
    BY <1>1, <2>1, <2>2 DEF BeginFrame, RingTypeOK, ringVars, history
<1>2. CASE FrozenFrame
  <2>1. credit - 1 \in Int /\ Count(credit - 1)
    BY <1>2 DEF FrozenFrame, RingTypeOK
  <2>2. credit' \in 0..NBUFFERS /\ peak' \in 0..NBUFFERS
    BY <2>1, CountsCredit
  <2>3. pending' \in 0..MaxPending
    BY <1>2, RingSizes DEF FrozenFrame, RingTypeOK
  <2> QED
    BY <1>2, <2>2, <2>3 DEF FrozenFrame, RingTypeOK, ringVars
<1>3. CASE BeginSample
  <2>1. unheard' \in 0..Capacity /\ lost' \in BOOLEAN /\ first' \in Buffers \X (0..Floats)
    BY <1>3, WritesFloat DEF BeginSample
  <2>2. wrptr' \in 0..Floats
    BY <1>3, RingSizes DEF BeginSample, RingTypeOK, EngineInv
  <2> QED
    BY <1>3, <2>1, <2>2 DEF BeginSample, RingTypeOK
<1>4. CASE EndSample
  <2>1. unheard' \in 0..Capacity /\ lost' \in BOOLEAN /\ first' \in Buffers \X (0..Floats)
    BY <1>4, WritesFloat DEF EndSample
  <2>2. wrptr' \in 0..Floats /\ wrbuf' \in Buffers /\ todo' \in 0..(Jitter + sound_frame_size)
    BY <1>4, RingSizes, NextBufferIs DEF EndSample, RingTypeOK, EngineInv
  <2> QED
    BY <1>4, <2>1, <2>2 DEF EndSample, RingTypeOK
<1>5. CASE EndFrame
  BY <1>5 DEF EndFrame, RingTypeOK, ringVars, history
<1>6. ASSUME NEW t \in Threads, NEW b \in BOOLEAN, Pause(t, b) PROVE RingTypeOK'
  BY <1>6, PauseTypes DEF Pause, RingTypeOK, ringVars, engineVars, history
<1>7. ASSUME NEW t \in Threads, ResetWrptr(t) PROVE RingTypeOK'
  <2>1. 0 \in 0..Floats /\ raced' \in BOOLEAN
    BY <1>7, RingSizes DEF ResetWrptr, Overlapped, RingTypeOK
  <2> QED
    BY <1>7, <2>1, PauseTypes DEF ResetWrptr, RingTypeOK, engineVars
<1>8. ASSUME NEW t \in Threads, ResetRdbuf(t) PROVE RingTypeOK'
  <2>1. 0 \in Buffers /\ raced' \in BOOLEAN
    BY <1>8, RingSizes DEF ResetRdbuf, Overlapped, RingTypeOK, Buffers
  <2> QED
    BY <1>8, <2>1, PauseTypes DEF ResetRdbuf, RingTypeOK, engineVars
<1>9. ASSUME NEW t \in Threads, ResetWrbuf(t) PROVE RingTypeOK'
  <2>1. 0 \in Buffers /\ 0 \in 0..Capacity /\ raced' \in BOOLEAN
    BY <1>9, RingSizes DEF ResetWrbuf, Overlapped, RingTypeOK, Buffers
  <2>2. PICK c \in Int : Count(c)
    BY <1>9 DEF ResetWrbuf, RingTypeOK
  <2>3. credit' \in 0..NBUFFERS /\ peak' \in 0..NBUFFERS
    BY <2>2, CountsCredit
  <2> QED
    BY <1>9, <2>1, <2>3, PauseTypes DEF ResetWrbuf, RingTypeOK
<1>10. CASE BeginCallback
  BY <1>10 DEF BeginCallback, RingTypeOK, ringVars, engineVars
<1>11. CASE EndStarved
  <2>1. /\ unheard' \in 0..Capacity /\ lost' \in BOOLEAN /\ first' \in Buffers \X (0..Floats)
    BY <1>11, PlaysFloats DEF EndStarved, RingTypeOK
  <2>2. PICK c \in Int : Count(c)
    BY <1>11 DEF EndStarved, RingTypeOK
  <2>3. credit' \in 0..NBUFFERS /\ peak' \in 0..NBUFFERS
    BY <2>2, CountsCredit
  <2>4. wrptr' \in 0..Floats /\ pending' \in 0..MaxPending
    BY <1>11, RingSizes DEF EndStarved, AfterStarve, AskForFrame, RingTypeOK, CallbackInv
  <2> QED
    BY <1>11, <2>1, <2>3, <2>4 DEF EndStarved, RingTypeOK
<1>12. CASE EndFull
  <2>1. 2 * sound_frame_size = Floats /\ Floats \in 0..Floats
    BY RingSizes
  <2>2. /\ unheard' \in 0..Capacity /\ lost' \in BOOLEAN /\ first' \in Buffers \X (0..Floats)
    BY <1>12, <2>1, PlaysFloats DEF EndFull
  <2>3. PICK c \in Int : Count(c)
    BY <1>12 DEF EndFull, RingTypeOK
  <2>4. credit' \in 0..NBUFFERS /\ peak' \in 0..NBUFFERS
    BY <2>3, CountsCredit
  <2>5. rdbuf' \in Buffers /\ pending' \in 0..MaxPending
    BY <1>12, RingSizes, NextBufferIs DEF EndFull, AskForFrame, RingTypeOK, CallbackInv
  <2> QED
    BY <1>12, <2>2, <2>4, <2>5 DEF EndFull, RingTypeOK
<1>13. CASE Vblank
  <2>1. credit + 1 \in Int /\ Count(credit + 1)
    BY <1>13 DEF Vblank, RingTypeOK
  <2>2. credit' \in 0..NBUFFERS /\ peak' \in 0..NBUFFERS
    BY <2>1, CountsCredit
  <2>3. pending' \in 0..MaxPending
    BY <1>13, RingSizes DEF Vblank, RingTypeOK
  <2> QED
    BY <1>13, <2>2, <2>3 DEF Vblank, RingTypeOK, ringVars
<1>14. CASE UNCHANGED soundVars
  BY <1>14 DEF soundVars, ringVars, engineVars, history, RingTypeOK
<1> QED
  BY <1>1, <1>2, <1>3, <1>4, <1>5, <1>6, <1>7, <1>8, <1>9, <1>10, <1>11, <1>12, <1>13, <1>14
  DEF RingNext, Unmute, Teardown, Threads

-----------------------------------------------------------------------------
(* The engine's own order.                                                 *)

LEMMA EngineStep == SoundInv /\ [RingNext]_soundVars => EngineInv'
<1> SUFFICES ASSUME SoundInv, [RingNext]_soundVars PROVE EngineInv'
  OBVIOUS
<1>0. RingTypeOK /\ EngineInv
  BY DEF SoundInv
<1> USE <1>0
<1>a. "engine" \in Threads /\ "ui" \in Threads /\ "engine" # "ui"
  BY DEF Threads
<1>1. CASE BeginFrame
  <2>1. PICK d \in 0..Jitter : drift' = d /\ todo' = sound_frame_size + d - drift
    BY <1>1 DEF BeginFrame
  <2>2. todo' <= sound_frame_size + drift'
    BY <2>1, RingSizes DEF RingTypeOK
  <2> QED
    BY <1>1, <2>2 DEF BeginFrame, EngineInv, Resetting, ringVars, history
<1>2. CASE FrozenFrame
  BY <1>2 DEF FrozenFrame, EngineInv, Resetting, ringVars
<1>3. CASE BeginSample
  BY <1>3 DEF BeginSample, EngineInv, Resetting
<1>4. CASE EndSample
  <2>1. wrptr' < Floats /\ todo' <= sound_frame_size + drift'
    BY <1>4, RingSizes DEF EndSample, EngineInv, RingTypeOK
  <2> QED
    BY <1>4, <2>1 DEF EndSample, EngineInv, Resetting
<1>5. CASE EndFrame
  BY <1>5 DEF EndFrame, EngineInv, Resetting, ringVars, history
<1>6. CASE Unmute
  <2>1. resetting'["engine"] = "wrptr" /\ resetting["engine"] = "no"
    BY <1>6, <1>a, PauseTypes DEF Unmute, Pause
  <2> QED
    BY <1>6, <2>1 DEF Unmute, Pause, EngineInv, Resetting, ringVars, engineVars, history
<1>7. CASE Teardown
  <2>1. resetting'["engine"] = resetting["engine"]
    BY <1>7, <1>a, PauseTypes DEF Teardown, Pause
  <2> QED
    BY <1>7, <2>1 DEF Teardown, Pause, EngineInv, Resetting, ringVars, engineVars, history
<1>8. ASSUME NEW t \in Threads, ResetWrptr(t) PROVE EngineInv'
  <2>1. resetting'["engine"] = IF t = "engine" THEN "rdbuf" ELSE resetting["engine"]
    BY <1>8, <1>a, PauseTypes DEF ResetWrptr
  <2>2. wrptr' < Floats
    BY <1>8, RingSizes DEF ResetWrptr
  <2> QED
    BY <1>8, <2>1, <2>2 DEF ResetWrptr, EngineInv, Resetting, engineVars
<1>9. ASSUME NEW t \in Threads, ResetRdbuf(t) PROVE EngineInv'
  <2>1. resetting'["engine"] = IF t = "engine" THEN "wrbuf" ELSE resetting["engine"]
    BY <1>9, <1>a, PauseTypes DEF ResetRdbuf
  <2> QED
    BY <1>9, <2>1 DEF ResetRdbuf, EngineInv, Resetting, engineVars
<1>10. ASSUME NEW t \in Threads, ResetWrbuf(t) PROVE EngineInv'
  <2>1. resetting'["engine"] = IF t = "engine" THEN "done" ELSE resetting["engine"]
    BY <1>10, <1>a, PauseTypes DEF ResetWrbuf
  <2> QED
    BY <1>10, <2>1 DEF ResetWrbuf, EngineInv, Resetting
<1>11. CASE BeginCallback
  BY <1>11 DEF BeginCallback, EngineInv, Resetting, ringVars, engineVars
<1>12. CASE EndStarved
  <2>1. wrptr' < Floats
    BY <1>12, RingSizes DEF EndStarved, AfterStarve
  <2> QED
    BY <1>12, <2>1 DEF EndStarved, EngineInv, Resetting
<1>13. CASE EndFull
  BY <1>13 DEF EndFull, EngineInv, Resetting
<1>14. CASE Vblank
  BY <1>14 DEF Vblank, EngineInv, Resetting, ringVars
<1>15. CASE UNCHANGED soundVars
  BY <1>15 DEF soundVars, ringVars, engineVars, history, EngineInv, Resetting
<1> QED
  BY <1>1, <1>2, <1>3, <1>4, <1>5, <1>6, <1>7, <1>8, <1>9, <1>10, <1>11, <1>12, <1>13, <1>14, <1>15
  DEF RingNext

(* A callback between the pauses.                                          *)
LEMMA CallbackStep == SoundInv /\ [RingNext]_soundVars => CallbackInv'
<1> SUFFICES ASSUME SoundInv, [RingNext]_soundVars PROVE CallbackInv'
  OBVIOUS
<1>0. RingTypeOK /\ EngineInv /\ CallbackInv
  BY DEF SoundInv
<1> USE <1>0
<1>a. "engine" \in Threads /\ "ui" \in Threads /\ "engine" # "ui"
  BY DEF Threads
<1>1. CASE BeginFrame
  <2>1. pending' < pending
    BY <1>1 DEF BeginFrame, RingTypeOK
  <2>2. lock \in {"starve", "full"} /\ ~vsync => pending' < MaxPending
    BY <1>1, <2>1, RingSizes DEF BeginFrame, CallbackInv, RingTypeOK
  <2> QED
    BY <1>1, <2>2 DEF BeginFrame, CallbackInv, Resetting, ringVars, history
<1>2. CASE FrozenFrame
  <2>1. pending' < pending
    BY <1>2 DEF FrozenFrame, RingTypeOK
  <2>2. lock \in {"starve", "full"} /\ ~vsync => pending' < MaxPending
    BY <1>2, <2>1, RingSizes DEF FrozenFrame, CallbackInv, RingTypeOK
  <2> QED
    BY <1>2, <2>2 DEF FrozenFrame, CallbackInv, Resetting, ringVars
<1>3. CASE BeginSample
  <2>1. ~Resetting("engine")
    BY <1>3 DEF BeginSample, EngineInv
  <2> QED
    BY <1>3, <2>1 DEF BeginSample, CallbackInv, Resetting
<1>4. CASE EndSample
  <2>1. ~Resetting("engine")
    BY <1>4 DEF EndSample, EngineInv
  <2> QED
    BY <1>4, <2>1 DEF EndSample, CallbackInv, Resetting
<1>5. CASE EndFrame
  BY <1>5 DEF EndFrame, CallbackInv, Resetting, ringVars, history
<1>6. CASE Unmute
  <2>1. resetting'["engine"] = "wrptr" /\ resetting'["ui"] = resetting["ui"]
    BY <1>6, <1>a, PauseTypes DEF Unmute, Pause
  <2> QED
    BY <1>6, <2>1 DEF Unmute, Pause, CallbackInv, Resetting, ringVars, engineVars, history
<1>7. CASE Teardown
  <2>1. resetting'["engine"] = resetting["engine"] /\ resetting'["ui"] = "wrptr"
    BY <1>7, <1>a, PauseTypes DEF Teardown, Pause
  <2> QED
    BY <1>7, <2>1 DEF Teardown, Pause, CallbackInv, Resetting, ringVars, engineVars, history
<1>8. ASSUME NEW t \in Threads, ResetWrptr(t) PROVE CallbackInv'
  <2>1. /\ resetting'[t] = "rdbuf"
        /\ \A u \in Threads \ {t} : resetting'[u] = resetting[u]
    BY <1>8, PauseTypes DEF ResetWrptr
  <2>2. ~raced' => ~raced /\ lock = "free" /\ \A u \in Threads \ {t} : ~Resetting(u)
    BY <1>8 DEF ResetWrptr, Overlapped, Resetting
  <2> QED
    BY <1>8, <1>a, <2>1, <2>2 DEF ResetWrptr, CallbackInv, Resetting, Threads, engineVars
<1>9. ASSUME NEW t \in Threads, ResetRdbuf(t) PROVE CallbackInv'
  <2>1. /\ resetting'[t] = "wrbuf"
        /\ \A u \in Threads \ {t} : resetting'[u] = resetting[u]
    BY <1>9, PauseTypes DEF ResetRdbuf
  <2>2. ~raced' => ~raced /\ lock = "free" /\ \A u \in Threads \ {t} : ~Resetting(u)
    BY <1>9 DEF ResetRdbuf, Overlapped, Resetting
  <2> QED
    BY <1>9, <1>a, <2>1, <2>2 DEF ResetRdbuf, CallbackInv, Resetting, Threads, engineVars
<1>10. ASSUME NEW t \in Threads, ResetWrbuf(t) PROVE CallbackInv'
  <2>1. /\ resetting'[t] = "done"
        /\ \A u \in Threads \ {t} : resetting'[u] = resetting[u]
    BY <1>10, PauseTypes DEF ResetWrbuf
  <2>2. ~raced' => ~raced /\ lock = "free" /\ \A u \in Threads \ {t} : ~Resetting(u)
    BY <1>10 DEF ResetWrbuf, Overlapped, Resetting
  <2> QED
    BY <1>10, <1>a, <2>1, <2>2 DEF ResetWrbuf, CallbackInv, Resetting, Threads
<1>11. CASE BeginCallback
  <2>1. ~raced' => ~raced /\ ~Resetting("engine") /\ ~Resetting("ui")
    BY <1>11, <1>a DEF BeginCallback, Resetting
  <2>2. resetting["engine"] \in {"no", "wrptr", "rdbuf", "wrbuf", "done"} /\ resetting["engine"] # "no"
    BY <1>11, <1>a DEF BeginCallback, CallbackInv, RingTypeOK
  <2> QED
    BY <1>11, <2>1, <2>2 DEF BeginCallback, CallbackInv, Resetting, ringVars, engineVars
<1>12. CASE EndStarved
  BY <1>12 DEF EndStarved, AfterStarve, CallbackInv, Resetting
<1>13. CASE EndFull
  <2>1. ~raced => ~Resetting("engine")
    BY <1>13 DEF EndFull, CallbackInv, Resetting
  <2> QED
    BY <1>13, <2>1 DEF EndFull, CallbackInv, Resetting
<1>14. CASE Vblank
  BY <1>14 DEF Vblank, CallbackInv, Resetting, ringVars
<1>15. CASE UNCHANGED soundVars
  BY <1>15 DEF soundVars, ringVars, engineVars, history, CallbackInv, Resetting
<1> QED
  BY <1>1, <1>2, <1>3, <1>4, <1>5, <1>6, <1>7, <1>8, <1>9, <1>10, <1>11, <1>12, <1>13, <1>14, <1>15
  DEF RingNext

-----------------------------------------------------------------------------
(* What is unheard is covered by the credit.                               *)

LEMMA AllowedIs ==
  ASSUME RingTypeOK
  PROVE  /\ Allowed \in Int /\ Half \in 0..1
         /\ (credit + 1 - pending) * Floats = Allowed + Floats
         /\ (credit - (pending - 1)) * Floats = Allowed + Floats
         /\ (credit - 1 - pending) * Floats = Allowed - Floats
         /\ (credit - (pending + 1)) * Floats = Allowed - Floats
<1>1. credit \in Int /\ pending \in Int /\ Floats \in Int
  BY RingSizes DEF RingTypeOK
<1>2. PICK n \in Int : n = credit - pending
  BY <1>1
<1>3. (n + 1) * Floats = (n * Floats) + Floats /\ ((n - 1) + 1) * Floats = ((n - 1) * Floats) + Floats
  BY <1>1, <1>2, OneMore
<1>4. Allowed = n * Floats /\ Allowed \in Int /\ (n - 1) * Floats \in Int /\ (n - 1) + 1 = n
  BY <1>1, <1>2 DEF Allowed
<1>5. (n - 1) * Floats = Allowed - Floats
  BY <1>1, <1>3, <1>4
<1>6. /\ credit + 1 - pending = n + 1 /\ credit - (pending - 1) = n + 1
      /\ credit - 1 - pending = n - 1 /\ credit - (pending + 1) = n - 1
  BY <1>1, <1>2
<1> QED
  BY <1>3, <1>4, <1>5, <1>6 DEF Half

(* A callback that found a buffer to play has all of it.                   *)
LEMMA FullBuffer ==
  ASSUME SoundInv, Quiet, lock = "full"
  PROVE  /\ Listening /\ unheard >= Floats
         /\ \E full \in 1..(NBUFFERS - 1) : Between(full)
<1>1. RingTypeOK /\ BetweenInv /\ Listening
  BY DEF SoundInv, CallbackInv, Quiet, Listening
<1>2. PICK full \in 0..NBUFFERS : Between(full)
  BY <1>1 DEF BetweenInv
<1>3. wrbuf # rdbuf
  BY <1>1 DEF BetweenInv
<1>4. full \in 1..(NBUFFERS - 1)
  BY <1>1, <1>2, <1>3, RingSizes DEF Between, RingTypeOK, Buffers
<1>5. PICK m \in Nat : full = m + 1
  BY <1>4
<1>6. full * Floats = (m * Floats) + Floats /\ m * Floats \in Nat
  BY <1>5, RingSizes, OneMore
<1>7. unheard >= Floats
  BY <1>1, <1>2, <1>6, RingSizes DEF Between, RingTypeOK
<1> QED
  BY <1>1, <1>2, <1>4, <1>7

LEMMA StillCovered ==
  ASSUME NEW u \in Nat, NEW v \in Nat, v <= u, NEW half \in 0..1,
         NEW t \in Nat, NEW room \in Int, NEW d \in Nat,
         u - half + (2 * t) <= room + (2 * d)
  PROVE  v - half + (2 * t) <= room + (2 * d)
OBVIOUS

LEMMA CreditStep == SoundInv /\ [RingNext]_soundVars => CreditInv'
<1> SUFFICES ASSUME SoundInv, [RingNext]_soundVars PROVE CreditInv'
  OBVIOUS
<1>0. RingTypeOK /\ EngineInv /\ CreditInv
  BY DEF SoundInv
<1> USE <1>0
<1>a. /\ Allowed \in Int /\ Half \in 0..1 /\ todo \in Nat /\ drift \in Nat
      /\ unheard \in Nat /\ credit \in 0..NBUFFERS /\ peak \in 0..NBUFFERS /\ pending \in Nat
      /\ NBUFFERS \in Nat /\ Floats \in Nat /\ Floats = 2 * sound_frame_size /\ sound_frame_size \in Nat
  BY AllowedIs, RingSizes DEF RingTypeOK
<1>d. Floats' = Floats
  BY DEF Floats
<1>b. credit <= peak
  BY DEF CreditInv
<1>c. Quiet => unheard - Half + (2 * todo) <= Allowed + (2 * drift)
  BY DEF CreditInv
<1>1. CASE BeginFrame
  <2>1. PICK d \in 0..Jitter : drift' = d /\ todo' = sound_frame_size + d - drift
    BY <1>1 DEF BeginFrame
  <2>2. Allowed' = Allowed + Floats
    <3>1. credit' = credit /\ pending' = pending - 1
      BY <1>1 DEF BeginFrame, history
    <3> QED
      BY <3>1, AllowedIs DEF Allowed, Floats
  <2>3. Half = 0 /\ Half' = 0 /\ todo = 0 /\ unheard' = unheard /\ (Quiet' => Quiet) /\ credit' <= peak'
    BY <1>1, <1>b DEF BeginFrame, Half, EngineInv, history, Quiet
  <2> QED
    BY <1>a, <1>c, <2>1, <2>2, <2>3, RingSizes DEF CreditInv
<1>2. CASE FrozenFrame
  <2>1. credit - 1 \in Int /\ Count(credit - 1)
    BY <1>2, <1>a DEF FrozenFrame
  <2>2. credit' <= peak' /\ peak <= peak' /\ peak' \in 0..NBUFFERS
        /\ credit' = IF credit - 1 \in 0..NBUFFERS THEN credit - 1 ELSE credit
    BY <2>1, CountsCredit
  <2>3. pending' = pending - 1 /\ Half' = Half /\ UNCHANGED <<unheard, todo, drift>>
    BY <1>2 DEF FrozenFrame, Half
  <2>4. Allowed' = Allowed \/ Allowed' = Allowed + Floats
    BY <1>a, <1>d, <2>2, <2>3, AllowedIs DEF Allowed
  <2>5. Quiet' => Quiet
    BY <1>2, <1>a, <2>2 DEF FrozenFrame, Quiet
  <2>6. Quiet => unheard' - Half' + (2 * todo') <= Allowed' + (2 * drift')
    BY <1>a, <1>c, <2>3, <2>4
  <2> QED
    BY <2>2, <2>5, <2>6 DEF CreditInv
<1>3. CASE BeginSample
  <2>1. /\ unheard' = unheard \/ unheard' = unheard + 1
        /\ Half = 0 /\ Half' = 1
        /\ UNCHANGED <<credit, pending, peak, raced, todo, drift>>
    BY <1>3 DEF BeginSample, Written, Half
  <2>2. (Quiet' <=> Quiet) /\ Allowed' = Allowed
    BY <1>d, <2>1 DEF Quiet, Allowed
  <2>3. Quiet => unheard' - Half' + (2 * todo') <= Allowed' + (2 * drift')
    BY <1>a, <1>c, <2>1, <2>2
  <2> QED
    BY <1>b, <2>1, <2>2, <2>3 DEF CreditInv
<1>4. CASE EndSample
  <2>1. /\ unheard' = unheard \/ unheard' = unheard + 1
        /\ Half = 1 /\ Half' = 0 /\ todo' = todo - 1
        /\ UNCHANGED <<credit, pending, peak, raced, drift>>
    BY <1>4 DEF EndSample, Written, Half
  <2>2. (Quiet' <=> Quiet) /\ Allowed' = Allowed
    BY <1>d, <2>1 DEF Quiet, Allowed
  <2>3. Quiet => unheard' - Half' + (2 * todo') <= Allowed' + (2 * drift')
    BY <1>a, <1>c, <2>1, <2>2
  <2> QED
    BY <1>b, <2>1, <2>2, <2>3 DEF CreditInv
<1>5. CASE EndFrame
  BY <1>5, <1>b, <1>c DEF EndFrame, CreditInv, Quiet, Half, Allowed, Floats, history
<1>6. ASSUME NEW t \in Threads, NEW b \in BOOLEAN, Pause(t, b) PROVE CreditInv'
  BY <1>6, <1>b, <1>c DEF Pause, CreditInv, Quiet, Half, Allowed, Floats, history, engineVars
<1>7. ASSUME NEW t \in Threads, ResetWrptr(t) \/ ResetRdbuf(t) PROVE CreditInv'
  <2>1. Quiet' => Quiet
    BY <1>7 DEF ResetWrptr, ResetRdbuf, Overlapped, Quiet
  <2> QED
    BY <1>7, <1>b, <1>c, <2>1 DEF ResetWrptr, ResetRdbuf, CreditInv, Half, Allowed, Floats, engineVars
<1>8. ASSUME NEW t \in Threads, ResetWrbuf(t) PROVE CreditInv'
  <2>1. PICK c \in Int : c = IF enginePc \in {"frame", "sample"} THEN pending + 1 ELSE pending
    BY <1>a
  <2>2. Count(c)
    BY <1>8, <2>1 DEF ResetWrbuf
  <2>3. credit' <= peak' /\ peak <= peak' /\ peak' \in 0..NBUFFERS
        /\ credit' = IF c \in 0..NBUFFERS THEN c ELSE credit
    BY <2>2, CountsCredit
  <2>4. /\ unheard' = 0 /\ UNCHANGED <<pending, todo, drift>>
        /\ Half' = Half
    BY <1>8 DEF ResetWrbuf, Half, EngineInv, Resetting
  <2>5. Quiet' => Quiet
    <3>1. ~raced' => ~raced
      BY <1>8 DEF ResetWrbuf, Overlapped
    <3>2. peak' < NBUFFERS => peak < NBUFFERS
      BY <1>a, <2>3
    <3> QED
      BY <3>1, <3>2 DEF Quiet
  <2>6. CASE c \notin 0..NBUFFERS
    <3>1. Allowed' = Allowed
      BY <2>3, <2>4, <2>6 DEF Allowed, Floats
    <3> QED
      BY <1>a, <1>c, <2>3, <2>4, <2>5, <3>1 DEF CreditInv
  <2>7. CASE c \in 0..NBUFFERS /\ enginePc \in {"frame", "sample"}
    <3>1. Allowed' = Floats
      <4>1. credit' - pending' = 1
        BY <1>a, <2>1, <2>3, <2>4, <2>7
      <4> QED
        BY <1>a, <4>1 DEF Allowed, Floats
    <3>2. todo <= sound_frame_size + drift
      BY DEF EngineInv
    <3> QED
      BY <1>a, <2>3, <2>4, <3>1, <3>2 DEF CreditInv
  <2>8. CASE c \in 0..NBUFFERS /\ enginePc \notin {"frame", "sample"}
    <3>1. Allowed' = 0
      <4>1. credit' - pending' = 0
        BY <1>a, <2>1, <2>3, <2>4, <2>8
      <4> QED
        BY <1>a, <4>1 DEF Allowed, Floats
    <3>2. todo = 0 /\ Half = 0
      BY <2>8 DEF EngineInv, Half
    <3> QED
      BY <1>a, <2>3, <2>4, <3>1, <3>2 DEF CreditInv
  <2> QED
    BY <2>6, <2>7, <2>8
<1>9. CASE BeginCallback
  BY <1>9, <1>b, <1>c DEF BeginCallback, CreditInv, Quiet, Half, Allowed, Floats, engineVars
<1>10. ASSUME Count(credit + 1), pending' = pending + 1, UNCHANGED <<raced, enginePc, todo, drift>>,
              unheard' \in Nat, unheard' <= unheard
       PROVE  CreditInv'
  <2>1. credit' <= peak' /\ peak <= peak' /\ peak' \in 0..NBUFFERS
        /\ credit' = IF credit + 1 \in 0..NBUFFERS THEN credit + 1 ELSE credit
    BY <1>10, <1>a, CountsCredit
  <2>2. SUFFICES ASSUME Quiet' PROVE unheard' - Half' + (2 * todo') <= Allowed' + (2 * drift')
    BY <2>1 DEF CreditInv
  <2>3. Quiet /\ credit' = credit + 1
    BY <1>10, <1>a, <1>b, <2>1, <2>2 DEF Quiet
  <2>4. Allowed' = Allowed
    <3>1. credit' - pending' = credit - pending
      BY <1>10, <1>a, <2>3
    <3> QED
      BY <1>d, <3>1 DEF Allowed
  <2>5. Half' = Half
    BY <1>10 DEF Half
  <2>6. unheard - Half + (2 * todo) <= Allowed + (2 * drift)
    BY <1>c, <2>3
  <2>7. unheard' - Half + (2 * todo) <= Allowed + (2 * drift)
    BY <1>10, <1>a, <2>6, StillCovered
  <2> QED
    BY <1>10, <2>4, <2>5, <2>7
<1>11. CASE EndStarved
  <2>1. unheard' \in Nat /\ unheard' <= unheard
    BY <1>11, <1>a DEF EndStarved, Play, RingTypeOK
  <2>2. CASE vsync
    <3>1. credit' <= peak' /\ peak <= peak' /\ credit' = credit /\ peak' \in 0..NBUFFERS
      BY <1>11, <1>a, <2>2, CountsCredit DEF EndStarved
    <3>2. Quiet' => Quiet
      BY <1>11, <1>a, <3>1 DEF EndStarved, Quiet
    <3>3. Allowed' = Allowed /\ UNCHANGED <<Half, todo, drift>>
      BY <1>11, <2>2, <3>1 DEF EndStarved, AskForFrame, Allowed, Floats, Half
    <3>4. Quiet => unheard' - Half + (2 * todo) <= Allowed + (2 * drift)
      BY <1>a, <1>c, <2>1, StillCovered
    <3> QED
      BY <3>1, <3>2, <3>3, <3>4 DEF CreditInv
  <2>3. CASE ~vsync
    BY <1>11, <1>10, <2>1, <2>3 DEF EndStarved, AskForFrame
  <2> QED
    BY <2>2, <2>3
<1>12. CASE EndFull
  <2>1. unheard' = IF Floats <= unheard THEN unheard - Floats ELSE 0
    BY <1>12, <1>a DEF EndFull, Play
  <2>2. PICK c \in Int : c = IF vsync THEN credit - 1 ELSE credit
    BY <1>a
  <2>3. Count(c)
    BY <1>12, <2>2 DEF EndFull
  <2>4. credit' <= peak' /\ peak <= peak' /\ peak' \in 0..NBUFFERS
        /\ credit' = IF c \in 0..NBUFFERS THEN c ELSE credit
    BY <2>3, CountsCredit
  <2>5. SUFFICES ASSUME Quiet' PROVE unheard' - Half' + (2 * todo') <= Allowed' + (2 * drift')
    BY <2>4 DEF CreditInv
  <2>6. Quiet /\ UNCHANGED <<Half, todo, drift>>
    BY <1>12, <1>a, <2>4, <2>5 DEF EndFull, Quiet, Half
  <2>7. unheard >= Floats
    BY <1>12, <2>6, FullBuffer DEF EndFull
  <2>8. Allowed' = Allowed \/ Allowed' = Allowed - Floats
    BY <1>12, <1>a, <1>d, <2>2, <2>4, AllowedIs DEF EndFull, AskForFrame, Allowed
  <2>9. unheard' = unheard - Floats
    BY <1>a, <2>1, <2>7
  <2> QED
    BY <1>a, <1>c, <2>6, <2>8, <2>9
<1>13. CASE Vblank
  BY <1>13, <1>10, <1>a DEF Vblank
<1>14. CASE UNCHANGED soundVars
  BY <1>14, <1>b, <1>c DEF soundVars, engineVars, history, CreditInv, Quiet, Half, Allowed, Floats
<1> QED
  BY <1>1, <1>2, <1>3, <1>4, <1>5, <1>6, <1>7, <1>8, <1>9, <1>11, <1>12, <1>13, <1>14
  DEF RingNext, Unmute, Teardown, Threads

-----------------------------------------------------------------------------
(* The ring has a place for every sample of a frame that was given credit. *)
LEMMA PlaceLeft ==
  ASSUME SoundInv, Quiet, enginePc = "sample" \/ (enginePc = "frame" /\ todo > 0)
  PROVE  unheard < Capacity
<1>1. RingTypeOK /\ EngineInv /\ CreditInv
  BY DEF SoundInv
<1>2. unheard - Half + (2 * todo) <= Allowed + (2 * drift) /\ credit < NBUFFERS /\ todo > 0
  BY <1>1, RingSizes DEF CreditInv, EngineInv, Quiet, RingTypeOK
<1>3. PICK n \in Int : n = credit - pending
  BY <1>1 DEF RingTypeOK
<1>4. PICK k \in Nat : NBUFFERS - 1 = n + k
  BY <1>1, <1>2, <1>3, RingSizes DEF RingTypeOK
<1>5. Allowed + Floats <= Capacity
  <2>1. k * Floats \in Nat /\ n * Floats \in Int
    BY <1>3, <1>4, RingSizes
  <2>2. (n + k) * Floats = (n * Floats) + (k * Floats)
    BY <1>3, <1>4, RingSizes
  <2>3. ((n + k) + 1) * Floats = ((n + k) * Floats) + Floats
    BY <1>3, <1>4, RingSizes, OneMore
  <2>4. (n + k) + 1 = NBUFFERS
    BY <1>3, <1>4, RingSizes
  <2>5. Capacity = ((n + k) * Floats) + Floats
    BY <2>3, <2>4, RingSizes
  <2> QED
    BY <1>3, <2>1, <2>2, <2>5, RingSizes DEF Allowed
<1>6. 2 * drift <= Floats /\ drift \in Nat
  BY <1>1, RingSizes DEF RingTypeOK
<1> QED
  BY <1>1, <1>2, <1>5, <1>6, RingSizes, AllowedIs DEF RingTypeOK

LEMMA QuietBefore == SoundInv /\ [RingNext]_soundVars /\ Quiet' => Quiet
<1> SUFFICES ASSUME SoundInv, [RingNext]_soundVars PROVE Quiet' => Quiet
  OBVIOUS
<1>0. RingTypeOK
  BY DEF SoundInv
<1>1. \A c \in Int : Count(c) => (peak' < NBUFFERS => peak < NBUFFERS)
  BY <1>0, RingSizes, CountsCredit DEF RingTypeOK
<1>2. peak' < NBUFFERS => peak < NBUFFERS
  <2>1. credit \in Int /\ pending \in Int /\ credit - 1 \in Int /\ credit + 1 \in Int /\ pending + 1 \in Int
    BY <1>0 DEF RingTypeOK
  <2>2. CASE FrozenFrame
    BY <1>1, <2>1, <2>2 DEF FrozenFrame
  <2>3. ASSUME NEW t \in Threads, ResetWrbuf(t) PROVE peak' < NBUFFERS => peak < NBUFFERS
    <3>1. PICK c \in Int : Count(c)
      BY <2>1, <2>3 DEF ResetWrbuf
    <3> QED
      BY <1>1, <3>1
  <2>4. CASE EndStarved
    BY <1>1, <2>1, <2>4 DEF EndStarved
  <2>5. CASE EndFull
    BY <1>1, <2>1, <2>5 DEF EndFull
  <2>6. CASE Vblank
    BY <1>1, <2>1, <2>6 DEF Vblank
  <2>7. CASE \/ BeginFrame \/ BeginSample \/ EndSample \/ EndFrame \/ Unmute \/ Teardown \/ BeginCallback
             \/ \E t \in Threads : ResetWrptr(t) \/ ResetRdbuf(t)
             \/ UNCHANGED soundVars
    BY <2>7 DEF BeginFrame, BeginSample, EndSample, EndFrame, Unmute, Teardown, Pause, BeginCallback,
                ResetWrptr, ResetRdbuf, soundVars, history
  <2> QED
    BY <2>2, <2>3, <2>4, <2>5, <2>6, <2>7 DEF RingNext
<1>3. ~raced' => ~raced
  BY DEF RingNext, BeginFrame, FrozenFrame, BeginSample, EndSample, EndFrame, Unmute, Teardown, Pause, ResetWrptr,
         ResetRdbuf, ResetWrbuf, Overlapped, BeginCallback, EndStarved, EndFull, Vblank, soundVars, history
<1> QED
  BY <1>2, <1>3 DEF Quiet

(* A starved callback plays what has been written of the buffer, all of it *)
(* not heard yet.                                                          *)
LEMMA PartBuffer ==
  ASSUME SoundInv, Quiet, lock = "starve"
  PROVE  /\ Listening /\ Continues(wrptr) /\ wrptr <= unheard /\ wrptr \in 0..(Floats - 1)
         /\ \E full \in {0, NBUFFERS} : Between(full)
<1>1. RingTypeOK /\ EngineInv /\ BetweenInv /\ Listening
  BY DEF SoundInv, CallbackInv, Quiet, Listening
<1>2. PICK full \in 0..NBUFFERS : Between(full)
  BY <1>1 DEF BetweenInv
<1>3. wrbuf = rdbuf /\ (unheard > 0 => first = <<rdbuf, 0>>)
  BY <1>1 DEF BetweenInv
<1>4. full \in {0, NBUFFERS}
  BY <1>1, <1>2, <1>3, RingSizes DEF Between, RingTypeOK, Buffers
<1>5. full * Floats \in Nat
  BY <1>2, RingSizes
<1>6. wrptr <= unheard /\ wrptr \in 0..(Floats - 1)
  BY <1>1, <1>2, <1>5, RingSizes DEF Between, RingTypeOK, EngineInv
<1>7. Continues(wrptr)
  BY <1>1, <1>3, <1>6, RingSizes DEF Continues, RingTypeOK
<1> QED
  BY <1>1, <1>2, <1>4, <1>6, <1>7

LEMMA InOrderStep == SoundInv /\ [RingNext]_soundVars => InOrder'
<1> SUFFICES ASSUME SoundInv, [RingNext]_soundVars, ~(raced' \/ peak' = NBUFFERS) PROVE ~lost'
  BY DEF InOrder
<1>0. RingTypeOK /\ InOrder /\ RingTypeOK'
  BY RingTypeStep DEF SoundInv
<1>1. Quiet'
  BY <1>0, RingSizes DEF Quiet, RingTypeOK
<1>2. Quiet
  BY <1>1, QuietBefore
<1>3. ~lost
  BY <1>0, <1>2, RingSizes DEF InOrder, Quiet, RingTypeOK
<1>4. CASE BeginSample \/ EndSample
  <2>1. Written /\ unheard < Capacity
    BY <1>0, <1>2, <1>4, PlaceLeft DEF BeginSample, EndSample, RingTypeOK
  <2> QED
    BY <1>0, <1>3, <2>1, WritesFloat
<1>5. CASE EndStarved
  <2>1. Continues(wrptr)
    BY <1>2, <1>5, PartBuffer DEF EndStarved
  <2> QED
    BY <1>3, <1>5, <2>1 DEF EndStarved, Play
<1>6. CASE EndFull
  <2>1. unheard >= Floats /\ unheard > 0 /\ Listening
    BY <1>0, <1>2, <1>6, FullBuffer, RingSizes DEF EndFull, RingTypeOK
  <2>2. first = <<rdbuf, 0>>
    BY <2>1 DEF SoundInv, BetweenInv
  <2>3. Continues(Floats) /\ Play(Floats)
    BY <1>0, <1>6, <2>1, <2>2, RingSizes DEF Continues, EndFull, RingTypeOK
  <2> QED
    BY <1>3, <2>3 DEF Play
<1>7. CASE \/ BeginFrame \/ FrozenFrame \/ EndFrame \/ Unmute \/ Teardown \/ BeginCallback \/ Vblank
           \/ \E t \in Threads : ResetWrptr(t) \/ ResetRdbuf(t) \/ ResetWrbuf(t)
           \/ UNCHANGED soundVars
  BY <1>3, <1>7 DEF BeginFrame, FrozenFrame, EndFrame, Unmute, Teardown, Pause, BeginCallback, Vblank,
                    ResetWrptr, ResetRdbuf, ResetWrbuf, soundVars, history
<1> QED
  BY <1>4, <1>5, <1>6, <1>7 DEF RingNext

-----------------------------------------------------------------------------
(* The ring between its indices.                                           *)

LEMMA BetweenKept ==
  ASSUME BetweenInv,
         UNCHANGED <<wrptr, wrbuf, rdbuf, running, resetting, lock, unheard, first, Half>>,
         Quiet' => Quiet
  PROVE  BetweenInv'
BY DEF BetweenInv, Listening, Resetting, Between, Floats

LEMMA BetweenStep == SoundInv /\ [RingNext]_soundVars => BetweenInv'
<1> SUFFICES ASSUME SoundInv, [RingNext]_soundVars PROVE BetweenInv'
  OBVIOUS
<1>0. RingTypeOK /\ EngineInv /\ CallbackInv /\ BetweenInv /\ (Quiet' => Quiet)
  BY QuietBefore DEF SoundInv
<1> USE <1>0
<1>a. "engine" \in Threads /\ "ui" \in Threads /\ "engine" # "ui"
  BY DEF Threads
<1>b. Floats' = Floats /\ Floats \in Nat /\ Floats = 2 * sound_frame_size /\ sound_frame_size \in Nat
      /\ sound_frame_size >= 1 /\ NBUFFERS \in Nat /\ NBUFFERS >= 2
      /\ wrptr \in Nat /\ wrbuf \in Buffers /\ rdbuf \in Buffers /\ unheard \in Nat
  BY RingSizes DEF Floats, RingTypeOK
<1>1. CASE \/ BeginFrame \/ FrozenFrame \/ EndFrame \/ Vblank \/ UNCHANGED soundVars
  <2>1. Half' = Half
    BY <1>1 DEF BeginFrame, FrozenFrame, EndFrame, Vblank, soundVars, engineVars, Half
  <2> QED
    BY <1>1, <2>1, BetweenKept DEF BeginFrame, FrozenFrame, EndFrame, Vblank, soundVars, ringVars, history
<1>2. CASE BeginSample
  <2> SUFFICES ASSUME Listening' PROVE BetweenInv'
    BY DEF BetweenInv
  <2>1. Listening /\ Quiet
    BY <1>2 DEF BeginSample, Listening, Resetting
  <2>2. unheard < Capacity
    BY <1>2, <2>1, PlaceLeft DEF BeginSample, RingTypeOK
  <2>3. /\ unheard' = unheard + 1 /\ first' = IF unheard = 0 THEN <<wrbuf, wrptr>> ELSE first
        /\ wrptr' = wrptr + 1 /\ UNCHANGED <<wrbuf, rdbuf>> /\ lock' = "sample"
        /\ Half = 0 /\ Half' = 1
    BY <1>2, <2>2, WritesFloat DEF BeginSample, Half
  <2>4. wrptr % 2 = 0 /\ (unheard > 0 => first = <<rdbuf, 0>>)
    BY <2>1, <2>3 DEF BetweenInv
  <2>5. PICK full \in 0..NBUFFERS : Between(full)
    BY <2>1 DEF BetweenInv
  <2>6. full * Floats \in Nat /\ full \in 0..(NBUFFERS - 1)
    BY <1>b, <2>2, <2>5, RingSizes DEF Between
  <2>7. Between(full)'
    BY <1>b, <2>3, <2>5, <2>6 DEF Between
  <2>8. unheard = 0 => wrptr = 0 /\ wrbuf = rdbuf
    <3> SUFFICES ASSUME unheard = 0 PROVE wrptr = 0 /\ wrbuf = rdbuf
      OBVIOUS
    <3>1. wrptr = 0 /\ full * Floats = 0
      BY <1>b, <2>5, <2>6 DEF Between
    <3>2. full = 0
      BY <1>b, <2>6, <3>1
    <3> QED
      BY <1>b, <2>5, <3>1, <3>2 DEF Between, Buffers
  <2>9. first' = <<rdbuf, 0>>
    BY <1>b, <2>3, <2>4, <2>8
  <2>10. wrptr' % 2 = 1
    BY <1>b, <2>3, <2>4
  <2> QED
    BY <2>3, <2>6, <2>7, <2>9, <2>10 DEF BetweenInv
<1>3. CASE EndSample
  <2> SUFFICES ASSUME Listening' PROVE BetweenInv'
    BY DEF BetweenInv
  <2>1. Listening /\ Quiet
    BY <1>3 DEF EndSample, Listening, Resetting
  <2>2. unheard < Capacity
    BY <1>3, <2>1, PlaceLeft DEF EndSample
  <2>3. /\ unheard' = unheard + 1 /\ first' = IF unheard = 0 THEN <<wrbuf, wrptr>> ELSE first
        /\ rdbuf' = rdbuf /\ lock' = "free" /\ Half = 1 /\ Half' = 0
    BY <1>3, <2>2, WritesFloat DEF EndSample, Half
  <2>4. wrptr % 2 = 1 /\ (unheard > 0 => first = <<rdbuf, 0>>)
    BY <2>1, <2>3 DEF BetweenInv
  <2>5. PICK full \in 0..NBUFFERS : Between(full)
    BY <2>1 DEF BetweenInv
  <2>6. full * Floats \in Nat /\ full \in 0..(NBUFFERS - 1) /\ wrptr > 0
    BY <1>b, <2>4, <2>5 DEF Between
  <2>7. first' = <<rdbuf, 0>>
    BY <1>b, <2>3, <2>4, <2>5, <2>6 DEF Between
  <2>8. CASE wrptr + 1 >= Floats
    <3>1. wrptr + 1 = Floats
      BY <1>b, <2>4, <2>8 DEF RingTypeOK
    <3>2. wrptr' = 0 /\ wrbuf' = NextBuffer(wrbuf)
      BY <1>3, <1>b, <2>8 DEF EndSample
    <3>3. (full + 1) * Floats = (full * Floats) + Floats /\ full + 1 \in 0..NBUFFERS
      BY <1>b, <2>6, OneMore
    <3>4. unheard' = (full + 1) * Floats
      BY <1>b, <2>3, <2>5, <2>6, <3>1, <3>3 DEF Between
    <3>5. wrbuf' \in {rdbuf + (full + 1), rdbuf + (full + 1) - NBUFFERS}
      BY <1>b, <2>5, <2>6, <3>2, NextBufferIs DEF Between, Buffers
    <3>6. Between(full + 1)'
      BY <1>b, <2>3, <3>2, <3>3, <3>4, <3>5 DEF Between
    <3> QED
      BY <2>3, <2>7, <3>2, <3>3, <3>6 DEF BetweenInv
  <2>9. CASE ~(wrptr + 1 >= Floats)
    <3>1. wrptr' = wrptr + 1 /\ wrbuf' = wrbuf
      BY <1>3, <1>b, <2>9 DEF EndSample
    <3>2. Between(full)'
      BY <1>b, <2>3, <2>5, <2>6, <3>1 DEF Between
    <3>3. wrptr' % 2 = 0
      BY <1>b, <2>4, <3>1
    <3> QED
      BY <2>3, <2>6, <2>7, <3>2, <3>3 DEF BetweenInv
  <2> QED
    BY <2>8, <2>9
<1>4. CASE Unmute \/ Teardown
  <2>1. Resetting("engine")' \/ Resetting("ui")'
    BY <1>4, <1>a, PauseTypes DEF Unmute, Teardown, Pause, Resetting
  <2> QED
    BY <2>1 DEF BetweenInv, Listening, Resetting
<1>5. ASSUME NEW t \in Threads, ResetWrptr(t) \/ ResetRdbuf(t) PROVE BetweenInv'
  <2>1. Resetting("engine")' \/ Resetting("ui")'
    BY <1>5, PauseTypes DEF ResetWrptr, ResetRdbuf, Threads, Resetting
  <2> QED
    BY <2>1 DEF BetweenInv, Listening, Resetting
<1>6. ASSUME NEW t \in Threads, ResetWrbuf(t) PROVE BetweenInv'
  <2> SUFFICES ASSUME Listening' PROVE BetweenInv'
    BY DEF BetweenInv
  <2>1. /\ resetting'[t] = "done" /\ resetting[t] = "wrbuf"
        /\ \A u \in Threads \ {t} : resetting'[u] = resetting[u]
    BY <1>6, PauseTypes DEF ResetWrbuf
  <2>2. ~raced /\ lock = "free" /\ \A u \in Threads \ {t} : ~Resetting(u)
    BY <1>6 DEF ResetWrbuf, Overlapped, Resetting, Listening, Quiet
  <2>3. t = "engine"
    BY <1>6, <1>a, <2>1, <2>2 DEF ResetWrbuf, CallbackInv, Resetting, Listening, Threads
  <2>4. wrptr = 0 /\ rdbuf = 0
    BY <1>a, <2>1, <2>2, <2>3 DEF CallbackInv
  <2>5. wrptr' = 0 /\ rdbuf' = 0 /\ wrbuf' = 0 /\ unheard' = 0 /\ lock' = "free" /\ Half' = 0
    BY <1>6, <2>2, <2>3, <2>4 DEF ResetWrbuf, Half
  <2>6. 0 * Floats = 0 /\ 0 \in 0..NBUFFERS
    BY <1>b
  <2>7. Between(0)'
    BY <1>b, <2>5, <2>6 DEF Between
  <2> QED
    BY <2>5, <2>6, <2>7 DEF BetweenInv
<1>7. CASE BeginCallback
  <2>1. UNCHANGED <<wrptr, wrbuf, rdbuf, running, resetting, unheard, first, Half>>
        /\ lock = "free" /\ lock' = IF rdbuf = wrbuf THEN "starve" ELSE "full"
    BY <1>7 DEF BeginCallback, ringVars, engineVars, Half
  <2> QED
    BY <1>b, <2>1 DEF BetweenInv, Listening, Resetting, Between
<1>8. CASE EndStarved
  <2> SUFFICES ASSUME Listening' PROVE BetweenInv'
    BY DEF BetweenInv
  <2>1. Quiet /\ lock = "starve" /\ Play(wrptr)
    BY <1>8 DEF EndStarved, Listening
  <2>2. Listening /\ wrptr <= unheard /\ wrptr \in 0..(Floats - 1)
    BY <2>1, PartBuffer
  <2>3. PICK full \in {0, NBUFFERS} : Between(full)
    BY <2>1, PartBuffer
  <2>4. /\ wrptr' = 0 /\ UNCHANGED <<wrbuf, rdbuf>> /\ lock' = "free" /\ Half' = 0
        /\ unheard' = unheard - wrptr /\ first' = <<rdbuf, wrptr>>
    BY <1>8, <1>b, <2>1, <2>2, PlaysFloats DEF EndStarved, AfterStarve, Half, EngineInv
  <2>5. full * Floats \in Nat /\ full \in 0..NBUFFERS
    BY <1>b, <2>3
  <2>6. Between(full)'
    BY <1>b, <2>3, <2>4, <2>5 DEF Between
  <2>7. unheard' > 0 => first' = <<rdbuf, 0>>
    <3>1. full = 0 => unheard' = 0
      BY <1>b, <2>3, <2>4 DEF Between
    <3>2. full = NBUFFERS => wrptr = 0
      BY <2>3 DEF Between
    <3> QED
      BY <2>3, <2>4, <3>1, <3>2
  <2> QED
    BY <2>4, <2>5, <2>6, <2>7 DEF BetweenInv
<1>9. CASE EndFull
  <2> SUFFICES ASSUME Listening' PROVE BetweenInv'
    BY DEF BetweenInv
  <2>1. Quiet /\ lock = "full" /\ Play(Floats) /\ Floats \in 0..Floats
    BY <1>9, <1>b DEF EndFull, Listening
  <2>2. Listening /\ unheard >= Floats
    BY <2>1, FullBuffer
  <2>3. PICK full \in 1..(NBUFFERS - 1) : Between(full)
    BY <2>1, FullBuffer
  <2>4. /\ rdbuf' = NextBuffer(rdbuf) /\ UNCHANGED <<wrptr, wrbuf>> /\ lock' = "free" /\ Half' = Half
        /\ unheard' = unheard - Floats /\ first' = <<NextBuffer(rdbuf), 0>>
    BY <1>9, <2>1, <2>2, PlaysFloats DEF EndFull, Half
  <2>5. PICK m \in 0..(NBUFFERS - 2) : full = m + 1
    BY <1>b, <2>3
  <2>6. full * Floats = (m * Floats) + Floats /\ m * Floats \in Nat
    BY <1>b, <2>5, OneMore
  <2>7. unheard' = (m * Floats) + wrptr
    BY <1>b, <2>3, <2>4, <2>6 DEF Between
  <2>8. wrbuf \in {rdbuf' + m, rdbuf' + m - NBUFFERS}
    BY <1>b, <2>3, <2>4, <2>5, NextBufferIs DEF Between, Buffers
  <2>9. Between(m)' /\ m \in 0..NBUFFERS
    BY <1>b, <2>4, <2>5, <2>7, <2>8 DEF Between
  <2>10. wrptr' % 2 = Half'
    BY <2>2, <2>4 DEF BetweenInv
  <2> QED
    BY <2>4, <2>9, <2>10 DEF BetweenInv
<1> QED
  BY <1>1, <1>2, <1>3, <1>4, <1>5, <1>6, <1>7, <1>8, <1>9 DEF RingNext

-----------------------------------------------------------------------------
LEMMA SoundCorrect == RingSpec => []SoundInv
<1>1. SoundInv /\ [RingNext]_soundVars => SoundInv'
  BY RingTypeStep, EngineStep, CallbackStep, CreditStep, BetweenStep, InOrderStep DEF SoundInv
<1> QED
  BY <1>1, InitSound, PTL DEF RingSpec

(* The indices never leave the buffers, though the two threads reset them  *)
(* without the lock the writer and the callback hold.                      *)
THEOREM RingTypeCorrect == RingSpec => []RingTypeOK
<1>1. SoundInv => RingTypeOK
  BY DEF SoundInv
<1> QED
  BY <1>1, SoundCorrect, PTL

(* Soundnik::callback plays the floats in the order sample() wrote them,   *)
(* none left out and none twice, for any number and size of the buffers,   *)
(* as long as the engine was never a whole ring of frames ahead and no     *)
(* reset of pause() met a callback or a sample.                            *)
THEOREM InOrderHolds == RingSpec => []InOrder
<1>1. SoundInv => InOrder
  BY DEF SoundInv
<1> QED
  BY <1>1, SoundCorrect, PTL
=============================================================================
