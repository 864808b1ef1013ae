------------------------------- MODULE Raster -------------------------------
(***************************************************************************)
(* The beam of the picture against the clock of the processor: the loop of *)
(* execute_frame(), the time and the interrupt request that single_step()  *)
(* and check_interrupt() account for, and the counters of PixelFiller.     *)
(* What an instruction does is left to its cycles and to the interrupt     *)
(* enables; what is drawn, to how many pixels.                             *)
(*                                                                         *)
(* fill() always takes fill1(): its test for the fast paths asks whether   *)
(* commit_time is zero, and that is -1 or positive.                        *)
(***************************************************************************)
EXTENDS Integers

CONSTANTS
  Line,      \* clocks in a line, at four to a cycle of the processor: 768
  Lines,     \* lines in a frame: 312
  Heights,   \* the values of --yres; no texture is made for a negative one
  Borders    \* the values of --border-width, cut to 0..104

ASSUME RasterAssumption ==
  /\ Line = 768    \* the places of the picture and of the request are in its terms
  /\ Lines \in Nat \ {0} /\ Heights \subseteq Nat /\ Borders \subseteq 0..104

VARIABLES
  view,                 \* the screen_width, center_offset and height chosen
  update_screen,        \* whether this frame is drawn
  raster_pixel, raster_line, visible, bmpofs,
  brk,                  \* the frame is over
  instr_time, between,  \* cycles not yet accounted to a frame, and those that are
  inte, irq, irq_carry, \* the board's
  iff, ei_pending,      \* the processor's
  asked,     \* requests in this frame
  owed       \* instructions since a request the program was open for

filler == <<raster_pixel, raster_line, visible, bmpofs, brk>>
interrupts == <<inte, irq, irq_carry, iff, ei_pending>>
vars == <<view, update_screen, filler, instr_time, between, interrupts, asked, owed>>

FrameTime == (Line * Lines) \div 4

(* The cycles of the processor and of the machine that instructions take.  *)
Timings == {<<4, 4>>, <<5, 8>>, <<7, 8>>, <<10, 12>>, <<11, 12>>, <<11, 16>>,
            <<13, 16>>, <<16, 20>>, <<17, 24>>, <<18, 24>>}

(* PixelFiller::init().  Nothing bounds the height: from Lines on the line  *)
(* that should be the first visible one is never reached.                  *)
Views == {[width |-> 512 + (2 * border), left |-> 152 - border, height |-> height] :
            border \in Borders, height \in Heights}

(* The first frame has begun.                                              *)
Init ==
  /\ view \in Views /\ update_screen \in BOOLEAN
  /\ raster_pixel = 0 /\ raster_line = 0 /\ visible = FALSE /\ bmpofs = 0 /\ brk = FALSE
  /\ instr_time = 0 /\ between = 0
  /\ inte = FALSE /\ irq = FALSE /\ irq_carry = FALSE /\ iff = FALSE /\ ei_pending = 0
  /\ asked = 0 /\ owed = 0

(* A mutant of BeamAfterReset: the beam starts at the left with the frame.  *)
FromTheLeft(pixel) == 0
BeamAfterReset(pixel) == pixel

(* PixelFiller::reset(), and execute_frame() up to its loop.  A frame that  *)
(* is caught up with is not drawn.                                         *)
StartFrame ==
  /\ brk
  /\ update_screen' \in BOOLEAN
  /\ brk' = FALSE /\ raster_line' = 0 /\ visible' = FALSE /\ bmpofs' = 0
  /\ raster_pixel' = BeamAfterReset(raster_pixel)
  /\ irq_carry' = FALSE /\ between' = 0 /\ asked' = 0
  /\ UNCHANGED <<view, instr_time, inte, irq, iff, ei_pending, owed>>

-----------------------------------------------------------------------------
(* fill1(): the clocks of an instruction from raster_pixel on.  No          *)
(* instruction is as long as a line.                                       *)

EvensBelow(n) == (n + 1) \div 2
Smaller(m, n) == IF m < n THEN m ELSE n
Larger(m, n) == IF m > n THEN m ELSE n

(* Two pixels at every second clock that falls into the view.              *)
Drawn(from, to) ==
  LET lo == Larger(from, view.left)
      hi == Smaller(to, view.left + view.width)
  IN IF lo < hi THEN 2 * (EvensBelow(hi) - EvensBelow(lo)) ELSE 0

(* A mutant of VisibleAfter: blanking does not start with the frame.        *)
StaysVisible(seen, line) == seen \/ (update_screen /\ line = Lines - view.height)
VisibleAfter(seen, line) ==
  line # Lines /\ (seen \/ (update_screen /\ line = Lines - view.height))

(* A mutant of RequestPixel: early enough in the line to be reached by the  *)
(* last instruction of the frame before.                                    *)
RequestedEarlier == 94
RequestPixel == 174

(* advanceLine() and the request, for a fill that ends at pixel end.        *)
fill1(end) ==
  LET crossed == end >= Line
      line == IF crossed THEN raster_line + 1 ELSE raster_line
      over == line = Lines
      seen == IF crossed THEN VisibleAfter(visible, line) ELSE visible
  IN /\ raster_line' = IF over THEN 0 ELSE line
     /\ raster_pixel' = IF crossed THEN end - Line ELSE end
     /\ visible' = seen /\ brk' = over
     /\ bmpofs' = bmpofs + (IF visible THEN Drawn(raster_pixel, Smaller(end, Line)) ELSE 0)
                         + (IF crossed /\ seen THEN Drawn(0, end - Line) ELSE 0)

(* The clock, in the fill, of a request; or None.                           *)
None == -1
irq_clk(end) ==
  IF raster_line = 0 /\ raster_pixel < RequestPixel /\ RequestPixel <= end
  THEN RequestPixel - 2 - raster_pixel
  ELSE IF raster_line = Lines - 1 /\ RequestPixel <= end - Line
  THEN (Line - raster_pixel) + RequestPixel - 2
  ELSE None

-----------------------------------------------------------------------------
thresh(cycles) ==
  CASE cycles \in {11, 13} -> 15
    [] cycles = 17 -> 23
    [] cycles = 18 -> 21
    [] cycles \notin {11, 13, 17, 18} -> cycles

(* A mutant of CarriedOver: a request that came late is forgotten.          *)
Forgotten(asks) == FALSE
CarriedOver(asks) == ~asks /\ irq_carry

(* The interrupt flip-flops after an acknowledge and an instruction.        *)
Enables(kind, ack) ==
  /\ ei_pending' = IF kind = "EI" THEN 1 ELSE 0
  /\ iff' = (kind = "plain" /\ (iff \/ ei_pending = 1))
  /\ inte' = (kind = "EI" \/ (kind = "plain" /\ (ei_pending = 1 \/ (inte /\ ~ack))))

(* check_interrupt() and single_step(): the cycles of an acknowledge that   *)
(* comes before the first instruction of a frame are counted to what the    *)
(* frame before has drawn already.                                          *)
Step(kind, timing) ==
  LET ack == irq /\ iff
      begun == instr_time + IF ack THEN 16 ELSE 0
      first == begun # 0 /\ between = 0
      time == timing[2] + IF first THEN 0 ELSE begun
      end == raster_pixel + (4 * time)
      clk == irq_clk(end)
      asks == clk # None
      late == asks /\ clk > 4 * thresh(timing[1])
      raised == (asks /\ ~late) \/ CarriedOver(asks)
      afterbrk == IF raster_line = Lines - 1 /\ end >= Line THEN (end - Line) \div 4 ELSE 0
  IN /\ ~brk
     /\ fill1(end)
     /\ Enables(kind, ack)
     /\ irq' = (inte' /\ ((irq /\ ~ack) \/ raised))
     /\ irq_carry' = IF asks THEN late \/ irq_carry ELSE FALSE
     /\ between' = (IF first THEN begun ELSE between) + time - afterbrk
     /\ instr_time' = afterbrk
     /\ asked' = asked + IF asks THEN 1 ELSE 0
     /\ owed' = IF ~inte' \/ ~iff' THEN 0
                ELSE IF asks THEN 1
                ELSE IF ack \/ owed = 0 THEN 0 ELSE owed + 1
     /\ UNCHANGED <<view, update_screen>>

Next ==
  \/ StartFrame
  \/ \E timing \in Timings : Step("plain", timing)
  \/ Step("EI", <<4, 4>>)
  \/ Step("DI", <<4, 4>>)

Spec == Init /\ [][Next]_vars

-----------------------------------------------------------------------------
(* The type invariant.  Instructions take multiples of four cycles, and no *)
(* instruction, with an acknowledge before it, takes more than 40.         *)
TypeOK ==
  /\ view \in Views /\ raster_line \in 0..(Lines - 1)
  /\ raster_pixel \in {16 * n : n \in 0..47} /\ instr_time \in {4 * n : n \in 0..9}
  /\ {visible, brk, update_screen, inte, irq, irq_carry, iff} \subseteq BOOLEAN
  /\ ei_pending \in 0..1 /\ bmpofs \in Nat /\ between \in Nat

(* "59904": a frame accounts for the time of its lines, whatever the last  *)
(* instruction of each frame took beyond it, because the beam keeps its    *)
(* place over PixelFiller::reset() as single_step() keeps the cycles.  An  *)
(* acknowledge before the first instruction of a frame is the exception:   *)
(* its 16 cycles are counted and not drawn.                                *)
FrameIsWhole == brk => between \in {FrameTime, FrameTime + 16}

(* Every frame asks for an interrupt once: no instruction at the edge of   *)
(* two frames passes over the place of the request, or reaches it in the   *)
(* frame before (fill1(), PixelFiller::reset()).                           *)
OneRequest == asked <= 1 /\ (brk => asked = 1)

(* A program that stays open for interrupts is interrupted after the       *)
(* instruction in which the raster asked or, when that came too late in    *)
(* it, after the next: a request held over in irq_carry is not forgotten   *)
(* (single_step()).                                                        *)
Prompt == owed <= 2

(* fill1() writes through bmpofs with no check: the pixels of a frame stay *)
(* in the width * height of the bitmap for every border and height, and    *)
(* fill it for every height below Lines; from Lines on the picture stays   *)
(* empty.  A frame that is not drawn writes none.                          *)
BitmapFilled ==
  /\ bmpofs <= view.width * view.height
  /\ brk => bmpofs = IF update_screen /\ view.height < Lines
                     THEN view.width * view.height ELSE 0
=============================================================================
