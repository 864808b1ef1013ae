------------------------------ MODULE SoundRing ------------------------------
(***************************************************************************)
(* The ring of sound buffers between the engine thread, which writes the   *)
(* samples of each frame (Soundnik::sample), and the audio thread of SDL,  *)
(* which takes one buffer per callback (Soundnik::callback) and asks for   *)
(* the next frame.  Both hold the device lock; Soundnik::pause, called by  *)
(* the engine after its first event and by the UI thread at the end, does  *)
(* not hold it while it resets the indices.                                *)
(*                                                                         *)
(* A sample is two equal floats, left and right.  The floats themselves    *)
(* are left out: the history says how many of those written have not been  *)
(* played, and at which place of the ring the first of them is, which is   *)
(* where the callback has to take it from.                                 *)
(***************************************************************************)
EXTENDS Integers

CONSTANTS
  NBUFFERS,           \* buffers of the ring
  sound_frame_size,   \* samples of a buffer; SDL asks for as many per callback
  Jitter,             \* a frame may be this many samples early or late
  MaxPending,         \* bound: frames asked for and not begun
  Vsync               \* the values of Options.vsync to consider

ASSUME RingAssumption ==
  /\ NBUFFERS \in Nat \ {0, 1}
  /\ sound_frame_size \in Nat \ {0}
  /\ Jitter \in Nat /\ Jitter <= sound_frame_size
  /\ MaxPending \in Nat \ {0}
  /\ Vsync \subseteq BOOLEAN /\ Vsync # {}

VARIABLES
  wrptr, wrbuf, rdbuf,
  running,    \* the audio device is not paused: its callback fires
  lock,       \* the device lock: who is inside sample() or the callback
  resetting,  \* resetting[t]: where thread t is in pause()
  enginePc, firstEvent,
  pending,    \* EXECUTE_FRAME events the engine has not taken yet
  todo,       \* samples the current frame still has to write
  drift,      \* samples the frames so far are ahead of the frame rate
  vsync,
  (* History, read by no guard.                                            *)
  unheard,    \* floats written and not played since the last reset
  first,      \* <<buffer, place>> of the first of them
  credit,     \* frames asked for and not played or frozen yet (saturates)
  peak,       \* the largest credit so far
  lost,       \* the callback played something else than the next floats
  raced       \* a reset of the indices overlapped a callback or a sample

ringVars == <<wrptr, wrbuf, rdbuf>>
history == <<unheard, first, credit, peak, lost, raced>>
engineVars == <<enginePc, firstEvent, pending, todo, drift>>
soundVars == <<ringVars, running, lock, resetting, engineVars, vsync, history>>

Buffers == 0..(NBUFFERS - 1)
Floats == 2 * sound_frame_size    \* floats of a buffer
Capacity == NBUFFERS * Floats     \* of the ring
Threads == {"engine", "ui"}

(* The indices stay inside buffer[NBUFFERS][], also when pause() resets them *)
(* in the middle of sample(): wrptr is at most one buffer's floats.          *)
RingTypeOK ==
  /\ wrptr \in 0..Floats
  /\ wrbuf \in Buffers /\ rdbuf \in Buffers
  /\ running \in BOOLEAN /\ vsync \in BOOLEAN
  /\ lock \in {"free", "sample", "starve", "full"}
  /\ resetting \in [Threads -> {"no", "wrptr", "rdbuf", "wrbuf", "done"}]
  /\ enginePc \in {"pull", "frame", "sample", "unmute"}
  /\ firstEvent \in BOOLEAN
  /\ pending \in 0..MaxPending
  /\ todo \in 0..(Jitter + sound_frame_size) /\ drift \in 0..Jitter
  /\ unheard \in 0..Capacity /\ first \in Buffers \X (0..Floats)
  /\ credit \in 0..NBUFFERS /\ peak \in 0..NBUFFERS /\ lost \in BOOLEAN /\ raced \in BOOLEAN

(* run_event_loop() asks for one frame before there is any clock.          *)
RingInit ==
  /\ wrptr = 0 /\ wrbuf = 0 /\ rdbuf = 0
  /\ running = FALSE /\ lock = "free"
  /\ resetting = [t \in Threads |-> "no"]
  /\ enginePc = "pull" /\ firstEvent = TRUE
  /\ pending = 1 /\ todo = 0 /\ drift = 0
  /\ vsync \in Vsync
  /\ unheard = 0 /\ first = <<0, 0>> /\ credit = 1 /\ peak = 1 /\ lost = FALSE /\ raced = FALSE

(***************************************************************************)
(* The engine thread: one frame is about one buffer of samples, or none    *)
(* while the board is paused.                                              *)
(***************************************************************************)
Count(c) ==
  /\ credit' = IF c \in 0..NBUFFERS THEN c ELSE credit
  /\ peak' = IF credit' > peak THEN credit' ELSE peak

BeginFrame ==
  /\ enginePc = "pull" /\ pending > 0
  /\ pending' = pending - 1
  /\ enginePc' = "frame"
  /\ \E d \in 0..Jitter :
       /\ drift' = d
       /\ todo' = sound_frame_size + d - drift
  /\ UNCHANGED <<ringVars, running, lock, resetting, firstEvent, vsync, history>>

FrozenFrame ==
  /\ enginePc = "pull" /\ pending > 0
  /\ pending' = pending - 1
  /\ enginePc' = IF firstEvent THEN "unmute" ELSE "pull"
  /\ Count(credit - 1)
  /\ UNCHANGED <<ringVars, running, lock, resetting, firstEvent, todo, drift,
                 vsync, unheard, first, lost, raced>>

(* A float is written; over one not played yet when all places are taken.  *)
Written ==
  /\ unheard' = IF unheard < Capacity THEN unheard + 1 ELSE unheard
  /\ lost' = (lost \/ unheard = Capacity)
  /\ first' = IF unheard = 0 THEN <<wrbuf, wrptr>> ELSE first

(* Soundnik::sample, cut where the other threads can tell the difference:  *)
(* between the two increments of wrptr.                                    *)
BeginSample ==
  /\ enginePc = "frame" /\ todo > 0 /\ lock = "free"
  /\ lock' = "sample" /\ enginePc' = "sample"
  /\ Written
  /\ wrptr' = wrptr + 1
  /\ UNCHANGED <<wrbuf, rdbuf, running, resetting, firstEvent, pending, todo,
                 drift, vsync, credit, peak, raced>>

NextBuffer(b) == IF b + 1 = NBUFFERS THEN 0 ELSE b + 1

EndSample ==
  /\ enginePc = "sample"
  /\ enginePc' = "frame" /\ lock' = "free" /\ todo' = todo - 1
  /\ Written
  /\ IF wrptr + 1 >= 2 * sound_frame_size
     THEN wrptr' = 0 /\ wrbuf' = NextBuffer(wrbuf)
     ELSE wrptr' = wrptr + 1 /\ wrbuf' = wrbuf
  /\ UNCHANGED <<rdbuf, running, resetting, firstEvent, pending, drift, vsync,
                 credit, peak, raced>>

EndFrame ==
  /\ enginePc = "frame" /\ todo = 0
  /\ enginePc' = IF firstEvent THEN "unmute" ELSE "pull"
  /\ UNCHANGED <<ringVars, running, lock, resetting, firstEvent, pending, todo,
                 drift, vsync, history>>

(***************************************************************************)
(* Soundnik::pause: SDL takes the device lock to start or stop the device; *)
(* the three indices are then reset one after the other without it.        *)
(***************************************************************************)
Pause(t, topause) ==
  /\ resetting[t] = "no" /\ lock = "free"
  /\ running' = ~topause
  /\ resetting' = [resetting EXCEPT ![t] = "wrptr"]
  /\ UNCHANGED <<ringVars, lock, engineVars, vsync, history>>

Overlapped(t) ==
  raced' = (raced \/ lock # "free" \/ \E u \in Threads \ {t} : resetting[u] \notin {"no", "done"})

ResetWrptr(t) ==
  /\ resetting[t] = "wrptr"
  /\ resetting' = [resetting EXCEPT ![t] = "rdbuf"]
  /\ wrptr' = 0
  /\ Overlapped(t)
  /\ UNCHANGED <<wrbuf, rdbuf, running, lock, engineVars, vsync,
                 unheard, first, credit, peak, lost>>

ResetRdbuf(t) ==
  /\ resetting[t] = "rdbuf"
  /\ resetting' = [resetting EXCEPT ![t] = "wrbuf"]
  /\ rdbuf' = 0
  /\ Overlapped(t)
  /\ UNCHANGED <<wrptr, wrbuf, running, lock, engineVars, vsync,
                 unheard, first, credit, peak, lost>>

(* What was written before the reset is meant to be forgotten.             *)
ResetWrbuf(t) ==
  /\ resetting[t] = "wrbuf"
  /\ resetting' = [resetting EXCEPT ![t] = "done"]
  /\ wrbuf' = 0
  /\ Overlapped(t)
  /\ unheard' = 0
  /\ Count(IF enginePc \in {"frame", "sample"} THEN pending + 1 ELSE pending)
  /\ IF t = "engine" THEN enginePc' = "pull" /\ firstEvent' = FALSE
                     ELSE UNCHANGED <<enginePc, firstEvent>>
  /\ UNCHANGED <<wrptr, rdbuf, running, lock, pending, todo, drift,
                 vsync, first, lost>>

Unmute == enginePc = "unmute" /\ Pause("engine", FALSE)
Teardown == Pause("ui", TRUE)

(***************************************************************************)
(* The audio thread.  BeginCallback compares the indices; the copying and  *)
(* the update of the index or of wrptr follow, still under the lock.       *)
(***************************************************************************)
BeginCallback ==
  /\ running /\ lock = "free"
  /\ vsync \/ pending < MaxPending
  /\ lock' = IF rdbuf = wrbuf THEN "starve" ELSE "full"
  /\ raced' = (raced \/ \E t \in Threads : resetting[t] \notin {"no", "done"})
  /\ UNCHANGED <<ringVars, running, resetting, engineVars, vsync, unheard, first,
                 credit, peak, lost>>

(* The first n floats of the buffer are the next floats to be heard.       *)
Continues(n) == n = 0 \/ (n <= unheard /\ first = <<rdbuf, 0>>)

Play(n) ==
  /\ lost' = (lost \/ ~Continues(n))
  /\ unheard' = IF n <= unheard THEN unheard - n ELSE 0
  /\ first' = IF n = Floats THEN <<NextBuffer(rdbuf), 0>> ELSE <<rdbuf, n>>

(* timer_callback(), unless the display is the clock of the frames.        *)
AskForFrame ==
  IF vsync THEN UNCHANGED pending ELSE pending' = pending + 1

(* The partial buffer has been played: the writer starts it again.         *)
(* A mutant of AfterStarve: the writer goes on where it was.                *)
KeepsPlace == wrptr
AfterStarve == 0

EndStarved ==
  /\ lock = "starve"
  /\ Play(wrptr)
  /\ wrptr' = AfterStarve
  /\ lock' = "free"
  /\ AskForFrame
  /\ Count(IF vsync THEN credit ELSE credit + 1)
  /\ UNCHANGED <<wrbuf, rdbuf, running, resetting, enginePc, firstEvent,
                 todo, drift, vsync, raced>>

EndFull ==
  /\ lock = "full"
  /\ Play(2 * sound_frame_size)
  /\ rdbuf' = NextBuffer(rdbuf)
  /\ lock' = "free"
  /\ AskForFrame
  /\ Count(IF vsync THEN credit - 1 ELSE credit)
  /\ UNCHANGED <<wrptr, wrbuf, running, resetting, enginePc, firstEvent,
                 todo, drift, vsync, raced>>

(* With vsync every rendered picture asks for a frame.                     *)
Vblank ==
  /\ vsync /\ pending < MaxPending
  /\ pending' = pending + 1
  /\ Count(credit + 1)
  /\ UNCHANGED <<ringVars, running, lock, resetting, enginePc, firstEvent, todo,
                 drift, vsync, unheard, first, lost, raced>>

RingNext ==
  \/ BeginFrame \/ FrozenFrame \/ BeginSample \/ EndSample \/ EndFrame
  \/ Unmute \/ Teardown
  \/ \E t \in Threads : ResetWrptr(t) \/ ResetRdbuf(t) \/ ResetWrbuf(t)
  \/ BeginCallback \/ EndStarved \/ EndFull \/ Vblank

RingSpec == RingInit /\ [][RingNext]_soundVars

(* What is played continues what was played, whatever the engine and the   *)
(* callback do to each other, as long as the ring was never given a whole  *)
(* ring of frames more than it played (sample() never looks at rdbuf; a    *)
(* full ring looks empty), and as long as no reset of the indices met a    *)
(* callback.  A starved callback raises the credit for good: the eighth    *)
(* one since the last pause overruns the ring.                             *)
InOrder == lost => raced \/ peak = NBUFFERS
=============================================================================
