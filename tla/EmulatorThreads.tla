--------------------------- MODULE EmulatorThreads ---------------------------
(***************************************************************************)
(* The threads of the emulator and the two queues between them.            *)
(*                                                                         *)
(* The UI thread (Emulator::run_event_loop) waits for SDL events and for   *)
(* RENDER events, and runs gui_tick() once per rendered frame.  The engine *)
(* thread (Emulator::threadfunc) takes EXECUTE_FRAME, key and QUIT events  *)
(* from a FIFO.  The frame clock is the audio callback, the SDL timer when *)
(* there is no sound, or the UI thread itself when there is neither sound  *)
(* nor video.                                                              *)
(***************************************************************************)
EXTENDS Naturals, Sequences, GuiWindows

CONSTANTS
  Clocks,       \* the frame clocks to consider, a subset of ClockKinds
  MaxPending    \* bound: the keyboard queues no event beyond this length and
                \* the clock at most one more, so that keys never starve it

ClockKinds == {"audio", "timer", "kick"}

ASSUME ThreadsAssumption ==
  /\ Clocks \subseteq ClockKinds
  /\ MaxPending \in Nat \ {0}

(* KEY stands for every key that only changes the keyboard matrix; RESET   *)
(* for F11 and F12 (board.reset), STOP for the Pause key.                  *)
KeyEvents == {"KEY", "RESET", "STOP"}
EngineEvents == {"EXECUTE_FRAME", "QUIT"} \cup KeyEvents

VARIABLES
  ui_to_engine_queue,  \* boost::sync_queue, FIFO
  engine_to_ui_queue,  \* boost::sync_priority_queue: the data of the RENDERs in it
  enginePc,            \* where threadfunc() is
  firstEvent,          \* i == 0 in threadfunc()
  terminate,           \* Keyboard::terminate
  uiPc,                \* where run_event_loop() is
  kickstart,           \* the first EXPOSED event has not come yet
  audioOn,             \* the SDL audio device runs and its callback fires
  clock,               \* the frame clock of this run of the program
  debugged             \* a GDB client is attached and may hold the CPU

threadVars == <<ui_to_engine_queue, engine_to_ui_queue, enginePc, firstEvent,
                terminate, uiPc, kickstart, audioOn, clock, debugged>>
vars == <<guiVars, threadVars>>

(* live: inside Board::execute_frame; frozen: a frame skipped because of   *)
(* the pause latch; reset: inside Board::reset called from a key event;    *)
(* unmute: about to start the audio device after the first event.          *)
EnginePcs == {"pull", "live", "frozen", "reset", "unmute", "done"}

(* tick: a RENDER was pulled; access: inside gui_tick(), working on the    *)
(* machine; stop: the loop has ended; join: waiting for the engine;        *)
(* returned: main() has destroyed the Emulator and its queues.             *)
UiPcs == {"wait", "tick", "access", "stop", "join", "returned"}

TypeOK ==
  /\ GuiTypeOK
  /\ ui_to_engine_queue \in Seq(EngineEvents)
  /\ engine_to_ui_queue \in SUBSET {0, 1}
  /\ enginePc \in EnginePcs
  /\ firstEvent \in BOOLEAN
  /\ terminate \in BOOLEAN
  /\ uiPc \in UiPcs
  /\ kickstart \in BOOLEAN
  /\ audioOn \in BOOLEAN
  /\ clock \in ClockKinds
  /\ debugged \in BOOLEAN

(***************************************************************************)
(* run_event_loop() primes the engine with one frame, and with a second    *)
(* one when it is its own clock.                                           *)
(***************************************************************************)
Init ==
  /\ GuiInit
  /\ clock \in Clocks
  /\ ui_to_engine_queue = IF clock = "kick"
                          THEN <<"EXECUTE_FRAME", "EXECUTE_FRAME">>
                          ELSE <<"EXECUTE_FRAME">>
  /\ engine_to_ui_queue = {}
  /\ enginePc = "pull"
  /\ firstEvent = TRUE
  /\ terminate = FALSE
  /\ uiPc = "wait"
  /\ kickstart = TRUE
  /\ audioOn = FALSE
  /\ debugged \in BOOLEAN

(***************************************************************************)
(* The frame clock: Soundnik::callback or the SDL timer.  pause_sound()    *)
(* stops the audio device; nothing ever removes the SDL timer.             *)
(***************************************************************************)
ClockRuns == (clock = "audio" /\ audioOn) \/ clock = "timer"

timer_callback ==
  /\ ClockRuns
  /\ uiPc # "returned"
  /\ Len(ui_to_engine_queue) <= MaxPending
  /\ ui_to_engine_queue' = Append(ui_to_engine_queue, "EXECUTE_FRAME")
  /\ UNCHANGED <<guiVars, engine_to_ui_queue, enginePc, firstEvent, terminate,
                 uiPc, kickstart, audioOn, clock, debugged>>

(***************************************************************************)
(* The engine thread.                                                      *)
(***************************************************************************)
AfterEvent == IF firstEvent THEN "unmute" ELSE "pull"

TakeEvent(e) ==
  /\ enginePc = "pull"
  /\ ~terminate
  /\ ui_to_engine_queue # <<>>
  /\ Head(ui_to_engine_queue) = e
  /\ ui_to_engine_queue' = Tail(ui_to_engine_queue)

(* EXECUTE_FRAME: the pause latch is read once, at the start of the frame. *)
StartFrame ==
  /\ TakeEvent("EXECUTE_FRAME")
  /\ enginePc' = IF paused THEN "frozen" ELSE "live"
  /\ UNCHANGED <<guiVars, engine_to_ui_queue, firstEvent, terminate, uiPc,
                 kickstart, audioOn, clock, debugged>>

FrozenReportsNothing(executed) ==
  IF enginePc = "frozen" THEN executed = 0 ELSE executed = 0 => debugged
MayReport(executed) == executed = 0 => enginePc = "live" /\ debugged

FrameNumberAsData(executed) == 2
RenderData(executed) == executed

(* The end of a frame: RENDER carries 1, or 0 when the debugger held the   *)
(* CPU before the frame began.                                             *)
EndFrame ==
  /\ enginePc \in {"live", "frozen"}
  /\ \E executed \in {0, 1} :
       /\ MayReport(executed)
       /\ engine_to_ui_queue' = engine_to_ui_queue \cup {RenderData(executed)}
  /\ enginePc' = AfterEvent
  /\ UNCHANGED <<guiVars, ui_to_engine_queue, firstEvent, terminate, uiPc,
                 kickstart, audioOn, clock, debugged>>

handle_keydown ==
  /\ \/ TakeEvent("KEY") /\ enginePc' = AfterEvent /\ UNCHANGED terminate
     \/ TakeEvent("RESET") /\ enginePc' = "reset" /\ UNCHANGED terminate
     \/ TakeEvent("STOP") /\ enginePc' = AfterEvent /\ terminate' = TRUE
  /\ UNCHANGED <<guiVars, engine_to_ui_queue, firstEvent, uiPc, kickstart,
                 audioOn, clock, debugged>>

EndReset ==
  /\ enginePc = "reset"
  /\ enginePc' = AfterEvent
  /\ UNCHANGED <<guiVars, ui_to_engine_queue, engine_to_ui_queue, firstEvent,
                 terminate, uiPc, kickstart, audioOn, clock, debugged>>

handle_quit_lost ==
  /\ TakeEvent("QUIT")
  /\ enginePc' = AfterEvent
  /\ UNCHANGED <<guiVars, engine_to_ui_queue, firstEvent, terminate, uiPc,
                 kickstart, audioOn, clock, debugged>>
handle_quit ==
  /\ TakeEvent("QUIT")
  /\ terminate' = TRUE
  /\ enginePc' = AfterEvent
  /\ UNCHANGED <<guiVars, engine_to_ui_queue, firstEvent, uiPc, kickstart,
                 audioOn, clock, debugged>>

UnmuteNever == FALSE
UnmuteValue == clock = "audio"

(* After the first event threadfunc() calls board.pause_sound(0). *)
Unmute ==
  /\ enginePc = "unmute"
  /\ enginePc' = "pull"
  /\ firstEvent' = FALSE
  /\ audioOn' = UnmuteValue
  /\ UNCHANGED <<guiVars, ui_to_engine_queue, engine_to_ui_queue, terminate,
                 uiPc, kickstart, clock, debugged>>

EngineExit ==
  /\ enginePc = "pull"
  /\ terminate
  /\ enginePc' = "done"
  /\ UNCHANGED <<guiVars, ui_to_engine_queue, engine_to_ui_queue, firstEvent,
                 terminate, uiPc, kickstart, audioOn, clock, debugged>>

Engine == StartFrame \/ EndFrame \/ handle_keydown \/ EndReset \/ handle_quit
          \/ Unmute \/ EngineExit

(***************************************************************************)
(* The UI thread: SDL events.                                              *)
(***************************************************************************)
KeyDown ==
  /\ uiPc = "wait"
  /\ Len(ui_to_engine_queue) < MaxPending
  /\ \E k \in KeyEvents :
       ui_to_engine_queue' = Append(ui_to_engine_queue, k)
  /\ UNCHANGED <<guiVars, engine_to_ui_queue, enginePc, firstEvent, terminate,
                 uiPc, kickstart, audioOn, clock, debugged>>

WindowExposed ==
  /\ uiPc = "wait"
  /\ kickstart
  /\ kickstart' = FALSE
  /\ ui_to_engine_queue' = Append(ui_to_engine_queue, "EXECUTE_FRAME")
  /\ UNCHANGED <<guiVars, engine_to_ui_queue, enginePc, firstEvent, terminate,
                 uiPc, audioOn, clock, debugged>>

QuitEvent ==
  /\ uiPc = "wait"
  /\ uiPc' = "stop"
  /\ ui_to_engine_queue' = Append(ui_to_engine_queue, "QUIT")
  /\ UNCHANGED <<guiVars, engine_to_ui_queue, enginePc, firstEvent, terminate,
                 kickstart, audioOn, clock, debugged>>

(***************************************************************************)
(* The UI thread: RENDER events.  wait_event() pulls one and then drains   *)
(* the queue; the event handed on is the last one pulled, and the heap of  *)
(* a priority queue whose elements all compare equal may pop any of them   *)
(* last.  Hence a set of data values stands for the queue.  A RENDER that  *)
(* carries 0 is dropped by handle_render().                                *)
(***************************************************************************)
KeepsStale == engine_to_ui_queue
Drained == {}

wait_event ==
  /\ uiPc = "wait"
  /\ \E data \in engine_to_ui_queue :
       uiPc' = IF data = 0 THEN "wait" ELSE "tick"
  /\ engine_to_ui_queue' = Drained
  /\ UNCHANGED <<guiVars, ui_to_engine_queue, enginePc, firstEvent, terminate,
                 kickstart, audioOn, clock, debugged>>

(* The rest of handle_render() after gui_tick(): kick the next frame when  *)
(* the UI is the clock, then QUIT if max_frame was reached.  Exit in the   *)
(* menu has pushed its own QUIT before the kick.                           *)
KickUnlessPaused == IF clock = "kick" /\ ~paused
                    THEN <<"EXECUTE_FRAME">> ELSE <<>>
Kick == IF clock = "kick" THEN <<"EXECUTE_FRAME">> ELSE <<>>

RenderAndGo ==
  \/ /\ uiPc' = "wait"
     /\ ui_to_engine_queue' = ui_to_engine_queue \o Kick
  \/ /\ uiPc' = "stop"
     /\ ui_to_engine_queue' = ui_to_engine_queue \o Kick \o <<"QUIT">>

TickFrame == UNCHANGED <<engine_to_ui_queue, enginePc, firstEvent, terminate,
                         kickstart, audioOn, clock, debugged>>

gui_tick ==
  /\ uiPc = "tick"
  /\ PlainTick
  /\ RenderAndGo
  /\ TickFrame

GuiExit ==
  /\ uiPc = "tick"
  /\ ExitTick
  /\ uiPc' = "stop"
  /\ \E second \in {<<>>, <<"QUIT">>} :
       ui_to_engine_queue' = ui_to_engine_queue \o <<"QUIT">> \o Kick \o second
  /\ TickFrame

(* The part of gui_tick() that serializes, restores or replaces the        *)
(* machine takes time during which the engine thread keeps going.          *)
BeginAccess ==
  /\ uiPc = "tick"
  /\ MayTouchBoard
  /\ uiPc' = "access"
  /\ UNCHANGED <<guiVars, ui_to_engine_queue, engine_to_ui_queue, enginePc,
                 firstEvent, terminate, kickstart, audioOn, clock, debugged>>

EndAccess ==
  /\ uiPc = "access"
  /\ EndTouch
  /\ RenderAndGo
  /\ TickFrame

(***************************************************************************)
(* The end of run_event_loop(): pause_sound(1), join, return to main().    *)
(***************************************************************************)
StopSound ==
  /\ uiPc = "stop"
  /\ uiPc' = "join"
  /\ audioOn' = FALSE
  /\ UNCHANGED <<guiVars, ui_to_engine_queue, engine_to_ui_queue, enginePc,
                 firstEvent, terminate, kickstart, clock, debugged>>

join_emulator_thread ==
  /\ uiPc = "join"
  /\ enginePc = "done"
  /\ uiPc' = "returned"
  /\ UNCHANGED <<guiVars, ui_to_engine_queue, engine_to_ui_queue, enginePc,
                 firstEvent, terminate, kickstart, audioOn, clock, debugged>>

UserInput == KeyDown \/ WindowExposed \/ QuitEvent
RenderLoop == wait_event \/ gui_tick \/ GuiExit \/ BeginAccess \/ EndAccess
Shutdown == StopSound \/ join_emulator_thread

Next == timer_callback \/ Engine \/ UserInput \/ RenderLoop \/ Shutdown

(***************************************************************************)
(* Both threads keep running and the clock keeps firing; nobody is obliged *)
(* to press anything.  WF on RenderLoop as a whole: once a RENDER is there *)
(* the loop takes it and finishes the tick.                                *)
(***************************************************************************)
Fairness ==
  /\ WF_vars(timer_callback)
  /\ WF_vars(Engine)
  /\ WF_vars(RenderLoop)
  /\ WF_vars(Shutdown)

Spec == Init /\ [][Next]_vars
FairSpec == Spec /\ Fairness

-----------------------------------------------------------------------------
LiveFrame == enginePc = "live"
Stopping == terminate \/ uiPc \in {"stop", "join", "returned"}
HeadlessDebug == clock = "kick" /\ debugged

(* No handshake tells the UI thread that the engine has seen the pause     *)
(* latch, and the frame that was running when the menu opened runs to its  *)
(* end.  Still, whenever gui_tick() serializes, restores or replaces a     *)
(* paused machine, no frame is running: every earlier RENDER is drained    *)
(* before the tick that opens a window, and the next tick needs a newer    *)
(* one (wait_event, gui_tick, execute_frame_with_cadence).                 *)
PausedMeansStill == uiPc = "access" /\ paused => ~LiveFrame

(* Why that holds: as long as a frame that was started before the pause is *)
(* still running, no RENDER newer than the menu can have been taken, and   *)
(* the one tick an older RENDER can still buy is the first tick of the     *)
(* menu, in which gui_tick() does not reach the machine.                   *)
LiveWhilePaused ==
  paused /\ LiveFrame =>
    /\ uiPc # "access"
    /\ uiPc = "tick" => fresh /\ engine_to_ui_queue = {}
    /\ uiPc = "wait" => fresh \/ engine_to_ui_queue = {}

(* Without sound and video each handled RENDER kicks the next frame: the   *)
(* chain is never broken, although wait_event() throws RENDERs away.       *)
KickChainAlive ==
  clock = "kick" /\ ~debugged /\ ~Stopping =>
    \/ "EXECUTE_FRAME" \in {ui_to_engine_queue[i] : i \in DOMAIN ui_to_engine_queue}
    \/ enginePc \in {"live", "frozen"}
    \/ engine_to_ui_queue # {}
    \/ uiPc \in {"tick", "access"}

(* Once the event loop has ended, run_event_loop() returns: the engine     *)
(* works through whatever is queued before QUIT and the join succeeds.     *)
QuitJoins == uiPc = "stop" ~> uiPc = "returned"

(* A paused machine keeps producing RENDERs, so the menu that paused it    *)
(* keeps getting ticks (the early return 1 of execute_frame_with_cadence). *)
PausedGuiTicks == paused ~> (uiPc = "tick" \/ ~paused \/ Stopping \/ HeadlessDebug)

(* A machine that is not paused runs a frame, unless it is paused again,   *)
(* stopped, or held by the debugger with no clock left.                    *)
ResumeRuns == ~paused ~> (LiveFrame \/ paused \/ Stopping \/ HeadlessDebug)

-----------------------------------------------------------------------------
(* emulator.cpp, run_event_loop(): the audio callback is stopped before    *)
(* the join, because one "firing during/after teardown would lock a        *)
(* destroyed mutex and abort".  Not kept: the engine's first event may     *)
(* start it afterwards.                                                    *)
NoClockAfterTeardown == uiPc = "returned" => ~ClockRuns

(* emulator.cpp, state_save_action(): "Runs on the UI thread while the     *)
(* machine is paused, so the Board cannot change mid-serialize".  Not      *)
(* kept: a queued F11 or F12 resets a paused machine.                      *)
BoardStillDuringAccess ==
  uiPc = "access" /\ screen = "STATES" /\ paused => enginePc \notin {"live", "reset"}
=============================================================================
