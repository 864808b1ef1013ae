------------------------ MODULE EmulatorThreadsProofs ------------------------
(***************************************************************************)
(* Proofs about EmulatorThreads for every set of frame clocks and every    *)
(* bound on the queue: the type invariant, PausedMeansStill and            *)
(* KickChainAlive.                                                         *)
(***************************************************************************)
EXTENDS EmulatorThreads, TLAPS

(* What is in a queue, whatever its position. *)
Queued(q) == {q[i] : i \in DOMAIN q}

(* Appending keeps what is queued and adds the new event. *)
LEMMA QueuedAppend ==
  ASSUME NEW S, NEW q \in Seq(S), NEW e \in S
  PROVE  Append(q, e) \in Seq(S) /\ Queued(Append(q, e)) = Queued(q) \cup {e}
<1>1. Append(q, e) \in Seq(S)
  OBVIOUS
<1>2. ASSUME NEW x \in Queued(Append(q, e)) PROVE x \in Queued(q) \cup {e}
  <2>1. PICK i \in 1..(Len(q) + 1) : x = Append(q, e)[i]
    BY <1>2 DEF Queued
  <2>2. CASE i = Len(q) + 1
    BY <2>1, <2>2
  <2>3. CASE i \in 1..Len(q)
    <3>1. x = q[i]
      BY <2>1, <2>3
    <3> QED
      BY <3>1, <2>3 DEF Queued
  <2> QED
    BY <2>2, <2>3
<1>3. ASSUME NEW x \in Queued(q) PROVE x \in Queued(Append(q, e))
  <2>1. PICK i \in 1..Len(q) : x = q[i]
    BY <1>3 DEF Queued
  <2>2. i \in 1..Len(Append(q, e)) /\ x = Append(q, e)[i]
    BY <2>1
  <2> QED
    BY <1>1, <2>2 DEF Queued
<1>4. e \in Queued(Append(q, e))
  <2>1. Len(q) + 1 \in 1..Len(Append(q, e)) /\ Append(q, e)[Len(q) + 1] = e
    OBVIOUS
  <2> QED
    BY <1>1, <2>1 DEF Queued
<1> QED
  BY <1>1, <1>2, <1>3, <1>4

(* Taking the head loses nothing but an event equal to it. *)
LEMMA QueuedTail ==
  ASSUME NEW S, NEW q \in Seq(S), q # <<>>
  PROVE  /\ Tail(q) \in Seq(S)
         /\ Head(q) \in S
         /\ \A x \in Queued(q) : x = Head(q) \/ x \in Queued(Tail(q))
<1>1. Tail(q) \in Seq(S) /\ Head(q) \in S
  OBVIOUS
<1>2. ASSUME NEW x \in Queued(q), x # Head(q) PROVE x \in Queued(Tail(q))
  <2>1. PICK i \in 1..Len(q) : x = q[i]
    BY <1>2 DEF Queued
  <2>2. i # 1
    BY <1>2, <2>1
  <2>3. i - 1 \in 1..Len(Tail(q)) /\ Tail(q)[i - 1] = q[i]
    BY <2>1, <2>2
  <2>4. x = Tail(q)[i - 1] /\ i - 1 \in DOMAIN Tail(q)
    BY <1>1, <2>1, <2>3
  <2> QED
    BY <2>4 DEF Queued
<1> QED
  BY <1>1, <1>2

(* Concatenation keeps both sides. *)
LEMMA QueuedConcat ==
  ASSUME NEW S, NEW q \in Seq(S), NEW r \in Seq(S)
  PROVE  q \o r \in Seq(S) /\ Queued(q) \cup Queued(r) \subseteq Queued(q \o r)
<1>1. q \o r \in Seq(S) /\ Len(q \o r) = Len(q) + Len(r)
  OBVIOUS
<1>2. ASSUME NEW x \in Queued(q) PROVE x \in Queued(q \o r)
  <2>1. PICK i \in 1..Len(q) : x = q[i]
    BY <1>2 DEF Queued
  <2>2. i \in 1..Len(q \o r) /\ (q \o r)[i] = x
    BY <2>1
  <2> QED
    BY <1>1, <2>2 DEF Queued
<1>3. ASSUME NEW x \in Queued(r) PROVE x \in Queued(q \o r)
  <2>1. PICK i \in 1..Len(r) : x = r[i]
    BY <1>3 DEF Queued
  <2>2. Len(q) + i \in 1..Len(q \o r) /\ (q \o r)[Len(q) + i] = x
    BY <2>1
  <2> QED
    BY <1>1, <2>2 DEF Queued
<1> QED
  BY <1>1, <1>2, <1>3

(* The kick after a RENDER is one frame for a running headless machine. *)
LEMMA KickEvents ==
  /\ Kick \in Seq(EngineEvents)
  /\ clock = "kick" => Kick = <<"EXECUTE_FRAME">>
<1>1. <<>> \in Seq(EngineEvents)
  OBVIOUS
<1>2. "EXECUTE_FRAME" \in EngineEvents
  BY DEF EngineEvents
<1>3. <<"EXECUTE_FRAME">> \in Seq(EngineEvents)
  BY <1>2
<1> QED
  BY <1>1, <1>3 DEF Kick

-----------------------------------------------------------------------------
(* gui_tick() keeps its own types, whatever the tick does. *)
LEMMA GuiTypes ==
  ASSUME GuiTypeOK, GuiNext \/ ExitTick \/ EndTouch \/ UNCHANGED guiVars
  PROVE  GuiTypeOK'
<1> USE DEF GuiTypeOK, Screens, Windows, guiVars
<1>1. CASE PlainTick
  BY <1>1 DEF PlainTick, OpenMenu, CloseMenu, EnterWindow, LeaveWindow, IdleTick
<1>2. CASE EndTouch
  BY <1>2 DEF EndTouch, TouchAndStay, TouchAndResume, TouchAndLeave
<1>3. CASE ExitTick \/ UNCHANGED guiVars
  BY <1>3 DEF ExitTick, IdleTick
<1> QED
  BY <1>1, <1>2, <1>3 DEF GuiNext

(* Every step of the two threads, the clock and the user keeps the types,  *)
(* in particular of the two queues.                                        *)
LEMMA TypeStep ==
  ASSUME TypeOK, [Next]_vars
  PROVE  TypeOK'
<1> USE DEF TypeOK, EnginePcs, UiPcs
<1>0. /\ "EXECUTE_FRAME" \in EngineEvents
      /\ "QUIT" \in EngineEvents
      /\ KeyEvents \subseteq EngineEvents
  BY DEF EngineEvents
<1>1. CASE timer_callback
  BY <1>0, <1>1, GuiTypes, QueuedAppend DEF timer_callback
<1>2. CASE StartFrame
  BY <1>2, GuiTypes, QueuedTail DEF StartFrame, TakeEvent
<1>3. CASE EndFrame
  BY <1>3, GuiTypes DEF EndFrame, MayReport, RenderData, AfterEvent
<1>4. CASE handle_keydown
  BY <1>4, GuiTypes, QueuedTail DEF handle_keydown, TakeEvent, AfterEvent
<1>5. CASE EndReset
  BY <1>5, GuiTypes DEF EndReset, AfterEvent
<1>6. CASE handle_quit
  BY <1>6, GuiTypes, QueuedTail DEF handle_quit, TakeEvent, AfterEvent
<1>7. CASE Unmute
  BY <1>7, GuiTypes DEF Unmute, UnmuteValue
<1>8. CASE EngineExit
  BY <1>8, GuiTypes DEF EngineExit
<1>9. CASE KeyDown
  BY <1>0, <1>9, GuiTypes, QueuedAppend DEF KeyDown
<1>10. CASE WindowExposed
  BY <1>0, <1>10, GuiTypes, QueuedAppend DEF WindowExposed
<1>11. CASE QuitEvent
  BY <1>0, <1>11, GuiTypes, QueuedAppend DEF QuitEvent
<1>12. CASE wait_event
  BY <1>12, GuiTypes DEF wait_event, Drained
<1>13. /\ <<"QUIT">> \in Seq(EngineEvents)
       /\ <<>> \in Seq(EngineEvents)
  BY <1>0
<1>14. ASSUME RenderAndGo
       PROVE  /\ ui_to_engine_queue' \in Seq(EngineEvents)
              /\ uiPc' \in UiPcs
  <2>1. ui_to_engine_queue \o Kick \in Seq(EngineEvents)
    BY KickEvents
  <2>2. ui_to_engine_queue \o Kick \o <<"QUIT">> \in Seq(EngineEvents)
    BY <1>13, <2>1
  <2> QED
    BY <1>14, <2>1, <2>2 DEF RenderAndGo
<1>15. CASE gui_tick
  BY <1>14, <1>15, GuiTypes DEF gui_tick, TickFrame, GuiNext
<1>16. CASE GuiExit
  <2>1. PICK second \in {<<>>, <<"QUIT">>} :
          ui_to_engine_queue' = ui_to_engine_queue \o <<"QUIT">> \o Kick \o second
    BY <1>16 DEF GuiExit
  <2>2. ui_to_engine_queue \o <<"QUIT">> \in Seq(EngineEvents)
    BY <1>13
  <2>3. ui_to_engine_queue \o <<"QUIT">> \o Kick \in Seq(EngineEvents)
    BY <2>2, KickEvents
  <2>4. second \in Seq(EngineEvents)
    BY <1>13, <2>1
  <2>5. ui_to_engine_queue' \in Seq(EngineEvents)
    BY <2>1, <2>3, <2>4
  <2> QED
    BY <1>16, <2>5, GuiTypes DEF GuiExit, TickFrame
<1>17. CASE BeginAccess
  BY <1>17, GuiTypes DEF BeginAccess
<1>18. CASE EndAccess
  BY <1>14, <1>18, GuiTypes DEF EndAccess, TickFrame
<1>19. CASE StopSound
  BY <1>19, GuiTypes DEF StopSound
<1>20. CASE join_emulator_thread
  BY <1>20, GuiTypes DEF join_emulator_thread
<1>21. CASE UNCHANGED vars
  BY <1>21, GuiTypes DEF vars, threadVars
<1> QED
  BY <1>1, <1>2, <1>3, <1>4, <1>5, <1>6, <1>7, <1>8, <1>9, <1>10, <1>11, <1>12,
     <1>15, <1>16, <1>17, <1>18, <1>19, <1>20, <1>21
     DEF Next, Engine, UserInput, RenderLoop, Shutdown

(* The types of the queues, the program counters and the flags hold in     *)
(* every reachable state: RENDER carries 0 or 1 and nothing else, and only *)
(* the events handle_threadevent() knows are queued for the engine.        *)
THEOREM TypeCorrect == Spec => []TypeOK
<1>1. Init => TypeOK
  <2> SUFFICES ASSUME Init PROVE TypeOK
    OBVIOUS
  <2>1. <<"EXECUTE_FRAME">> \in Seq(EngineEvents)
        /\ <<"EXECUTE_FRAME", "EXECUTE_FRAME">> \in Seq(EngineEvents)
    <3>1. "EXECUTE_FRAME" \in EngineEvents
      BY DEF EngineEvents
    <3> QED
      BY <3>1
  <2> QED
    BY <2>1, ThreadsAssumption
       DEF Init, TypeOK, GuiInit, GuiTypeOK, Screens, EnginePcs, UiPcs
<1> QED
  BY <1>1, TypeStep, PTL DEF Spec

-----------------------------------------------------------------------------
(* The strengthening is inductive.  Only a step of the UI thread can make  *)
(* its antecedent true (the menu opens while a frame runs) and only the    *)
(* end of that frame puts a newer RENDER into the queue.                   *)
LEMMA LiveWhilePausedStep ==
  ASSUME LiveWhilePaused, [Next]_vars
  PROVE  LiveWhilePaused'
<1> USE DEF LiveWhilePaused, LiveFrame, guiVars
<1>1. CASE timer_callback
  BY <1>1 DEF timer_callback
<1>2. CASE StartFrame
  BY <1>2 DEF StartFrame
<1>3. CASE EndFrame
  BY <1>3 DEF EndFrame, AfterEvent
<1>4. CASE handle_keydown \/ EndReset \/ handle_quit
  BY <1>4 DEF handle_keydown, EndReset, handle_quit, AfterEvent
<1>5. CASE Unmute \/ EngineExit
  BY <1>5 DEF Unmute, EngineExit
<1>6. CASE KeyDown \/ WindowExposed \/ QuitEvent
  BY <1>6 DEF KeyDown, WindowExposed, QuitEvent
<1>7. CASE wait_event
  BY <1>7 DEF wait_event, Drained
<1>8. CASE gui_tick
  <2>1. uiPc = "tick" /\ uiPc' \in {"wait", "stop"} /\ TickFrame
    BY <1>8 DEF gui_tick, RenderAndGo
  <2>2. CASE OpenMenu
    BY <2>1, <2>2 DEF OpenMenu, TickFrame
  <2>3. CASE CloseMenu
    BY <2>1, <2>3 DEF CloseMenu, TickFrame
  <2>4. CASE (\E w \in Windows : EnterWindow(w)) \/ LeaveWindow \/ IdleTick
    BY <2>1, <2>4 DEF EnterWindow, LeaveWindow, IdleTick, TickFrame
  <2> QED
    BY <1>8, <2>2, <2>3, <2>4 DEF gui_tick, PlainTick
<1>9. CASE GuiExit
  BY <1>9 DEF GuiExit, ExitTick, IdleTick, TickFrame
<1>10. CASE BeginAccess
  BY <1>10 DEF BeginAccess, MayTouchBoard, BoardWindows
<1>11. CASE EndAccess
  BY <1>11 DEF EndAccess, EndTouch, TouchAndStay, TouchAndResume, TouchAndLeave,
               RenderAndGo, TickFrame
<1>12. CASE StopSound \/ join_emulator_thread
  BY <1>12 DEF StopSound, join_emulator_thread
<1>13. CASE UNCHANGED vars
  BY <1>13 DEF vars, threadVars
<1> QED
  BY <1>1, <1>2, <1>3, <1>4, <1>5, <1>6, <1>7, <1>8, <1>9, <1>10, <1>11, <1>12,
     <1>13 DEF Next, Engine, UserInput, RenderLoop, Shutdown

(* LiveWhilePaused holds in every reachable state.                         *)
THEOREM LiveWhilePausedHolds == Spec => []LiveWhilePaused
<1>1. Init => LiveWhilePaused
  BY DEF Init, GuiInit, LiveWhilePaused, LiveFrame
<1> QED
  BY <1>1, LiveWhilePausedStep, PTL DEF Spec

(* When gui_tick() works on a paused machine, no frame is running: the     *)
(* pause latch, the drain in wait_event() and the key-up navigation of the *)
(* menu are enough, without any handshake with the engine thread.          *)
THEOREM NoFrameDuringAccess == Spec => []PausedMeansStill
<1>1. LiveWhilePaused => PausedMeansStill
  BY DEF LiveWhilePaused, PausedMeansStill
<1> QED
  BY <1>1, LiveWhilePausedHolds, PTL

-----------------------------------------------------------------------------
(* KickChainAlive says that one of four places holds the next link of the  *)
(* chain.  wait_event() may drop every RENDER but one, and handle_render() *)
(* drops a RENDER that carries 0, so the strengthening is that without a   *)
(* debugger no RENDER carries 0.                                           *)
NoIdleRender == debugged \/ 0 \notin engine_to_ui_queue

LEMMA NoIdleRenderStep ==
  ASSUME NoIdleRender, [Next]_vars
  PROVE  NoIdleRender'
<1> USE DEF NoIdleRender
<1>1. CASE EndFrame
  BY <1>1 DEF EndFrame, MayReport, RenderData
<1>2. CASE wait_event
  BY <1>2 DEF wait_event, Drained
<1>3. CASE gui_tick \/ GuiExit \/ BeginAccess \/ EndAccess
  BY <1>3 DEF gui_tick, GuiExit, BeginAccess, EndAccess, TickFrame
<1>4. CASE timer_callback \/ UserInput \/ Shutdown
  BY <1>4 DEF timer_callback, UserInput, KeyDown, WindowExposed, QuitEvent,
              Shutdown, StopSound, join_emulator_thread
<1>5. CASE StartFrame \/ handle_keydown \/ EndReset \/ handle_quit \/ Unmute
           \/ EngineExit
  BY <1>5 DEF StartFrame, handle_keydown, EndReset, handle_quit, Unmute,
              EngineExit
<1>6. CASE UNCHANGED vars
  BY <1>6 DEF vars, threadVars
<1> QED
  BY <1>1, <1>2, <1>3, <1>4, <1>5, <1>6 DEF Next, Engine, RenderLoop

(* The link is a queued frame, a frame in the engine's hands, a RENDER, or *)
(* a tick that has not kicked yet.                                         *)
Link ==
  \/ "EXECUTE_FRAME" \in Queued(ui_to_engine_queue)
  \/ enginePc \in {"live", "frozen"}
  \/ engine_to_ui_queue # {}
  \/ uiPc \in {"tick", "access"}

LEMMA KickChainIsLink ==
  KickChainAlive <=> (clock = "kick" /\ ~debugged /\ ~Stopping => Link)
BY DEF KickChainAlive, Link, Queued

(* Whoever queues an event leaves the queued frames where they are.        *)
LEMMA KickChainStep ==
  ASSUME TypeOK, NoIdleRender, KickChainAlive, [Next]_vars
  PROVE  KickChainAlive'
<1> SUFFICES ASSUME clock' = "kick", ~debugged', ~Stopping'
             PROVE  Link'
  BY DEF KickChainAlive, Link, Queued
<1> USE DEF Stopping
<1>1. clock' = clock /\ debugged' = debugged /\ (terminate => terminate')
  BY DEF Next, Engine, UserInput, RenderLoop, Shutdown, timer_callback,
         StartFrame, EndFrame, handle_keydown, EndReset, handle_quit, Unmute,
         EngineExit, KeyDown, WindowExposed, QuitEvent, wait_event, gui_tick,
         GuiExit, BeginAccess, EndAccess, TickFrame, StopSound,
         join_emulator_thread, vars, threadVars
<1>2. uiPc \in {"stop", "join", "returned"} => uiPc' \in {"stop", "join", "returned"}
  BY DEF Next, Engine, UserInput, RenderLoop, Shutdown, timer_callback,
         StartFrame, EndFrame, handle_keydown, EndReset, handle_quit, Unmute,
         EngineExit, KeyDown, WindowExposed, QuitEvent, wait_event, gui_tick,
         GuiExit, BeginAccess, EndAccess, TickFrame, StopSound,
         join_emulator_thread, vars, threadVars
<1>3. clock = "kick" /\ ~debugged /\ ~Stopping /\ Link
  BY <1>1, <1>2, KickChainIsLink
<1>4. ui_to_engine_queue \in Seq(EngineEvents) /\ "EXECUTE_FRAME" \in EngineEvents
      /\ "QUIT" \in EngineEvents /\ KeyEvents \subseteq EngineEvents
  BY DEF TypeOK, EngineEvents
<1>5. CASE timer_callback
  BY <1>3, <1>4, <1>5, QueuedAppend DEF timer_callback, Link
<1>6. CASE StartFrame
  BY <1>6 DEF StartFrame, Link
<1>7. CASE EndFrame
  BY <1>7 DEF EndFrame, Link
<1>8. CASE handle_keydown
  <2>1. /\ ui_to_engine_queue # <<>>
        /\ Head(ui_to_engine_queue) # "EXECUTE_FRAME"
        /\ ui_to_engine_queue' = Tail(ui_to_engine_queue)
        /\ enginePc = "pull"
        /\ UNCHANGED <<engine_to_ui_queue, uiPc>>
    BY <1>8 DEF handle_keydown, TakeEvent
  <2> QED
    BY <1>3, <1>4, <2>1, QueuedTail DEF Link
<1>9. CASE EndReset \/ Unmute \/ EngineExit
  BY <1>3, <1>9 DEF EndReset, Unmute, EngineExit, Link
<1>10. CASE handle_quit
  BY <1>10 DEF handle_quit
<1>11. CASE KeyDown
  BY <1>3, <1>4, <1>11, QueuedAppend DEF KeyDown, Link
<1>12. CASE WindowExposed
  BY <1>4, <1>12, QueuedAppend DEF WindowExposed, Link
<1>13. CASE QuitEvent
  BY <1>13 DEF QuitEvent
<1>14. CASE wait_event
  BY <1>3, <1>14 DEF wait_event, NoIdleRender, Link
<1>15. CASE gui_tick \/ EndAccess
  <2>1. ui_to_engine_queue' = ui_to_engine_queue \o Kick
    BY <1>15 DEF gui_tick, EndAccess, RenderAndGo
  <2>2. Kick \in Seq(EngineEvents) /\ "EXECUTE_FRAME" \in Queued(Kick)
    BY <1>3, KickEvents DEF Queued
  <2> QED
    BY <1>4, <2>1, <2>2, QueuedConcat DEF Link
<1>16. CASE GuiExit
  BY <1>16 DEF GuiExit
<1>17. CASE BeginAccess
  BY <1>17 DEF BeginAccess, Link
<1>18. CASE StopSound \/ join_emulator_thread
  BY <1>18 DEF StopSound, join_emulator_thread
<1>19. CASE UNCHANGED vars
  BY <1>3, <1>19 DEF vars, threadVars, Link
<1> QED
  BY <1>5, <1>6, <1>7, <1>8, <1>9, <1>10, <1>11, <1>12, <1>13, <1>14, <1>15,
     <1>16, <1>17, <1>18, <1>19
     DEF Next, Engine, UserInput, RenderLoop, Shutdown

(* With neither sound nor video, and no debugger, the emulator never runs  *)
(* out of frames to execute before it is told to stop.                     *)
THEOREM KickChainNeverBreaks == Spec => []KickChainAlive
<1>1. Init => NoIdleRender /\ KickChainAlive
  <2> SUFFICES ASSUME Init PROVE NoIdleRender /\ KickChainAlive
    OBVIOUS
  <2>1. clock = "kick" => "EXECUTE_FRAME" \in Queued(ui_to_engine_queue)
    BY DEF Init, Queued
  <2> QED
    BY <2>1, KickChainIsLink DEF Init, NoIdleRender, Link
<1>2. NoIdleRender /\ KickChainAlive /\ TypeOK /\ [Next]_vars
      => (NoIdleRender /\ KickChainAlive)'
  BY NoIdleRenderStep, KickChainStep
<1> QED
  BY <1>1, <1>2, TypeCorrect, PTL DEF Spec
=============================================================================
