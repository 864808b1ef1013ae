----------------------------- MODULE GuiWindows -----------------------------
(***************************************************************************)
(* What Emulator::gui_tick() promises to the rest of the emulator: which   *)
(* screen owns the pad, when the machine is paused and resumed, and on     *)
(* which screens the UI thread may reach into the machine (Board, Memory,  *)
(* TV frame) itself.  The pad, the menu items and the mapping are left     *)
(* out; GuiTick has them and is checked to implement this module, and      *)
(* EmulatorThreads composes this module with the two threads.              *)
(***************************************************************************)

(* The popups of gui_tick().  STATES is the state browser (save and load   *)
(* mode), BROWSER the ROM browser, CENTER the Game Center.                 *)
Windows == {"STATES", "MAPKEYS", "CENTER", "ABOUT", "BROWSER"}
Screens == {"GAME", "MENU"} \cup Windows

(* Windows whose A (or whose finished download) makes the UI thread        *)
(* serialize, restore or replace the machine.                              *)
BoardWindows == {"STATES", "CENTER", "BROWSER"}

VARIABLES
  screen,    \* the first open window in gui_tick()'s branch order
  fresh,     \* the open menu or window has not had a tick since it opened
  paused     \* Board::paused, the latch read at the start of a frame

guiVars == <<screen, fresh, paused>>

GuiTypeOK ==
  /\ screen \in Screens
  /\ fresh \in BOOLEAN
  /\ paused \in BOOLEAN

GuiInit ==
  /\ screen = "GAME"
  /\ fresh = FALSE
  /\ paused = FALSE

(***************************************************************************)
(* One action per outcome of a tick.                                       *)
(***************************************************************************)

(* START in GAME: menu.open(), pause(). *)
OpenMenu ==
  /\ screen = "GAME"
  /\ screen' = "MENU"
  /\ fresh' = TRUE
  /\ paused' = TRUE

(* START or B in the menu: menu.close(), resume(). *)
CloseMenu ==
  /\ screen = "MENU"
  /\ screen' = "GAME"
  /\ fresh' = FALSE
  /\ paused' = FALSE

(* A on a menu item that opens a window in the menu's place. *)
EnterWindow(w) ==
  /\ screen = "MENU"
  /\ screen' = w
  /\ fresh' = TRUE
  /\ UNCHANGED paused

(* START or B in a window: back to the menu, focused on the item. *)
LeaveWindow ==
  /\ screen \in Windows
  /\ screen' = "MENU"
  /\ fresh' = TRUE
  /\ UNCHANGED paused

(* A tick that changes no window: navigation, a held button, a game key. *)
IdleTick ==
  /\ fresh' = FALSE
  /\ UNCHANGED <<screen, paused>>

(* Exit in the menu: the windows stay as they are. *)
ExitTick ==
  /\ screen = "MENU"
  /\ IdleTick

(***************************************************************************)
(* Ticks that touch the machine; never the first tick of a window: the     *)
(* button that opened it is still held, so A is no fresh press, and Save   *)
(* Preview (it reads the TV frame) is not the item a menu opens on and     *)
(* navigation needs the release of a press the menu has seen.              *)
(***************************************************************************)
MayTouchBoard == ~fresh /\ screen \in {"MENU"} \cup BoardWindows

(* Saved, previewed, or refused: the window stays open. *)
TouchAndStay == UNCHANGED guiVars

(* A state or a ROM was loaded: close the windows and resume. *)
TouchAndResume ==
  /\ screen \in BoardWindows
  /\ screen' = "GAME"
  /\ fresh' = FALSE
  /\ paused' = FALSE

(* The Game Center branch handles START/B after a finished download: the   *)
(* refused ROM leaves the machine paused, the loaded one has resumed it,   *)
(* and the menu is opened in both cases.                                   *)
TouchAndLeave ==
  /\ screen = "CENTER"
  /\ screen' = "MENU"
  /\ fresh' = TRUE
  /\ paused' \in {paused, FALSE}

EndTouch == TouchAndStay \/ TouchAndResume \/ TouchAndLeave

PlainTick ==
  \/ OpenMenu
  \/ CloseMenu
  \/ \E w \in Windows : EnterWindow(w)
  \/ LeaveWindow
  \/ IdleTick

GuiNext == PlainTick \/ (MayTouchBoard /\ EndTouch)

GuiSpec == GuiInit /\ [][GuiNext]_guiVars
=============================================================================
