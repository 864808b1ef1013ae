------------------------------- MODULE GuiTick -------------------------------
(***************************************************************************)
(* Emulator::gui_tick(): one step per rendered frame on the UI thread.  It *)
(* derives button edges from two successive pad states and feeds exactly   *)
(* one consumer: an open window, the on-screen keyboard, or the machine    *)
(* through the key mapping.                                                *)
(***************************************************************************)
EXTENDS VirtualKeyboard, FiniteSets, Sequences

CONSTANTS
  Sources,   \* the buttons that the mapping may turn into Vector keys
  Pads       \* bound: the sets of buttons that are ever held together

(* NAV stands for the D-pad.  START and SELECT are never mapped.           *)
Buttons == {"START", "SELECT", "A", "B", "X", "NAV"}

ASSUME TickAssumption ==
  /\ Sources # {}
  /\ Sources \subseteq Buttons \ {"START", "SELECT"}
  /\ Pads \subseteq SUBSET Buttons
  /\ {} \in Pads

BACK == {"START", "B"}

(* gui_tick()'s order of windows; GAME is no open window.                  *)
WindowOrder == <<"STATES", "MAPKEYS", "CENTER", "ABOUT", "BROWSER", "MENU">>

Items == <<"LOAD_ROM", "SAVE_PREVIEW", "SAVE_STATE", "LOAD_STATE",
           "MAP_KEYS", "GAME_CENTER", "ABOUT", "EXIT">>
ItemOf(name) == CHOOSE i \in DOMAIN Items : Items[i] = name

Fetches == {"NONE", "CATALOG", "PREVIEW", "ROM", "ROM_PREVIEW"}
Mappings == [Sources -> Keys \cup {"none"}]

VARIABLES
  open,        \* the open flags of the menu and of the windows
  item,        \* the menu's selected item; it outlives the menu while the
               \* window it opened is up (and says there if it saves or loads)
  fresh,       \* the open window has not been updated since its open()
  waiting,     \* Map Keys waits for a key (wait_src >= 0)
  source,      \* Map Keys: the selected source
  mapping,     \* KeyMap::effective_key
  dialog,      \* the modal dialog: "off", shown by the last tick, or "on"
  yes,         \* the dialog's selection
  fetch_kind,  \* what the Game Center is downloading
  listed,      \* its catalog has entries
  list_prev,   \* prev_pad of Map Keys (NAV) or of the Game Center (A)
  vkbd,        \* the on-screen keyboard
  keys,        \* the Vector keys down, once the engine has the queued events
  gui_input_muted,
  gui_old_mapped,
  gui_prev_held,
  gui_paused,
  gui_quit,
  touched      \* the last tick worked on the machine: saved, loaded, previewed

mapVars == <<waiting, source, mapping>>
centerVars == <<dialog, yes, fetch_kind, listed>>
feedVars == <<vkbd, keys>>
windowVars == <<open, item, fresh, list_prev>>
inputVars == <<gui_input_muted, gui_old_mapped, gui_prev_held>>
vars == <<windowVars, mapVars, centerVars, feedVars, inputVars, gui_paused, gui_quit, touched>>

FirstSource == CHOOSE s \in Sources : TRUE

Screen ==
  IF open = {} THEN "GAME"
  ELSE WindowOrder[CHOOSE i \in DOMAIN WindowOrder :
                     /\ WindowOrder[i] \in open
                     /\ \A j \in 1..(i - 1) : WindowOrder[j] \notin open]

TypeOK ==
  /\ open \subseteq {WindowOrder[i] : i \in DOMAIN WindowOrder}
  /\ item \in DOMAIN Items
  /\ fresh \in BOOLEAN
  /\ waiting \in BOOLEAN
  /\ source \in Sources
  /\ mapping \in Mappings
  /\ dialog \in {"off", "new", "on"}
  /\ yes \in BOOLEAN
  /\ fetch_kind \in Fetches
  /\ listed \in BOOLEAN
  /\ list_prev \subseteq {"A", "NAV"}
  /\ vkbd \in KeyboardStates
  /\ keys \subseteq Keys
  /\ gui_input_muted \in BOOLEAN
  /\ gui_old_mapped \subseteq Sources
  /\ gui_prev_held \in Pads
  /\ gui_paused \in BOOLEAN
  /\ gui_quit \in BOOLEAN
  /\ touched \in BOOLEAN

Init ==
  /\ open = {}
  /\ item = ItemOf("LOAD_ROM")
  /\ fresh = FALSE
  /\ waiting = FALSE
  /\ source = FirstSource
  /\ mapping \in Mappings
  /\ dialog = "off"
  /\ yes = FALSE
  /\ fetch_kind = "NONE"
  /\ listed = FALSE
  /\ list_prev = {}
  /\ vkbd = [visible |-> FALSE, selected |-> "blank", keys_down |-> {},
             sticky_down |-> NoStickies]
  /\ keys = {}
  /\ gui_input_muted = FALSE
  /\ gui_old_mapped = {}
  /\ gui_prev_held = {}
  /\ gui_paused = FALSE
  /\ gui_quit = FALSE
  /\ touched = FALSE

-----------------------------------------------------------------------------
(* The branch of gui_tick(); the event loop ends with the tick of Exit.     *)
On(window) == Screen = window /\ ~gui_quit

Pressed(b) == b \ gui_prev_held
Backs(b) == Pressed(b) \cap BACK # {}

(* keyup_edge(), for the menu and for a list.  reset_input_state() empties *)
(* prev_pad when a window opens; a list's is not updated while the picker  *)
(* or the dialog has the pad.                                              *)
MenuKeyUp(button, b) == ~fresh /\ button \in gui_prev_held \ b
ListKeyUp(button, b) == button \in list_prev \ b

PauseForgotten == UNCHANGED gui_paused
pause == gui_paused' = TRUE
resume == gui_paused' = FALSE

(* MainMenu::open() does nothing when the menu is open already.            *)
OpenMenu(closed, focus) ==
  /\ open' = (open \ closed) \cup {"MENU"}
  /\ item' = IF "MENU" \in open THEN item ELSE focus
  /\ fresh' = TRUE
  /\ list_prev' = {}

InsteadOfMenu(w) == (open \ {"MENU"}) \cup {w}

(* Closing to the GAME.  The menu's item is not read until it is opened    *)
(* again, which starts on the first item.                                  *)
CloseToGame(w) ==
  /\ open' = open \ {w, "MENU"}
  /\ item' = ItemOf("LOAD_ROM")
  /\ fresh' = FALSE
  /\ list_prev' = {}

StayOpen == fresh' = FALSE /\ UNCHANGED <<open, item>>

StayOpenOn(name) ==
  /\ fresh' = FALSE
  /\ item' = ItemOf(name)
  /\ UNCHANGED <<open, list_prev>>

EndsUnmuted(b) ==
  /\ gui_prev_held' = b
  /\ UNCHANGED <<gui_input_muted, gui_old_mapped>>
EndsMuted(b) ==
  /\ gui_input_muted' = TRUE
  /\ gui_prev_held' = b
  /\ UNCHANGED gui_old_mapped

Injects(up, down) == keys' = (keys \ up) \cup down

-----------------------------------------------------------------------------
(* STATE_BROWSER: A saves, or loads; a load may be refused.                *)
StatesTick(b) ==
  /\ On("STATES")
  /\ \/ Backs(b) /\ OpenMenu({"STATES"}, item) /\ UNCHANGED gui_paused
     \/ /\ ~Backs(b)
        /\ "A" \in Pressed(b)
        /\ Items[item] = "LOAD_STATE"
        /\ CloseToGame("STATES")
        /\ resume
     \/ ~Backs(b) /\ StayOpen /\ UNCHANGED <<list_prev, gui_paused>>
  /\ touched' = (~Backs(b) /\ "A" \in Pressed(b))
  /\ EndsMuted(b)
  /\ UNCHANGED <<mapVars, centerVars, feedVars, gui_quit>>

(* MAP_KEYS: the list of sources, and the on-screen keyboard as a picker.  *)
(* The sink of set_gui() takes the first key pressed and releases the      *)
(* picker; releases still go to the machine, presses do not.               *)
Lands(r) == r.down # {}

PickerFeedsMachine(r) == Injects(r.up, r.down)
PickerSink(r) == Injects(r.up \cup (IF Lands(r) THEN release_all(r.kb).up ELSE {}), {})

CancelLeavesPicker(r, b) ==
  IF Lands(r) THEN vkbd' = hide(r.kb).kb ELSE vkbd' = r.kb
HidePicker(r, b) ==
  IF Lands(r) \/ Backs(b) THEN vkbd' = hide(r.kb).kb ELSE vkbd' = r.kb

PickerTick(b) ==
  /\ On("MAPKEYS")
  /\ waiting
  /\ \E r \in update(vkbd, b, gui_prev_held) :
       /\ PickerSink(r)
       /\ HidePicker(r, b)
       /\ \/ /\ \E k \in r.down : mapping' = [mapping EXCEPT ![source] = k]
             /\ waiting' = FALSE
          \/ ~Lands(r) /\ Backs(b) /\ waiting' = FALSE /\ UNCHANGED mapping
          \/ ~Lands(r) /\ ~Backs(b) /\ UNCHANGED <<mapping, waiting>>
  /\ StayOpen
  /\ EndsMuted(b)
  /\ touched' = FALSE
  /\ UNCHANGED <<list_prev, source, centerVars, gui_paused, gui_quit>>

mapkey_close_action ==
  /\ OpenMenu({"MAPKEYS"}, ItemOf("MAP_KEYS"))
  /\ source' = FirstSource
  /\ IF vkbd.visible
     THEN LET r == hide(vkbd) IN vkbd' = r.kb /\ Injects(r.up, r.down)
     ELSE UNCHANGED feedVars
  /\ UNCHANGED <<mapping, waiting>>

MapKeysTick(b) ==
  /\ On("MAPKEYS")
  /\ ~waiting
  /\ \/ Backs(b) /\ mapkey_close_action
     \/ /\ ~Backs(b)
        /\ StayOpen
        /\ source' \in (IF ListKeyUp("NAV", b) THEN Sources ELSE {source})
        /\ list_prev' = b \cap {"NAV"}
        /\ \/ /\ "A" \in Pressed(b)
              /\ waiting' = TRUE
              /\ vkbd' = show(vkbd)
              /\ UNCHANGED <<mapping, keys>>
           \/ /\ Pressed(b) \cap {"A", "X"} = {"X"}
              /\ mapping' = [mapping EXCEPT ![source'] = "none"]
              /\ UNCHANGED <<waiting, feedVars>>
           \/ /\ Pressed(b) \cap {"A", "X"} = {}
              /\ UNCHANGED <<mapping, waiting, feedVars>>
  /\ EndsMuted(b)
  /\ touched' = FALSE
  /\ UNCHANGED <<centerVars, gui_paused, gui_quit>>

-----------------------------------------------------------------------------
(* GAME_CENTER.  poll_fetch() reaps a finished download: at most the next  *)
(* request of the same ROM follows, and rom_ready is consumed by the same  *)
(* tick.  A fetch record: the download after it, whether the catalog has   *)
(* entries, and whether a ROM is ready.                                    *)
Polled(kind, hasEntries, ready) == [kind |-> kind, listed |-> hasEntries, ready |-> ready]

poll_fetch ==
  {Polled(fetch_kind, listed, FALSE)} \cup
  CASE fetch_kind = "CATALOG" -> {Polled("NONE", l, FALSE) : l \in BOOLEAN}
    [] fetch_kind = "PREVIEW" -> {Polled("NONE", listed, FALSE)}
    [] fetch_kind = "ROM" -> {Polled("NONE", listed, FALSE),
                              Polled("NONE", listed, TRUE),
                              Polled("ROM_PREVIEW", listed, FALSE)}
    [] fetch_kind = "ROM_PREVIEW" -> {Polled("NONE", listed, TRUE)}
    [] OTHER -> {}

(* The list answers to the pad only when it has entries and no download    *)
(* runs; a settled selection starts its preview.                           *)
Interactive(p) == p.kind = "NONE" /\ p.listed
AfterUpdate(p) == IF Interactive(p) THEN {"NONE", "PREVIEW"} ELSE {p.kind}
LoadRequested(p, b) == Interactive(p) /\ ListKeyUp("A", b)

(* close() cancels the download.  It leaves the list for open() to empty;   *)
(* nobody reads it in between, so it is emptied here.                      *)
CenterClose(p) == fetch_kind' = "NONE" /\ listed' = FALSE

(* load_rom() ends with the defaults and the new ROM's own .key file.      *)
load_rom == mapping' \in Mappings /\ UNCHANGED <<waiting, source>>

StaysFrozen == UNCHANGED gui_paused
ResumeAfterLoad == resume

(* What became of the ROM, then START or B, which close the window that a  *)
(* loaded ROM may have closed just before.                                 *)
CenterTick(b) ==
  /\ On("CENTER")
  /\ dialog = "off"
  /\ \E p \in poll_fetch, loaded \in BOOLEAN :
       /\ loaded => p.ready
       /\ dialog' = IF LoadRequested(p, b) THEN "new" ELSE "off"
       /\ yes' = FALSE
       /\ touched' = p.ready
       /\ IF loaded THEN load_rom /\ ResumeAfterLoad ELSE UNCHANGED <<mapVars, gui_paused>>
       /\ \/ /\ Backs(b)
             /\ OpenMenu({"CENTER"} \cup (IF loaded THEN {"MENU"} ELSE {}),
                         ItemOf("GAME_CENTER"))
             /\ CenterClose(p)
          \/ /\ ~Backs(b)
             /\ loaded
             /\ CloseToGame("CENTER")
             /\ CenterClose(p)
          \/ /\ ~Backs(b)
             /\ ~loaded
             /\ StayOpen
             /\ list_prev' = b \cap {"A"}
             /\ fetch_kind' \in AfterUpdate(p)
             /\ listed' = p.listed
  /\ EndsMuted(b)
  /\ UNCHANGED <<feedVars, gui_quit>>

(* The dialog reacts to releases; NAV moves between YES and NO, A takes    *)
(* the selection, B is NO.  YES downloads the selected entry's ROM file.   *)
DialogTick(b) ==
  /\ On("CENTER")
  /\ dialog # "off"
  /\ LET prev == IF dialog = "new" THEN {} ELSE gui_prev_held
         ups == prev \ b
     IN  /\ yes' \in (IF "NAV" \in ups THEN BOOLEAN ELSE {yes})
         /\ dialog' = IF ups \cap {"A", "B"} # {} THEN "off" ELSE "on"
         /\ fetch_kind' \in
              (IF "A" \in ups /\ "B" \notin ups /\ yes' /\ listed
               THEN {fetch_kind, "ROM"} ELSE {fetch_kind})
  /\ StayOpen
  /\ EndsMuted(b)
  /\ touched' = FALSE
  /\ UNCHANGED <<list_prev, mapVars, listed, feedVars, gui_paused, gui_quit>>

-----------------------------------------------------------------------------
AboutTick(b) ==
  /\ On("ABOUT")
  /\ \/ Backs(b) /\ OpenMenu({"ABOUT"}, ItemOf("ABOUT"))
     \/ ~Backs(b) /\ StayOpen /\ UNCHANGED list_prev
  /\ EndsMuted(b)
  /\ touched' = FALSE
  /\ UNCHANGED <<mapVars, centerVars, feedVars, gui_paused, gui_quit>>

(* A loads the selected ROM; an empty list or an unreadable file stays.    *)
BrowserTick(b) ==
  /\ On("BROWSER")
  /\ \/ /\ Backs(b)
        /\ OpenMenu({"BROWSER"}, ItemOf("LOAD_ROM"))
        /\ UNCHANGED <<mapVars, gui_paused>>
     \/ /\ ~Backs(b)
        /\ "A" \in Pressed(b)
        /\ load_rom
        /\ CloseToGame("BROWSER")
        /\ resume
     \/ /\ ~Backs(b)
        /\ StayOpen
        /\ UNCHANGED <<list_prev, mapVars, gui_paused>>
  /\ touched' = (~Backs(b) /\ "A" \in Pressed(b))
  /\ EndsMuted(b)
  /\ UNCHANGED <<centerVars, feedVars, gui_quit>>

-----------------------------------------------------------------------------
(* MAIN MENU: navigation first, then START and B, then A.                  *)
Below(i) == (i % Len(Items)) + 1
Above(i) == IF i = 1 THEN Len(Items) ELSE i - 1
Navigated(b) == IF MenuKeyUp("NAV", b) THEN {item, Below(item), Above(item)} ELSE {item}

(* What A opens from the menu, by item. *)
WindowOf(name) ==
  CASE name = "LOAD_ROM" -> "BROWSER"
    [] name \in {"SAVE_STATE", "LOAD_STATE"} -> "STATES"
    [] name = "MAP_KEYS" -> "MAPKEYS"
    [] name = "GAME_CENTER" -> "CENTER"
    [] name = "ABOUT" -> "ABOUT"

Activate(name) ==
  CASE name = "SAVE_PREVIEW" ->
         StayOpenOn(name) /\ UNCHANGED <<fetch_kind, gui_quit>>
    [] name = "EXIT" ->
         StayOpenOn(name) /\ gui_quit' = TRUE /\ UNCHANGED fetch_kind
    [] OTHER ->
         /\ open' = InsteadOfMenu(WindowOf(name))
         /\ item' = ItemOf(name)
         /\ fresh' = TRUE
         /\ list_prev' = {}
         /\ fetch_kind' = IF name = "GAME_CENTER" THEN "CATALOG" ELSE fetch_kind
         /\ UNCHANGED gui_quit

MenuTick(b) ==
  /\ On("MENU")
  /\ \E i \in Navigated(b) :
       \/ /\ Backs(b)
          /\ CloseToGame("MENU")
          /\ resume
          /\ UNCHANGED <<fetch_kind, gui_quit>>
       \/ /\ ~Backs(b)
          /\ "A" \in Pressed(b)
          /\ Activate(Items[i])
          /\ UNCHANGED gui_paused
       \/ /\ ~Backs(b)
          /\ "A" \notin Pressed(b)
          /\ StayOpenOn(Items[i])
          /\ UNCHANGED <<fetch_kind, gui_quit, gui_paused>>
  /\ touched' = (~Backs(b) /\ "A" \in Pressed(b) /\ Items[item'] = "SAVE_PREVIEW")
  /\ EndsMuted(b)
  /\ UNCHANGED <<mapVars, dialog, yes, listed, feedVars>>

-----------------------------------------------------------------------------
(* GAME.  The mapping turns the held buttons into Vector keys.             *)
Mapped(b) == {s \in Sources \cap b : mapping[s] # "none"}
KeysOf(ss) == {mapping[s] : s \in ss}

(* release_held_game_keys() looks at the buttons of this tick.             *)
release_held_game_keys(b) == KeysOf(Mapped(b))

GameStart(b) ==
  /\ On("GAME")
  /\ "START" \in Pressed(b)
  /\ IF vkbd.visible
     THEN LET r == hide(vkbd) IN vkbd' = r.kb /\ Injects(r.up, r.down)
     ELSE Injects(release_held_game_keys(b), {}) /\ UNCHANGED vkbd
  /\ OpenMenu({}, ItemOf("LOAD_ROM"))
  /\ pause
  /\ EndsUnmuted(b)
  /\ touched' = FALSE
  /\ UNCHANGED <<mapVars, centerVars, gui_quit>>

(* SELECT shows the keyboard, which ignores what is held; or hides it, and *)
(* the tick goes on to feed the machine.                                   *)
GameKeyboard(b) ==
  /\ On("GAME")
  /\ "START" \notin Pressed(b)
  /\ \/ /\ vkbd.visible
        /\ "SELECT" \notin Pressed(b)
        /\ \E r \in update(vkbd, b, gui_prev_held) :
             vkbd' = r.kb /\ Injects(r.up, r.down)
     \/ /\ ~vkbd.visible
        /\ "SELECT" \in Pressed(b)
        /\ vkbd' = show(vkbd)
        /\ Injects(release_held_game_keys(b), {})
  /\ EndsMuted(b)
  /\ touched' = FALSE
  /\ UNCHANGED <<windowVars, mapVars, centerVars, gui_paused, gui_quit>>

FeedsAtOnce(b) == gui_old_mapped
FedBefore(b) == IF gui_input_muted THEN Mapped(b) ELSE gui_old_mapped

(* Edges against what was fed before; sources are taken in their order, so *)
(* a key that one source presses and another releases may end up either    *)
(* way.                                                                    *)
Feed(b, hidden) ==
  LET downs == KeysOf(Mapped(b) \ FedBefore(b))
      ups == KeysOf(FedBefore(b) \ Mapped(b))
  IN  /\ \E last \in SUBSET (downs \cap ups) :
           keys' = (((keys \ hidden) \ ups) \cup downs) \ last
      /\ gui_old_mapped' = Mapped(b)
      /\ gui_input_muted' = FALSE
      /\ gui_prev_held' = b

GameFeed(b) ==
  /\ On("GAME")
  /\ "START" \notin Pressed(b)
  /\ \/ ~vkbd.visible /\ "SELECT" \notin Pressed(b) /\ Feed(b, {}) /\ UNCHANGED vkbd
     \/ /\ vkbd.visible
        /\ "SELECT" \in Pressed(b)
        /\ LET r == hide(vkbd) IN vkbd' = r.kb /\ Feed(b, r.up)
  /\ touched' = FALSE
  /\ UNCHANGED <<windowVars, mapVars, centerVars, gui_paused, gui_quit>>

Next == \E b \in Pads :
  \/ StatesTick(b) \/ PickerTick(b) \/ MapKeysTick(b) \/ CenterTick(b)
  \/ DialogTick(b) \/ AboutTick(b) \/ BrowserTick(b) \/ MenuTick(b)
  \/ GameStart(b) \/ GameKeyboard(b) \/ GameFeed(b)

Spec == Init /\ [][Next]_vars

-----------------------------------------------------------------------------
(* A frozen machine always has a window that can resume it: nothing closes *)
(* the last window without resume().                                       *)
FrozenHasWindow == gui_paused => open # {}

(* The on-screen keyboard over a window is the key picker, visible exactly *)
(* while Map Keys waits for a key (gui_tick, MAP_KEYS).                    *)
PickerIsVisible ==
  /\ vkbd.visible => open = {} \/ ("MAPKEYS" \in open /\ waiting)
  /\ waiting => vkbd.visible

(* No window ever presses a Vector key, not even Map Keys, whose picker is *)
(* the keyboard that presses them in the game.                             *)
WindowsPressNothing == [][open # {} => keys' \subseteq keys]_vars

(* A Vector key goes down only for a button that goes down in this very    *)
(* tick: buttons held across the closing of a window, and keys remapped    *)
(* meanwhile, stay silent until pressed again.                             *)
FreshPressOnly ==
  [][\A k \in keys' \ keys :
       \E s \in gui_prev_held' \ gui_prev_held :
         \/ vkbd.visible /\ s = "A"
         \/ s \in Sources /\ mapping[s] = k]_vars

(* What GuiWindows promises to the threads.                                *)
GW == INSTANCE GuiWindows WITH screen <- Screen, paused <- gui_paused
ImplementsGuiWindows == GW!GuiSpec

-----------------------------------------------------------------------------
(* emulator.cpp, release_held_game_keys(): "so opening the menu or the     *)
(* VKBD never leaves a key stuck".                                         *)
NoStuckKey == "MENU" \in open => keys = {}

(* emulator.cpp, gui_tick(), MAIN MENU state: "The machine stays paused."  *)
(* Not kept: a ROM that lands in the tick of B or START resumes it first.  *)
MenuIsPaused == "MENU" \in open => gui_paused
=============================================================================
