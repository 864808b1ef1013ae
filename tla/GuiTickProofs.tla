----------------------------- MODULE GuiTickProofs -----------------------------
(***************************************************************************)
(* The properties of the tick, for any keys, mappable buttons and sets of  *)
(* buttons that are held together, and the proof that the tick implements  *)
(* GuiWindows.                                                             *)
(***************************************************************************)
EXTENDS GuiTick, TLAPS

-----------------------------------------------------------------------------
(* The on-screen keyboard                                                  *)

(* What an operation on the keyboard returns.                              *)
Sound(kb, r) ==
  /\ r.kb \in KeyboardStates
  /\ r.kb.visible = kb.visible
  /\ r.up \subseteq Keys
  /\ r.down \subseteq Keys

LEMMA LatchedKeys == \A kb \in KeyboardStates : Latched(kb) \subseteq Keys
BY DEF KeyboardStates, Latched

LEMMA StickiesOff == NoStickies \in [1..StickySlots -> Keys \cup {"none"}]
BY DEF NoStickies

LEMMA HideSound ==
  ASSUME NEW kb \in KeyboardStates
  PROVE  /\ hide(kb).kb \in KeyboardStates /\ ~hide(kb).kb.visible
         /\ hide(kb).up \subseteq Keys /\ hide(kb).down = {}
         /\ release_all(kb).up \subseteq Keys
BY LatchedKeys, StickiesOff DEF hide, release_all, Sent, KeyboardStates

LEMMA ShowSound ==
  ASSUME NEW kb \in KeyboardStates
  PROVE  show(kb) \in KeyboardStates /\ show(kb).visible
BY DEF show, KeyboardStates

LEMMA KeyUpSound ==
  ASSUME NEW kb \in KeyboardStates
  PROVE  Sound(kb, key_up(kb)) /\ key_up(kb).down = {}
BY LatchedKeys, StickiesOff DEF key_up, Sent, Sound, KeyboardStates

LEMMA ToggleSound ==
  ASSUME NEW kb \in KeyboardStates, kb.selected \in Keys
  PROVE  Sound(kb, toggle_sticky(kb))
<1> DEFINE fits == {i \in 1..StickySlots : kb.sticky_down[i] \in {kb.selected, "none"}}
           first == CHOOSE i \in fits : \A j \in fits : i <= j
           latch(k) == [kb EXCEPT !.sticky_down[first] = k]
<1>1. \A k \in Keys \cup {"none"} : latch(k) \in KeyboardStates /\ latch(k).visible = kb.visible
  BY DEF KeyboardStates
<1>2. toggle_sticky(kb) \in {Sent(kb, {}, {}), Sent(latch("none"), {kb.selected}, {}),
                            Sent(latch(kb.selected), {}, {kb.selected})}
  BY DEF toggle_sticky
<1>3. latch("none") \in KeyboardStates /\ latch("none").visible = kb.visible
  BY <1>1
<1>4. latch(kb.selected) \in KeyboardStates /\ latch(kb.selected).visible = kb.visible
  BY <1>1
<1> HIDE DEF latch, first
<1> QED
  BY <1>2, <1>3, <1>4 DEF Sent, Sound

LEMMA KeyDownSound ==
  ASSUME NEW kb \in KeyboardStates
  PROVE  Sound(kb, key_down(kb))
<1>1. CASE kb.selected \notin Keys \/ kb.selected \in kb.keys_down
  BY <1>1 DEF key_down, Sent, Sound, KeyboardStates
<1>2. CASE kb.selected \in StickyKeys
  BY <1>2, ToggleSound, KeyboardAssumption
  DEF KeyboardAssumption, key_down, Sent, Sound, KeyboardStates
<1>3. CASE kb.selected \in Keys \ StickyKeys /\ kb.selected \notin kb.keys_down
  BY <1>3, KeyboardAssumption DEF KeyboardAssumption, key_down, Sent, Sound, KeyboardStates
<1> QED
  BY <1>1, <1>2, <1>3, KeyboardAssumption DEF KeyboardAssumption

(* An input step hides nothing, and presses a key only on a fresh press of *)
(* A while the keyboard is visible.                                        *)
LEMMA UpdateSound ==
  ASSUME NEW kb \in KeyboardStates, NEW pad, NEW prev, NEW r \in update(kb, pad, prev)
  PROVE  Sound(kb, r) /\ (r.down # {} => kb.visible /\ "A" \in pad \ prev)
<1>1. CASE ~kb.visible
  BY <1>1 DEF update, Sent, Sound
<1>2. CASE kb.visible
  <2>0. PICK moves \in Moves(pad, prev) : \E m \in Moved(kb, moves) : r = PressOrRelease(m, pad, prev)
    BY <1>2 DEF update
  <2>1. PICK m \in Moved(kb, moves) : r = PressOrRelease(m, pad, prev)
    BY <2>0
  <2>2. m.kb \in KeyboardStates /\ m.kb.visible = kb.visible /\ m.up \subseteq Keys
    <3>1. CASE ~moves
      BY <3>1, <2>1 DEF Moved, Sent
    <3>2. CASE moves
      <4>1. PICK k \in Keys \cup {"blank"} :
              m = Sent([key_up(kb).kb EXCEPT !.selected = k], key_up(kb).up, {})
        BY <2>1, <3>2 DEF Moved
      <4>2. Sound(kb, key_up(kb))
        BY KeyUpSound
      <4> QED
        BY <4>1, <4>2 DEF Sent, Sound, KeyboardStates
    <3> QED
      BY <3>1, <3>2
  <2>3. /\ Sound(m.kb, key_down(m.kb)) /\ Sound(m.kb, key_up(m.kb))
        /\ key_up(m.kb).down = {}
    BY <2>2, KeyDownSound, KeyUpSound
  <2> QED
    BY <1>2, <2>1, <2>2, <2>3 DEF PressOrRelease, Sound, Sent
<1> QED
  BY <1>1, <1>2

-----------------------------------------------------------------------------
(* The invariant                                                           *)

AllWindows == {"STATES", "MAPKEYS", "CENTER", "ABOUT", "BROWSER", "MENU"}

(* A window takes the place of the one before it.                          *)
OneWindow == \A v, w \in open : v = w

(* A window that has just opened has been opened by a button that is still *)
(* held (A, but for the menu); and the Game Center fetches its catalog.    *)
FreshInv ==
  fresh => /\ open # {}
           /\ "MENU" \notin open => "A" \in gui_prev_held
           /\ "CENTER" \in open => fetch_kind = "CATALOG"

WindowInv ==
  /\ OneWindow
  /\ FrozenHasWindow
  /\ PickerIsVisible
  /\ waiting => "MAPKEYS" \in open
  /\ FreshInv

(* In the game, and unless a window or the keyboard had the pad last, the  *)
(* machine was fed what the held buttons map to.                           *)
FedInv == open = {} /\ ~gui_input_muted => Mapped(gui_prev_held) = gui_old_mapped

IInv == TypeOK /\ WindowInv /\ FedInv

(* gui_tick()'s order does not matter with at most one window.             *)
ScreenOf(ws) ==
  IF ws = {} THEN "GAME"
  ELSE WindowOrder[CHOOSE i \in DOMAIN WindowOrder :
                     /\ WindowOrder[i] \in ws
                     /\ \A j \in 1..(i - 1) : WindowOrder[j] \notin ws]

LEMMA WindowsInOrder ==
  /\ {WindowOrder[i] : i \in DOMAIN WindowOrder} = AllWindows
  /\ \A i, j \in DOMAIN WindowOrder : WindowOrder[i] = WindowOrder[j] => i = j
  /\ DOMAIN WindowOrder = 1..6
<1>1. DOMAIN WindowOrder = 1..6
  BY DEF WindowOrder
<1>2. /\ WindowOrder[1] = "STATES" /\ WindowOrder[2] = "MAPKEYS" /\ WindowOrder[3] = "CENTER"
      /\ WindowOrder[4] = "ABOUT" /\ WindowOrder[5] = "BROWSER" /\ WindowOrder[6] = "MENU"
  BY DEF WindowOrder
<1>3. \A i : i \in 1..6 <=> i \in {1, 2, 3, 4, 5, 6}
  OBVIOUS
<1> QED
  BY <1>1, <1>2, <1>3 DEF AllWindows

LEMMA ScreenOfOne ==
  ASSUME NEW w \in AllWindows
  PROVE  ScreenOf({w}) = w
<1> DEFINE First(i) == /\ WindowOrder[i] \in {w}
                       /\ \A j \in 1..(i - 1) : WindowOrder[j] \notin {w}
<1>1. PICK i \in DOMAIN WindowOrder : WindowOrder[i] = w
  BY WindowsInOrder
<1>2. First(i)
  BY <1>1, WindowsInOrder
<1>3. First(CHOOSE k \in DOMAIN WindowOrder : First(k))
  BY <1>1, <1>2
<1> QED
  BY <1>3 DEF ScreenOf

LEMMA ScreenIs ==
  ASSUME NEW ws \in SUBSET AllWindows, \A v, w \in ws : v = w
  PROVE  /\ ScreenOf(ws) = "GAME" <=> ws = {}
         /\ \A w \in AllWindows : ScreenOf(ws) = w <=> ws = {w}
         /\ ScreenOf(ws) \in AllWindows \cup {"GAME"}
<1>1. CASE ws = {}
  BY <1>1 DEF ScreenOf, AllWindows
<1>2. ASSUME NEW w \in ws PROVE ws = {w} /\ ScreenOf(ws) = w
  BY <1>2, ScreenOfOne
<1>3. "GAME" \notin AllWindows
  BY DEF AllWindows
<1> QED
  BY <1>1, <1>2, <1>3

(* The screen of a tick is the only window that is open.                   *)
LEMMA OnWindow ==
  ASSUME IInv
  PROVE  /\ \A w \in AllWindows : On(w) => open = {w}
         /\ On("GAME") => open = {}
<1>1. open \in SUBSET AllWindows /\ \A v, w \in open : v = w
  BY WindowsInOrder DEF IInv, TypeOK, WindowInv, OneWindow
<1>2. Screen = ScreenOf(open)
  BY DEF Screen, ScreenOf
<1> QED
  BY <1>1, <1>2, ScreenIs DEF On

LEMMA ItemsAre ==
  /\ DOMAIN Items = 1..8 /\ Len(Items) = 8
  /\ Items[1] = "LOAD_ROM" /\ Items[2] = "SAVE_PREVIEW" /\ Items[3] = "SAVE_STATE"
  /\ Items[4] = "LOAD_STATE" /\ Items[5] = "MAP_KEYS" /\ Items[6] = "GAME_CENTER"
  /\ Items[7] = "ABOUT" /\ Items[8] = "EXIT"
  /\ \A i \in DOMAIN Items : ItemOf(Items[i]) \in DOMAIN Items
<1>1. DOMAIN Items = 1..8 /\ Len(Items) = 8
  BY DEF Items
<1>2. /\ Items[1] = "LOAD_ROM" /\ Items[2] = "SAVE_PREVIEW" /\ Items[3] = "SAVE_STATE"
      /\ Items[4] = "LOAD_STATE" /\ Items[5] = "MAP_KEYS" /\ Items[6] = "GAME_CENTER"
      /\ Items[7] = "ABOUT" /\ Items[8] = "EXIT"
  BY DEF Items
<1>3. \A i \in DOMAIN Items : ItemOf(Items[i]) \in DOMAIN Items
  BY DEF ItemOf
<1> QED
  BY <1>1, <1>2, <1>3

LEMMA ItemOfIsItem ==
  \A name \in {"LOAD_ROM", "SAVE_PREVIEW", "SAVE_STATE", "LOAD_STATE", "MAP_KEYS",
               "GAME_CENTER", "ABOUT", "EXIT"} : ItemOf(name) \in DOMAIN Items
<1>1. 1 \in DOMAIN Items /\ 2 \in DOMAIN Items /\ 3 \in DOMAIN Items /\ 4 \in DOMAIN Items
      /\ 5 \in DOMAIN Items /\ 6 \in DOMAIN Items /\ 7 \in DOMAIN Items /\ 8 \in DOMAIN Items
  BY ItemsAre
<1> QED
  BY <1>1, ItemsAre

LEMMA NavigatedIsItem ==
  ASSUME item \in DOMAIN Items, NEW b
  PROVE  Navigated(b) \subseteq DOMAIN Items
BY ItemsAre DEF Navigated, Below, Above

LEMMA InitInv == Init => IInv
<1> SUFFICES ASSUME Init PROVE IInv
  OBVIOUS
<1>1. FirstSource \in Sources
  BY TickAssumption DEF TickAssumption, FirstSource
<1>2. vkbd \in KeyboardStates /\ ~vkbd.visible
  BY StickiesOff DEF Init, KeyboardStates
<1>3. TypeOK
  BY <1>1, <1>2, ItemOfIsItem, TickAssumption DEF TickAssumption, Init, TypeOK, Fetches
<1>4. WindowInv /\ FedInv
  BY <1>2 DEF Init, WindowInv, OneWindow, FrozenHasWindow, PickerIsVisible, FreshInv, FedInv, Mapped
<1> QED
  BY <1>3, <1>4 DEF IInv

-----------------------------------------------------------------------------
(* The ticks                                                               *)

LEMMA StatesInv == ASSUME IInv, NEW b \in Pads, StatesTick(b) PROVE IInv'
<1>1. open = {"STATES"}
  BY OnWindow DEF StatesTick, AllWindows
<1>2. TypeOK'
  BY ItemOfIsItem, WindowsInOrder
  DEF StatesTick, IInv, TypeOK, OpenMenu, CloseToGame, StayOpen, resume, EndsMuted, AllWindows,
      mapVars, centerVars, feedVars
<1>3. WindowInv' /\ FedInv'
  BY <1>1
  DEF StatesTick, IInv, TypeOK, OpenMenu, CloseToGame, StayOpen, resume, EndsMuted, mapVars,
      centerVars, feedVars, WindowInv, OneWindow, FrozenHasWindow, PickerIsVisible, FreshInv, FedInv
<1> QED
  BY <1>2, <1>3 DEF IInv

LEMMA AboutInv == ASSUME IInv, NEW b \in Pads, AboutTick(b) PROVE IInv'
<1>1. open = {"ABOUT"}
  BY OnWindow DEF AboutTick, AllWindows
<1>2. TypeOK'
  BY ItemOfIsItem, WindowsInOrder
  DEF AboutTick, IInv, TypeOK, OpenMenu, StayOpen, EndsMuted, AllWindows,
      mapVars, centerVars, feedVars
<1>3. WindowInv' /\ FedInv'
  BY <1>1
  DEF AboutTick, IInv, TypeOK, OpenMenu, StayOpen, EndsMuted, mapVars,
      centerVars, feedVars, WindowInv, OneWindow, FrozenHasWindow, PickerIsVisible, FreshInv, FedInv
<1> QED
  BY <1>2, <1>3 DEF IInv

LEMMA BrowserInv == ASSUME IInv, NEW b \in Pads, BrowserTick(b) PROVE IInv'
<1>1. open = {"BROWSER"}
  BY OnWindow DEF BrowserTick, AllWindows
<1>2. TypeOK'
  BY ItemOfIsItem, WindowsInOrder
  DEF BrowserTick, IInv, TypeOK, OpenMenu, CloseToGame, StayOpen, resume, load_rom, EndsMuted,
      AllWindows, mapVars, centerVars, feedVars
<1>3. WindowInv' /\ FedInv'
  BY <1>1
  DEF BrowserTick, IInv, TypeOK, OpenMenu, CloseToGame, StayOpen, resume, load_rom, EndsMuted, mapVars,
      centerVars, feedVars, WindowInv, OneWindow, FrozenHasWindow, PickerIsVisible, FreshInv, FedInv
<1> QED
  BY <1>2, <1>3 DEF IInv

LEMMA CenterInv == ASSUME IInv, NEW b \in Pads, CenterTick(b) PROVE IInv'
<1>1. open = {"CENTER"}
  BY OnWindow DEF CenterTick, AllWindows
<1>2. PICK p \in poll_fetch, loaded \in BOOLEAN :
        /\ dialog' \in {"new", "off"} /\ yes' = FALSE /\ touched' = p.ready
        /\ IF loaded THEN load_rom /\ ResumeAfterLoad ELSE UNCHANGED <<mapVars, gui_paused>>
        /\ \/ \E ws \in SUBSET AllWindows : OpenMenu(ws, ItemOf("GAME_CENTER")) /\ CenterClose(p)
           \/ CloseToGame("CENTER") /\ CenterClose(p)
           \/ /\ StayOpen
              /\ list_prev' = b \cap {"A"}
              /\ fetch_kind' \in AfterUpdate(p)
              /\ listed' = p.listed
  BY DEF CenterTick, AllWindows
<1>3. p.kind \in Fetches /\ p.listed \in BOOLEAN /\ p.ready \in BOOLEAN
  <2>1. fetch_kind \in Fetches /\ listed \in BOOLEAN
    BY DEF IInv, TypeOK
  <2>2. \/ p = Polled(fetch_kind, listed, FALSE)
        \/ \E l \in BOOLEAN, ready \in BOOLEAN : p = Polled("NONE", l, ready)
        \/ p = Polled("ROM_PREVIEW", listed, FALSE)
    <3>1. CASE fetch_kind = "CATALOG"
      BY <2>1, <3>1 DEF poll_fetch
    <3>2. CASE fetch_kind = "ROM"
      BY <2>1, <3>2 DEF poll_fetch
    <3>3. CASE fetch_kind \in {"NONE", "PREVIEW", "ROM_PREVIEW"}
      BY <2>1, <3>3 DEF poll_fetch
    <3> QED
      BY <2>1, <3>1, <3>2, <3>3 DEF Fetches
  <2>3. {fetch_kind, "NONE", "ROM_PREVIEW"} \subseteq Fetches
    BY <2>1 DEF Fetches
  <2>4. ASSUME NEW k \in Fetches, NEW l \in BOOLEAN, NEW ready \in BOOLEAN, p = Polled(k, l, ready)
        PROVE  p.kind \in Fetches /\ p.listed \in BOOLEAN /\ p.ready \in BOOLEAN
    BY <2>4 DEF Polled
  <2> QED
    BY <2>1, <2>2, <2>3, <2>4
<1>4. fetch_kind' \in Fetches /\ listed' \in BOOLEAN /\ list_prev' \subseteq {"A", "NAV"}
  BY <1>2, <1>3 DEF CenterClose, OpenMenu, CloseToGame, AfterUpdate, Fetches
<1>5. item' \in DOMAIN Items /\ fresh' \in BOOLEAN /\ open' \subseteq AllWindows
  BY <1>2, ItemOfIsItem, WindowsInOrder DEF OpenMenu, CloseToGame, StayOpen, AllWindows, IInv, TypeOK
<1>6. waiting' \in BOOLEAN /\ source' \in Sources /\ mapping' \in Mappings /\ gui_paused' \in BOOLEAN
  BY <1>2 DEF load_rom, ResumeAfterLoad, resume, mapVars, IInv, TypeOK
<1>7. TypeOK'
  BY <1>2, <1>3, <1>4, <1>5, <1>6, WindowsInOrder DEF CenterTick, EndsMuted, feedVars, IInv, TypeOK
<1>8. WindowInv' /\ FedInv'
  BY <1>1
  DEF CenterTick, IInv, TypeOK, OpenMenu, CloseToGame, StayOpen, ResumeAfterLoad, resume, load_rom,
      EndsMuted, mapVars, feedVars, WindowInv, OneWindow, FrozenHasWindow, PickerIsVisible, FreshInv,
      FedInv
<1> QED
  BY <1>7, <1>8 DEF IInv

LEMMA DialogInv == ASSUME IInv, NEW b \in Pads, DialogTick(b) PROVE IInv'
<1>1. open = {"CENTER"}
  BY OnWindow DEF DialogTick, AllWindows
<1>2. TypeOK'
  BY WindowsInOrder
  DEF DialogTick, IInv, TypeOK, StayOpen, EndsMuted, AllWindows, mapVars, feedVars, Fetches
<1>3. WindowInv' /\ FedInv'
  BY <1>1
  DEF DialogTick, IInv, TypeOK, StayOpen, EndsMuted, mapVars, feedVars, WindowInv, OneWindow,
      FrozenHasWindow, PickerIsVisible, FreshInv, FedInv
<1> QED
  BY <1>2, <1>3 DEF IInv

LEMMA PickerInv == ASSUME IInv, NEW b \in Pads, PickerTick(b) PROVE IInv'
<1>1. open = {"MAPKEYS"} /\ vkbd \in KeyboardStates
  BY OnWindow DEF PickerTick, AllWindows, IInv, TypeOK
<1>2. PICK r \in update(vkbd, b, gui_prev_held) :
        /\ PickerSink(r)
        /\ HidePicker(r, b)
        /\ \/ /\ \E k \in r.down : mapping' = [mapping EXCEPT ![source] = k]
              /\ waiting' = FALSE
           \/ ~Lands(r) /\ Backs(b) /\ waiting' = FALSE /\ UNCHANGED mapping
           \/ ~Lands(r) /\ ~Backs(b) /\ UNCHANGED <<mapping, waiting>>
  BY DEF PickerTick
<1>3. /\ r.kb \in KeyboardStates /\ r.kb.visible = vkbd.visible /\ r.up \subseteq Keys
      /\ r.down \subseteq Keys
  BY <1>1, UpdateSound DEF Sound
<1>4. vkbd' \in KeyboardStates /\ (Lands(r) \/ Backs(b) <=> ~vkbd'.visible) /\ keys' \subseteq keys
  BY <1>1, <1>2, <1>3, HideSound
  DEF HidePicker, PickerSink, Injects, PickerTick, IInv, WindowInv, PickerIsVisible, TypeOK
<1>5. TypeOK'
  BY <1>2, <1>3, <1>4, WindowsInOrder
  DEF PickerTick, IInv, TypeOK, StayOpen, EndsMuted, centerVars, Mappings
<1>6. WindowInv' /\ FedInv'
  BY <1>1, <1>2, <1>4
  DEF PickerTick, IInv, TypeOK, StayOpen, EndsMuted, centerVars, Lands, WindowInv, OneWindow,
      FrozenHasWindow, PickerIsVisible, FreshInv, FedInv
<1> QED
  BY <1>5, <1>6 DEF IInv

LEMMA MapKeysInv == ASSUME IInv, NEW b \in Pads, MapKeysTick(b) PROVE IInv'
<1>1. open = {"MAPKEYS"} /\ vkbd \in KeyboardStates /\ ~vkbd.visible /\ ~waiting
  BY OnWindow DEF MapKeysTick, AllWindows, IInv, TypeOK, WindowInv, PickerIsVisible
<1>2. show(vkbd) \in KeyboardStates /\ show(vkbd).visible
  BY <1>1, ShowSound
<1>3. FirstSource \in Sources
  BY TickAssumption DEF TickAssumption, FirstSource
<1>4. TypeOK'
  BY <1>1, <1>2, <1>3, ItemOfIsItem, WindowsInOrder
  DEF MapKeysTick, mapkey_close_action, IInv, TypeOK, OpenMenu, StayOpen, EndsMuted, centerVars,
      feedVars, Mappings, AllWindows
<1>5. WindowInv' /\ FedInv'
  BY <1>1, <1>2
  DEF MapKeysTick, mapkey_close_action, IInv, TypeOK, OpenMenu, StayOpen, EndsMuted, centerVars,
      feedVars, WindowInv, OneWindow, FrozenHasWindow, PickerIsVisible, FreshInv, FedInv
<1> QED
  BY <1>4, <1>5 DEF IInv

LEMMA MenuInv == ASSUME IInv, NEW b \in Pads, MenuTick(b) PROVE IInv'
<1>1. open = {"MENU"}
  BY OnWindow DEF MenuTick, AllWindows
<1>2. PICK i \in Navigated(b) :
        \/ /\ Backs(b)
           /\ CloseToGame("MENU")
           /\ resume
           /\ UNCHANGED <<fetch_kind, gui_quit>>
        \/ /\ ~Backs(b)
           /\ "A" \in Pressed(b)
           /\ Activate(Items[i])
           /\ UNCHANGED gui_paused
        \/ /\ ~Backs(b)
           /\ "A" \notin Pressed(b)
           /\ StayOpenOn(Items[i])
           /\ UNCHANGED <<fetch_kind, gui_quit, gui_paused>>
  BY DEF MenuTick
<1>3. i \in DOMAIN Items /\ i \in {1, 2, 3, 4, 5, 6, 7, 8}
  BY NavigatedIsItem, ItemsAre DEF IInv, TypeOK
<1>4. CASE ~Backs(b) /\ "A" \in Pressed(b) /\ Activate(Items[i]) /\ gui_paused' = gui_paused
  <2>1. ItemOf(Items[i]) \in DOMAIN Items
    BY <1>3, ItemsAre
  <2>2. \/ open' = open /\ fresh' = FALSE /\ fetch_kind' = fetch_kind /\ gui_quit' \in BOOLEAN
           /\ UNCHANGED list_prev
        \/ \E w \in AllWindows \ {"MENU"} :
             /\ open' = InsteadOfMenu(w) /\ fresh' = TRUE /\ gui_quit' = gui_quit /\ list_prev' = {}
             /\ fetch_kind' = IF w = "CENTER" THEN "CATALOG" ELSE fetch_kind
    <3>1. CASE i \in {2, 8}
      BY <1>4, <3>1, ItemsAre DEF Activate, StayOpenOn, IInv, TypeOK
    <3>2. ASSUME i \in {1, 3, 4, 5, 6, 7}
          PROVE  WindowOf(Items[i]) \in AllWindows \ {"MENU"}
                 /\ (WindowOf(Items[i]) = "CENTER" <=> Items[i] = "GAME_CENTER")
      BY <3>2, ItemsAre DEF WindowOf, AllWindows
    <3>3. CASE i \in {1, 3, 4, 5, 6, 7}
      BY <1>4, <3>2, <3>3, ItemsAre DEF Activate
    <3> QED
      BY <1>3, <3>1, <3>3
  <2>3. item' = ItemOf(Items[i])
    BY <1>3, <1>4, ItemsAre DEF Activate, StayOpenOn
  <2>4. open' \subseteq AllWindows /\ fresh' \in BOOLEAN /\ gui_quit' \in BOOLEAN
        /\ fetch_kind' \in Fetches /\ list_prev' \subseteq {"A", "NAV"}
    BY <1>1, <2>2 DEF IInv, TypeOK, InsteadOfMenu, AllWindows, Fetches
  <2>5. touched' \in BOOLEAN
    BY DEF MenuTick
  <2>6. TypeOK'
    BY <1>4, <2>1, <2>3, <2>4, <2>5, WindowsInOrder
    DEF MenuTick, IInv, TypeOK, EndsMuted, mapVars, feedVars
  <2>7. WindowInv' /\ FedInv'
    BY <1>1, <1>4, <2>2
    DEF MenuTick, IInv, TypeOK, InsteadOfMenu, EndsMuted, Pressed, mapVars, feedVars, WindowInv,
        OneWindow, FrozenHasWindow, PickerIsVisible, FreshInv, FedInv
  <2> QED
    BY <2>6, <2>7 DEF IInv
<1>5. ASSUME \/ CloseToGame("MENU") /\ resume
             \/ StayOpenOn(Items[i]) /\ UNCHANGED gui_paused,
             fetch_kind' = fetch_kind, gui_quit' = gui_quit
      PROVE  IInv'
  <2>1. ItemOf(Items[i]) \in DOMAIN Items /\ ItemOf("LOAD_ROM") \in DOMAIN Items
    BY <1>3, ItemsAre, ItemOfIsItem
  <2>2. TypeOK'
    BY <1>1, <1>5, <2>1, WindowsInOrder
    DEF MenuTick, IInv, TypeOK, CloseToGame, StayOpenOn, resume, EndsMuted, AllWindows, mapVars,
        feedVars
  <2>3. WindowInv' /\ FedInv'
    BY <1>1, <1>5
    DEF MenuTick, IInv, TypeOK, CloseToGame, StayOpenOn, resume, EndsMuted, mapVars, feedVars,
        WindowInv, OneWindow, FrozenHasWindow, PickerIsVisible, FreshInv, FedInv
  <2> QED
    BY <2>2, <2>3 DEF IInv
<1> QED
  BY <1>2, <1>4, <1>5

LEMMA MappedKeys == ASSUME TypeOK, NEW b PROVE KeysOf(Mapped(b)) \subseteq Keys /\ Mapped(b) \subseteq Sources
BY DEF TypeOK, Mappings, KeysOf, Mapped

LEMMA StartInv == ASSUME IInv, NEW b \in Pads, GameStart(b) PROVE IInv'
<1>1. open = {} /\ vkbd \in KeyboardStates
  BY OnWindow DEF GameStart, IInv, TypeOK
<1>2. hide(vkbd).kb \in KeyboardStates /\ ~hide(vkbd).kb.visible /\ hide(vkbd).down = {}
  BY <1>1, HideSound
<1>3. TypeOK'
  BY <1>1, <1>2, ItemOfIsItem, WindowsInOrder
  DEF GameStart, IInv, TypeOK, OpenMenu, pause, EndsUnmuted, Injects, AllWindows, mapVars, centerVars
<1>4. WindowInv' /\ FedInv'
  BY <1>1, <1>2
  DEF GameStart, IInv, TypeOK, OpenMenu, pause, EndsUnmuted, mapVars, centerVars, WindowInv,
      OneWindow, FrozenHasWindow, PickerIsVisible, FreshInv, FedInv
<1> QED
  BY <1>3, <1>4 DEF IInv

LEMMA KeyboardInv == ASSUME IInv, NEW b \in Pads, GameKeyboard(b) PROVE IInv'
<1>1. open = {} /\ vkbd \in KeyboardStates /\ keys \subseteq Keys
  BY OnWindow DEF GameKeyboard, IInv, TypeOK
<1>2. vkbd' \in KeyboardStates /\ keys' \subseteq Keys
  <2>1. CASE /\ vkbd.visible
             /\ \E r \in update(vkbd, b, gui_prev_held) : vkbd' = r.kb /\ Injects(r.up, r.down)
    BY <1>1, <2>1, UpdateSound DEF Sound, Injects
  <2>2. CASE vkbd' = show(vkbd) /\ Injects(release_held_game_keys(b), {})
    BY <1>1, <2>2, ShowSound DEF Injects
  <2> QED
    BY <2>1, <2>2 DEF GameKeyboard
<1>3. TypeOK'
  BY <1>2 DEF GameKeyboard, IInv, TypeOK, EndsMuted, windowVars, mapVars, centerVars
<1>4. WindowInv' /\ FedInv'
  BY <1>1
  DEF GameKeyboard, IInv, EndsMuted, windowVars, mapVars, centerVars, WindowInv, OneWindow,
      FrozenHasWindow, PickerIsVisible, FreshInv, FedInv
<1> QED
  BY <1>3, <1>4 DEF IInv

LEMMA FeedInv == ASSUME IInv, NEW b \in Pads, GameFeed(b) PROVE IInv'
<1>1. open = {} /\ vkbd \in KeyboardStates /\ keys \subseteq Keys /\ TypeOK
  BY OnWindow DEF GameFeed, IInv, TypeOK
<1>2. vkbd' \in KeyboardStates /\ ~vkbd'.visible
  BY <1>1, HideSound DEF GameFeed
<1>3. PICK hidden : Feed(b, hidden)
  BY DEF GameFeed
<1>4. Mapped(b) \subseteq Sources /\ KeysOf(Mapped(b) \ FedBefore(b)) \subseteq Keys
  BY <1>1, MappedKeys DEF KeysOf
<1>5. keys' \subseteq Keys /\ gui_old_mapped' = Mapped(b) /\ gui_input_muted' = FALSE
      /\ gui_prev_held' = b
  BY <1>1, <1>3, <1>4 DEF Feed
<1>6. TypeOK'
  BY <1>2, <1>4, <1>5 DEF GameFeed, IInv, TypeOK, windowVars, mapVars, centerVars
<1>7. WindowInv'
  BY <1>1, <1>2
  DEF GameFeed, IInv, windowVars, mapVars, centerVars, WindowInv, OneWindow, FrozenHasWindow,
      PickerIsVisible, FreshInv
<1>8. FedInv'
  BY <1>5 DEF GameFeed, mapVars, FedInv, Mapped
<1> QED
  BY <1>6, <1>7, <1>8 DEF IInv

LEMMA NextInv == IInv /\ [Next]_vars => IInv'
<1> SUFFICES ASSUME IInv, [Next]_vars PROVE IInv'
  OBVIOUS
<1>1. CASE UNCHANGED vars
  BY <1>1
  DEF vars, windowVars, mapVars, centerVars, feedVars, inputVars, IInv, TypeOK, WindowInv, OneWindow,
      FrozenHasWindow, PickerIsVisible, FreshInv, FedInv, Mapped
<1>2. ASSUME NEW b \in Pads,
             \/ StatesTick(b) \/ PickerTick(b) \/ MapKeysTick(b) \/ CenterTick(b)
             \/ DialogTick(b) \/ AboutTick(b) \/ BrowserTick(b) \/ MenuTick(b)
             \/ GameStart(b) \/ GameKeyboard(b) \/ GameFeed(b)
      PROVE  IInv'
  BY <1>2, StatesInv, PickerInv, MapKeysInv, CenterInv, DialogInv, AboutInv, BrowserInv, MenuInv,
     StartInv, KeyboardInv, FeedInv
<1> QED
  BY <1>1, <1>2 DEF Next

(* Every tick keeps the inductive invariant: one window at most, and what  *)
(* is paused, waiting, fresh and fed agrees with which window it is.       *)
THEOREM Invariant == Spec => []IInv
BY InitInv, NextInv, PTL DEF Spec

(* The state of the tick is well formed for any keys and any mappings.     *)
THEOREM TypeCorrect == Spec => []TypeOK
<1>1. IInv => TypeOK
  BY DEF IInv
<1> QED
  BY <1>1, Invariant, PTL

(* Whatever is held, pressed and downloaded, nothing closes the last       *)
(* window over a frozen machine without resuming it.                       *)
THEOREM FrozenHasWindowHolds == Spec => []FrozenHasWindow
<1>1. IInv => FrozenHasWindow
  BY DEF IInv, WindowInv
<1> QED
  BY <1>1, Invariant, PTL

(* The keyboard over a window is the picker of Map Keys, shown exactly     *)
(* while a key is waited for.                                              *)
THEOREM PickerIsVisibleHolds == Spec => []PickerIsVisible
<1>1. IInv => PickerIsVisible
  BY DEF IInv, WindowInv
<1> QED
  BY <1>1, Invariant, PTL

-----------------------------------------------------------------------------
(* What a tick never presses                                               *)

(* No tick of a window presses a Vector key; the picker's presses are      *)
(* sunk.                                                                   *)
THEOREM WindowsPressNothingHolds == Spec => WindowsPressNothing
<1>1. ASSUME IInv, [Next]_vars, open # {} PROVE keys' \subseteq keys
  <2>1. CASE UNCHANGED vars
    BY <2>1 DEF vars, feedVars
  <2>2. ASSUME NEW b \in Pads,
               \/ StatesTick(b) \/ CenterTick(b) \/ DialogTick(b) \/ AboutTick(b)
               \/ BrowserTick(b) \/ MenuTick(b)
        PROVE  keys' \subseteq keys
    BY <2>2
    DEF StatesTick, CenterTick, DialogTick, AboutTick, BrowserTick, MenuTick, feedVars
  <2>3. ASSUME NEW b \in Pads, PickerTick(b) PROVE keys' \subseteq keys
    BY <2>3 DEF PickerTick, PickerSink, Injects
  <2>4. ASSUME NEW b \in Pads, MapKeysTick(b) PROVE keys' \subseteq keys
    <3>1. hide(vkbd).down = {}
      BY <1>1, HideSound DEF IInv, TypeOK
    <3> QED
      BY <2>4, <3>1 DEF MapKeysTick, mapkey_close_action, Injects, feedVars
  <2>5. ASSUME NEW b \in Pads, GameStart(b) \/ GameKeyboard(b) \/ GameFeed(b) PROVE FALSE
    BY <1>1, <2>5, OnWindow DEF GameStart, GameKeyboard, GameFeed
  <2> QED
    BY <1>1, <2>1, <2>2, <2>3, <2>4, <2>5 DEF Next
<1> QED
  BY <1>1, Invariant, PTL DEF Spec, WindowsPressNothing

(* The buttons that a tick presses a key for: A on the keyboard, and those *)
(* mapped to the key.                                                      *)
FreshButton(k) ==
  \E s \in gui_prev_held' \ gui_prev_held :
    \/ vkbd.visible /\ s = "A"
    \/ s \in Sources /\ mapping[s] = k

LEMMA FeedIsFresh ==
  ASSUME IInv, NEW b \in Pads, GameFeed(b), NEW k \in keys' \ keys
  PROVE  FreshButton(k)
<1>1. open = {} /\ gui_prev_held' = b
  BY OnWindow DEF GameFeed, Feed
<1>2. k \in KeysOf(Mapped(b) \ FedBefore(b))
  BY DEF GameFeed, Feed
<1>3. PICK s \in Mapped(b) \ FedBefore(b) : mapping[s] = k
  BY <1>2 DEF KeysOf
<1>4. s \notin Mapped(gui_prev_held)
  BY <1>1, <1>3 DEF FedBefore, IInv, FedInv
<1>5. s \in Sources /\ s \in b \ gui_prev_held
  BY <1>3, <1>4 DEF Mapped
<1> QED
  BY <1>1, <1>3, <1>5 DEF FreshButton

LEMMA KeyboardIsFresh ==
  ASSUME IInv, NEW b \in Pads, GameKeyboard(b), NEW k \in keys' \ keys
  PROVE  FreshButton(k)
<1>1. gui_prev_held' = b /\ vkbd \in KeyboardStates
  BY DEF GameKeyboard, EndsMuted, IInv, TypeOK
<1>2. PICK r \in update(vkbd, b, gui_prev_held) : Injects(r.up, r.down)
  BY DEF GameKeyboard, Injects
<1>3. vkbd.visible /\ "A" \in b \ gui_prev_held
  BY <1>1, <1>2, UpdateSound DEF Injects
<1> QED
  BY <1>1, <1>3 DEF FreshButton

(* A Vector key goes down only for a button that goes down in this very    *)
(* tick, however windows, the keyboard and Map Keys came and went before.  *)
THEOREM FreshPressOnlyHolds == Spec => FreshPressOnly
<1>1. ASSUME IInv, [Next]_vars, NEW k \in keys' \ keys PROVE FreshButton(k)
  <2>1. CASE UNCHANGED vars
    BY <1>1, <2>1 DEF vars, feedVars
  <2>2. ASSUME NEW b \in Pads,
               \/ StatesTick(b) \/ CenterTick(b) \/ DialogTick(b) \/ AboutTick(b)
               \/ BrowserTick(b) \/ MenuTick(b)
        PROVE  keys' = keys
    BY <2>2
    DEF StatesTick, CenterTick, DialogTick, AboutTick, BrowserTick, MenuTick, feedVars
  <2>3. ASSUME NEW b \in Pads, PickerTick(b) PROVE keys' \subseteq keys
    BY <2>3 DEF PickerTick, PickerSink, Injects
  <2>4. ASSUME NEW b \in Pads, MapKeysTick(b) \/ GameStart(b) PROVE keys' \subseteq keys
    <3>1. hide(vkbd).down = {}
      BY <1>1, HideSound DEF IInv, TypeOK
    <3> QED
      BY <2>4, <3>1 DEF MapKeysTick, mapkey_close_action, GameStart, Injects, feedVars
  <2> QED
    BY <1>1, <2>1, <2>2, <2>3, <2>4, FeedIsFresh, KeyboardIsFresh DEF Next
<1>2. IInv /\ [Next]_vars =>
        \A k \in keys' \ keys :
          \E s \in gui_prev_held' \ gui_prev_held :
            \/ vkbd.visible /\ s = "A"
            \/ s \in Sources /\ mapping[s] = k
  BY <1>1 DEF FreshButton
<1> QED
  BY <1>2, Invariant, PTL DEF Spec, FreshPressOnly

-----------------------------------------------------------------------------
(* The refinement of GuiWindows                                            *)

(* The screens before and after a step.                                    *)
LEMMA Screens ==
  ASSUME IInv, IInv'
  PROVE  /\ Screen = "GAME" <=> open = {}
         /\ \A w \in AllWindows : Screen = w <=> open = {w}
         /\ Screen' = "GAME" <=> open' = {}
         /\ \A w \in AllWindows : Screen' = w <=> open' = {w}
<1>1. open \in SUBSET AllWindows /\ \A v, w \in open : v = w
  BY WindowsInOrder DEF IInv, TypeOK, WindowInv, OneWindow
<1>2. open' \in SUBSET AllWindows /\ \A v, w \in open' : v = w
  BY WindowsInOrder DEF IInv, TypeOK, WindowInv, OneWindow
<1>3. Screen = ScreenOf(open) /\ Screen' = ScreenOf(open')
  BY DEF Screen, ScreenOf
<1> QED
  BY <1>1, <1>2, <1>3, ScreenIs

LEMMA InitWindows == Init => GW!GuiInit
BY DEF Init, GW!GuiInit, Screen

LEMMA StatesWindows ==
  ASSUME IInv, IInv', NEW b \in Pads, StatesTick(b) PROVE GW!GuiNext
<1>1. open = {"STATES"} /\ Screen = "STATES"
  BY OnWindow, Screens DEF StatesTick, AllWindows
<1>2. CASE OpenMenu({"STATES"}, item) /\ UNCHANGED gui_paused
  <2>1. Screen' = "MENU"
    BY <1>1, <1>2, Screens DEF OpenMenu, AllWindows
  <2> QED
    BY <1>1, <1>2, <2>1
    DEF OpenMenu, GW!GuiNext, GW!PlainTick, GW!LeaveWindow, GW!Windows
<1>3. CASE "A" \in Pressed(b) /\ CloseToGame("STATES") /\ resume
  <2>1. Screen' = "GAME" /\ ~fresh
    BY <1>1, <1>3, Screens DEF CloseToGame, Pressed, AllWindows, IInv, TypeOK, WindowInv, FreshInv
  <2> QED
    BY <1>1, <1>3, <2>1
    DEF CloseToGame, resume, GW!GuiNext, GW!MayTouchBoard, GW!BoardWindows, GW!EndTouch,
        GW!TouchAndResume
<1>4. CASE StayOpen /\ UNCHANGED gui_paused
  <2>1. Screen' = Screen
    BY <1>4 DEF StayOpen, Screen
  <2> QED
    BY <1>4, <2>1 DEF StayOpen, GW!GuiNext, GW!PlainTick, GW!IdleTick
<1> QED
  BY <1>2, <1>3, <1>4 DEF StatesTick

LEMMA CenterWindows ==
  ASSUME IInv, IInv', NEW b \in Pads, CenterTick(b) PROVE GW!GuiNext
<1>1. open = {"CENTER"} /\ Screen = "CENTER"
  BY OnWindow, Screens DEF CenterTick, AllWindows
<1>2. PICK p \in poll_fetch, loaded \in BOOLEAN :
        /\ loaded => p.ready
        /\ IF loaded THEN ResumeAfterLoad ELSE UNCHANGED gui_paused
        /\ \/ /\ OpenMenu({"CENTER"} \cup (IF loaded THEN {"MENU"} ELSE {}), ItemOf("GAME_CENTER"))
           \/ CloseToGame("CENTER") /\ loaded
           \/ StayOpen /\ ~loaded
  BY DEF CenterTick, mapVars
<1>3. loaded => ~fresh
  BY <1>1, <1>2 DEF poll_fetch, Polled, IInv, WindowInv, FreshInv
<1>4. CASE OpenMenu({"CENTER"} \cup (IF loaded THEN {"MENU"} ELSE {}), ItemOf("GAME_CENTER"))
  <2>1. Screen' = "MENU"
    BY <1>1, <1>4, Screens DEF OpenMenu, AllWindows
  <2>2. CASE loaded
    BY <1>1, <1>2, <1>3, <1>4, <2>1, <2>2
    DEF OpenMenu, ResumeAfterLoad, resume, GW!GuiNext, GW!MayTouchBoard, GW!BoardWindows,
        GW!EndTouch, GW!TouchAndLeave
  <2>3. CASE ~loaded
    BY <1>1, <1>2, <1>4, <2>1, <2>3
    DEF OpenMenu, GW!GuiNext, GW!PlainTick, GW!LeaveWindow, GW!Windows
  <2> QED
    BY <2>2, <2>3
<1>5. CASE CloseToGame("CENTER") /\ loaded
  <2>1. Screen' = "GAME"
    BY <1>1, <1>5, Screens DEF CloseToGame
  <2> QED
    BY <1>1, <1>2, <1>3, <1>5, <2>1
    DEF CloseToGame, ResumeAfterLoad, resume, GW!GuiNext, GW!MayTouchBoard, GW!BoardWindows,
        GW!EndTouch, GW!TouchAndResume
<1>6. CASE StayOpen /\ ~loaded
  <2>1. Screen' = Screen
    BY <1>6 DEF StayOpen, Screen
  <2> QED
    BY <1>2, <1>6, <2>1 DEF StayOpen, GW!GuiNext, GW!PlainTick, GW!IdleTick
<1> QED
  BY <1>2, <1>4, <1>5, <1>6

LEMMA MenuWindows ==
  ASSUME IInv, IInv', NEW b \in Pads, MenuTick(b) PROVE GW!GuiNext
<1>1. open = {"MENU"} /\ Screen = "MENU"
  BY OnWindow, Screens DEF MenuTick, AllWindows
<1>2. PICK i \in Navigated(b) :
        \/ CloseToGame("MENU") /\ resume
        \/ Activate(Items[i]) /\ UNCHANGED gui_paused
        \/ StayOpenOn(Items[i]) /\ UNCHANGED gui_paused
  BY DEF MenuTick
<1>3. i \in DOMAIN Items /\ i \in {1, 2, 3, 4, 5, 6, 7, 8}
  BY NavigatedIsItem, ItemsAre DEF IInv, TypeOK
<1>4. CASE CloseToGame("MENU") /\ resume
  <2>1. Screen' = "GAME"
    BY <1>1, <1>4, Screens DEF CloseToGame
  <2> QED
    BY <1>1, <1>4, <2>1 DEF CloseToGame, resume, GW!GuiNext, GW!PlainTick, GW!CloseMenu
<1>5. ASSUME StayOpenOn(Items[i]), UNCHANGED gui_paused PROVE GW!GuiNext
  <2>1. Screen' = Screen
    BY <1>5 DEF StayOpenOn, Screen
  <2> QED
    BY <1>5, <2>1 DEF StayOpenOn, GW!GuiNext, GW!PlainTick, GW!IdleTick
<1>6. CASE Activate(Items[i]) /\ UNCHANGED gui_paused
  <2>1. CASE i \in {2, 8}
    BY <1>5, <1>6, <2>1, ItemsAre DEF Activate
  <2>2. CASE i \in {1, 3, 4, 5, 6, 7}
    <3>1. WindowOf(Items[i]) \in AllWindows \ {"MENU"}
      BY <2>2, ItemsAre DEF WindowOf, AllWindows
    <3>2. open' = {WindowOf(Items[i])} /\ fresh' = TRUE
      BY <1>1, <1>6, <2>2, ItemsAre DEF Activate, InsteadOfMenu
    <3>3. Screen' = WindowOf(Items[i])
      BY <3>1, <3>2, Screens
    <3> QED
      BY <1>1, <1>6, <3>1, <3>2, <3>3
      DEF AllWindows, GW!GuiNext, GW!PlainTick, GW!EnterWindow, GW!Windows
  <2> QED
    BY <1>3, <2>1, <2>2
<1> QED
  BY <1>2, <1>4, <1>5, <1>6

LEMMA BrowserWindows ==
  ASSUME IInv, IInv', NEW b \in Pads, BrowserTick(b) PROVE GW!GuiNext
<1>1. open = {"BROWSER"} /\ Screen = "BROWSER"
  BY OnWindow, Screens DEF BrowserTick, AllWindows
<1>2. CASE OpenMenu({"BROWSER"}, ItemOf("LOAD_ROM")) /\ UNCHANGED gui_paused
  <2>1. Screen' = "MENU"
    BY <1>1, <1>2, Screens DEF OpenMenu, AllWindows
  <2> QED
    BY <1>1, <1>2, <2>1
    DEF OpenMenu, GW!GuiNext, GW!PlainTick, GW!LeaveWindow, GW!Windows
<1>3. CASE "A" \in Pressed(b) /\ CloseToGame("BROWSER") /\ resume
  <2>1. Screen' = "GAME" /\ ~fresh
    BY <1>1, <1>3, Screens DEF CloseToGame, Pressed, AllWindows, IInv, TypeOK, WindowInv, FreshInv
  <2> QED
    BY <1>1, <1>3, <2>1
    DEF CloseToGame, resume, GW!GuiNext, GW!MayTouchBoard, GW!BoardWindows, GW!EndTouch,
        GW!TouchAndResume
<1>4. CASE StayOpen /\ UNCHANGED gui_paused
  <2>1. Screen' = Screen
    BY <1>4 DEF StayOpen, Screen
  <2> QED
    BY <1>4, <2>1 DEF StayOpen, GW!GuiNext, GW!PlainTick, GW!IdleTick
<1> QED
  BY <1>2, <1>3, <1>4 DEF BrowserTick

(* The windows that never reach into the machine, and the game.            *)
LEMMA PlainWindows ==
  ASSUME IInv, IInv', NEW b \in Pads,
         \/ AboutTick(b) \/ MapKeysTick(b) \/ PickerTick(b) \/ DialogTick(b)
         \/ GameStart(b) \/ GameKeyboard(b) \/ GameFeed(b)
  PROVE  GW!GuiNext \/ UNCHANGED GW!guiVars
<1>1. CASE StayOpen /\ UNCHANGED gui_paused
  <2>1. Screen' = Screen
    BY <1>1 DEF StayOpen, Screen
  <2> QED
    BY <1>1, <2>1 DEF StayOpen, GW!GuiNext, GW!PlainTick, GW!IdleTick
<1>2. ASSUME NEW w \in {"ABOUT", "MAPKEYS"}, On(w), open' = {"MENU"}, fresh' = TRUE,
             UNCHANGED gui_paused
      PROVE  GW!GuiNext
  <2>1. Screen = w /\ Screen' = "MENU"
    BY <1>2, Screens DEF On, AllWindows
  <2> QED
    BY <1>2, <2>1 DEF GW!GuiNext, GW!PlainTick, GW!LeaveWindow, GW!Windows
<1>3. CASE AboutTick(b)
  <2>1. open = {"ABOUT"}
    BY <1>3, OnWindow DEF AboutTick, AllWindows
  <2> QED
    BY <1>1, <1>2, <1>3, <2>1 DEF AboutTick, OpenMenu
<1>4. CASE MapKeysTick(b)
  <2>1. open = {"MAPKEYS"}
    BY <1>4, OnWindow DEF MapKeysTick, AllWindows
  <2> QED
    BY <1>1, <1>2, <1>4, <2>1 DEF MapKeysTick, mapkey_close_action, OpenMenu
<1>5. CASE PickerTick(b) \/ DialogTick(b)
  BY <1>1, <1>5 DEF PickerTick, DialogTick
<1>6. CASE GameStart(b)
  <2>1. open = {} /\ open' = {"MENU"}
    BY <1>6, OnWindow DEF GameStart, OpenMenu
  <2>2. Screen = "GAME" /\ Screen' = "MENU"
    BY <2>1, Screens DEF AllWindows
  <2> QED
    BY <1>6, <2>2 DEF GameStart, OpenMenu, pause, GW!GuiNext, GW!PlainTick, GW!OpenMenu
<1>7. CASE GameKeyboard(b) \/ GameFeed(b)
  <2>1. UNCHANGED <<open, fresh, gui_paused>>
    BY <1>7 DEF GameKeyboard, GameFeed, windowVars
  <2> QED
    BY <2>1 DEF Screen, GW!guiVars
<1> QED
  BY <1>3, <1>4, <1>5, <1>6, <1>7

(* The tick with its pad, menu items, mappings, downloads and dialog is an *)
(* implementation of the few outcomes GuiWindows allows, the one that the  *)
(* proofs about the two threads rely on.                                   *)
THEOREM TickImplementsGuiWindows == Spec => ImplementsGuiWindows
<1>1. ASSUME IInv, IInv', [Next]_vars PROVE [GW!GuiNext]_(GW!guiVars)
  <2>1. CASE UNCHANGED vars
    BY <2>1 DEF vars, windowVars, Screen, GW!guiVars
  <2> QED
    BY <1>1, <2>1, StatesWindows, CenterWindows, MenuWindows, BrowserWindows, PlainWindows
    DEF Next
<1> QED
  BY <1>1, InitWindows, Invariant, PTL DEF Spec, ImplementsGuiWindows, GW!GuiSpec
=============================================================================
