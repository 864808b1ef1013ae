--------------------------- MODULE VirtualKeyboard ---------------------------
(***************************************************************************)
(* The on-screen keyboard as operators on its state.  An operation returns *)
(* the new state and the key events it hands to the sinks: the releases    *)
(* come before the presses in every operation, so two sets are enough.     *)
(***************************************************************************)
EXTENDS Naturals

CONSTANTS
  Keys,         \* the Vector keys on the keyboard, without those of no effect
  StickyKeys,   \* the modifiers that latch (both are on the keyboard once)
  StickySlots   \* the length of sticky_down

ASSUME KeyboardAssumption ==
  /\ StickyKeys \subseteq Keys
  /\ StickySlots \in Nat \ {0}
  /\ "blank" \notin Keys
  /\ "none" \notin Keys

(* "blank" is a key without a scancode, "none" an empty slot or no key.    *)
KeyboardStates ==
  [visible : BOOLEAN,
   selected : Keys \cup {"blank"},
   keys_down : SUBSET Keys,
   sticky_down : [1..StickySlots -> Keys \cup {"none"}]]

NoStickies == [i \in 1..StickySlots |-> "none"]
Latched(kb) == {kb.sticky_down[i] : i \in 1..StickySlots} \ {"none"}

Sent(kb, up, down) == [kb |-> kb, up |-> up, down |-> down]

release_all(kb) ==
  Sent([kb EXCEPT !.keys_down = {}, !.sticky_down = NoStickies],
       kb.keys_down \cup Latched(kb), {})

show(kb) == [kb EXCEPT !.visible = TRUE]

hide(kb) ==
  LET r == release_all(kb)
  IN  Sent([r.kb EXCEPT !.visible = FALSE], r.up, r.down)

(* A modifier takes the first slot that is free or already its own.        *)
toggle_sticky(kb) ==
  LET k == kb.selected
      fits == {i \in 1..StickySlots : kb.sticky_down[i] \in {k, "none"}}
      first == CHOOSE i \in fits : \A j \in fits : i <= j
  IN  IF fits = {} THEN Sent(kb, {}, {})
      ELSE IF kb.sticky_down[first] = k
           THEN Sent([kb EXCEPT !.sticky_down[first] = "none"], {k}, {})
           ELSE Sent([kb EXCEPT !.sticky_down[first] = k], {}, {k})

key_down(kb) ==
  IF kb.selected = "blank" \/ kb.selected \in kb.keys_down
  THEN Sent(kb, {}, {})
  ELSE IF kb.selected \in StickyKeys
       THEN toggle_sticky(kb)
       ELSE Sent([kb EXCEPT !.keys_down = @ \cup {kb.selected}], {}, {kb.selected})

(* Releasing a plain key releases the latched modifiers with it.           *)
key_up(kb) ==
  IF kb.selected \in kb.keys_down
  THEN Sent([kb EXCEPT !.keys_down = @ \ {kb.selected}, !.sticky_down = NoStickies],
            {kb.selected} \cup Latched(kb), {})
  ELSE Sent(kb, {}, {})

(***************************************************************************)
(* One input step.  NAV stands for the D-pad: it moves to some key on its  *)
(* press and again whenever the autorepeat counter runs out.  A presses    *)
(* and releases the selected key.                                          *)
(***************************************************************************)
Moves(pad, prev) ==
  IF "NAV" \notin pad THEN {FALSE}
  ELSE IF "NAV" \notin prev THEN {TRUE}
  ELSE BOOLEAN

Moved(kb, moves) ==
  IF ~moves THEN {Sent(kb, {}, {})}
  ELSE LET r == key_up(kb)
       IN  {Sent([r.kb EXCEPT !.selected = k], r.up, {}) : k \in Keys \cup {"blank"}}

PressOrRelease(r, pad, prev) ==
  LET p == IF "A" \in pad \ prev THEN key_down(r.kb)
           ELSE IF "A" \in prev \ pad THEN key_up(r.kb)
           ELSE Sent(r.kb, {}, {})
  IN  Sent(p.kb, r.up \cup p.up, p.down)

update(kb, pad, prev) ==
  IF ~kb.visible THEN {Sent(kb, {}, {})}
  ELSE {PressOrRelease(r, pad, prev) :
          r \in UNION {Moved(kb, m) : m \in Moves(pad, prev)}}
=============================================================================
