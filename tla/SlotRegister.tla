----------------------------- MODULE SlotRegister -----------------------------
(***************************************************************************)
(* What SAVE STATE and LOAD STATE promise, with no files in it: every slot *)
(* is a register.  A save puts the frozen machine into one slot in a       *)
(* single step; a load puts one slot into the machine; nothing else        *)
(* touches a slot, and nothing else touches a frozen machine.  A power cut *)
(* or a dying process loses the machine but never a slot.                  *)
(***************************************************************************)
CONSTANTS Slots,        \* the slots of the running ROM
          Images,       \* the states of the machine
          Nothing       \* an empty slot

VARIABLES stored,       \* the image in every slot, or Nothing
          machine,      \* the state of the emulated machine
          frozen        \* TRUE while the window holds the machine paused

slotVars == <<stored, machine, frozen>>

SlotInit == /\ stored = [s \in Slots |-> Nothing]
            /\ machine \in Images
            /\ frozen = FALSE

\* The machine runs, until a window freezes it.
Run == ~frozen /\ machine' \in Images /\ UNCHANGED <<stored, frozen>>

Freeze == ~frozen /\ frozen' = TRUE /\ UNCHANGED <<stored, machine>>

Thaw == frozen /\ frozen' = FALSE /\ UNCHANGED <<stored, machine>>

Save(s) == /\ frozen
           /\ stored' = [stored EXCEPT ![s] = machine]
           /\ UNCHANGED <<machine, frozen>>

Load(s) == /\ frozen
           /\ stored[s] # Nothing
           /\ machine' = stored[s]
           /\ frozen' = FALSE
           /\ UNCHANGED stored

\* The emulator dies and is started again: only the machine is lost.
Reboot == /\ frozen' = FALSE
          /\ machine' \in Images
          /\ UNCHANGED stored

SlotNext == \/ Run \/ Freeze \/ Thaw \/ Reboot
            \/ \E s \in Slots : Save(s) \/ Load(s)

SlotSpec == SlotInit /\ [][SlotNext]_slotVars
===============================================================================
