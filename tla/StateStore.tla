------------------------------ MODULE StateStore ------------------------------
(***************************************************************************)
(* SAVE STATE and LOAD STATE: the slot window (statewindow.cpp), the two   *)
(* flows of the UI thread (emulator.cpp) and the files they go through     *)
(* (statefile.cpp, util.cpp, imgload.cpp), call by call, because the       *)
(* process may die between any two of them.                                *)
(*                                                                         *)
(* A slot N has stateN.bin, its temporary stateN.bin.tmp and the picture   *)
(* stateN.png.  A file is missing, whole with the image it holds, or torn: *)
(* a prefix a failed or interrupted write left behind.  The timestamp of   *)
(* the header and the pixels of a picture stand for the image they were    *)
(* taken from.  All of this runs on one thread while the machine is        *)
(* paused, so the only actors are that thread, the user, the file system   *)
(* (any call may fail) and death (a kill, a crash, an empty battery).      *)
(*                                                                         *)
(* Left out: files changed by other programs, the order in which a power   *)
(* cut reaches the card (the code never calls fsync), and a second ROM     *)
(* (its slots are other files).                                            *)
(***************************************************************************)
EXTENDS FiniteSets

CONSTANTS Slots,     \* the slots of the running ROM
          Images,    \* the states of the machine
          Nothing,   \* a file that is missing
          Torn       \* a prefix that a failed or interrupted write left

ASSUME StoreAssumption == /\ Nothing \notin Images
                          /\ Torn \notin Images \cup {Nothing}

VARIABLES bin, tmp, png,   \* the files of every slot
          machine,         \* the state of the emulated machine
          window,          \* "closed", or open to "save" or to "load"
          selected,        \* the selected slot
          occupied,        \* the slots the window shows as used
          picture,         \* the picture the window shows in a slot
          message,         \* the footer
          pc,              \* where the UI thread is inside a save
          (* History, read by no guard.                                     *)
          unread,          \* slots whose header could not be read by open()
          stale            \* slots whose state may be newer than their picture

files == <<bin, tmp, png>>
view == <<window, selected, occupied, unread, picture>>
vars == <<files, machine, view, message, pc, stale>>

FileStates == Images \cup {Nothing, Torn}
Whole(file) == file \in Images
Pcs == {"idle", "mkdir", "open", "write", "rename", "tmpname", "shot", "png"}
Messages == {"", "saving", "saved", "error"}

TypeOK == /\ bin \in [Slots -> FileStates]
          /\ tmp \in [Slots -> FileStates]
          /\ png \in [Slots -> FileStates]
          /\ machine \in Images
          /\ window \in {"closed", "save", "load"}
          /\ selected \in Slots
          /\ occupied \in SUBSET Slots
         /\ unread \in SUBSET Slots
          /\ picture \in [Slots -> Images \cup {Nothing}]
          /\ message \in Messages
          /\ pc \in Pcs
          /\ stale \in SUBSET Slots

Init == /\ bin = [s \in Slots |-> Nothing]
        /\ tmp = bin
        /\ png = bin
        /\ machine \in Images
        /\ window = "closed"
        /\ selected \in Slots
        /\ occupied = {}
        /\ unread = {}
        /\ picture = [s \in Slots |-> Nothing]
        /\ message = ""
        /\ pc = "idle"
        /\ stale = {}

-------------------------------------------------------------------------------
(***************************************************************************)
(* The window                                                              *)
(***************************************************************************)

Idle == pc = "idle" /\ window # "closed"

\* Frames the machine executes while no window pauses it.
RunMachine == /\ window = "closed"
              /\ machine' \in Images
              /\ UNCHANGED <<files, view, message, pc, stale>>

\* read_header() reads sixteen bytes: a torn file may have them or not, and
\* any file may fail to open or to be read.
Headers == {s \in Slots : bin[s] # Nothing}

\* open() scans every header and decodes the pictures of the used slots; a
\* torn picture does not decode.
open(mode) ==
    /\ window = "closed"
    /\ window' = mode
    /\ occupied' \in SUBSET Headers
    /\ unread' = Headers \ occupied'
    /\ \E decoded \in SUBSET {s \in occupied' : Whole(png[s])} :
          picture' = [s \in Slots |-> IF s \in decoded THEN png[s] ELSE Nothing]
    /\ selected' \in Slots
    /\ message' = ""
    /\ UNCHANGED <<files, machine, pc, stale>>

update == /\ Idle
          /\ selected' \in Slots \ {selected}
          /\ UNCHANGED <<files, machine, window, occupied, unread, picture, message,
                         pc, stale>>

close == /\ Idle
         /\ window' = "closed"
         /\ UNCHANGED <<files, machine, selected, occupied, unread, picture, message,
                        pc, stale>>

-------------------------------------------------------------------------------
(***************************************************************************)
(* SAVE: the mutated steps stand before the steps they replace             *)
(***************************************************************************)

At(here) == pc = here /\ UNCHANGED <<machine, window, selected>>

\* Every refusal ends the flow with a message and leaves the window as it is.
Refuse == /\ pc' = "idle"
          /\ message' = "error"
          /\ UNCHANGED <<occupied, unread, picture>>

Proceed(to) == pc' = to /\ UNCHANGED <<occupied, unread, picture, message>>

\* A in the SAVE window; "Saving..." appears after the directory check.
state_save_action == /\ Idle /\ window = "save"
                     /\ pc' = "mkdir"
                     /\ UNCHANGED <<files, machine, view, message, stale>>

ensure_dir == /\ At("mkdir")
              /\ \/ Refuse
                 \/ /\ pc' = "open"
                    /\ message' = "saving"
                    /\ UNCHANGED <<occupied, unread, picture>>
              /\ UNCHANGED <<files, stale>>

\* The file the state is written to before it replaces the old one.
Removed(file, s) == [file EXCEPT ![s] = Nothing]
Truncated(file, s) == [file EXCEPT ![s] = Torn]
Written(file, s) == [file EXCEPT ![s] = machine]

OpensInPlace == /\ At("open")
                /\ \/ bin' = Truncated(bin, selected) /\ Proceed("write")
                   \/ UNCHANGED bin /\ Refuse
                /\ UNCHANGED <<tmp, png, stale>>

\* A refused write ends with a remove(), whose result nobody looks at.
DropTmp == (tmp' = Removed(tmp, selected) \/ UNCHANGED tmp) /\ Refuse

open_tmp == /\ At("open")
            /\ \/ tmp' = Truncated(tmp, selected) /\ Proceed("write")
               \/ DropTmp
            /\ UNCHANGED <<bin, png, stale>>

\* One write() call: complete, or short (the card is full) and refused.
ShortIsRefused == DropTmp

write_tmp == /\ At("write")
             /\ \/ tmp' = Written(tmp, selected) /\ Proceed("rename")
                \/ ShortIsRefused
             /\ UNCHANGED <<bin, png, stale>>

\* rename() replaces the old state atomically.  When it is refused, tmpname()
\* looks for a free name, and for the first free one it calls fclose(nullptr).
ReplaceFile == bin' = [bin EXCEPT ![selected] = tmp[selected]]

careful_rename == /\ At("rename")
                  /\ \/ /\ ReplaceFile
                        /\ tmp' = Removed(tmp, selected)
                        /\ Proceed("shot")
                     \/ UNCHANGED <<bin, tmp>> /\ Proceed("tmpname")
                  /\ UNCHANGED <<png, stale>>

\* Mutants of after_save: the list is not refreshed; the picture is read back.
NoRefresh == /\ UNCHANGED <<occupied, unread, picture>>
             /\ message' = "saved"
             /\ pc' = "idle"

ShowsTheFile == /\ occupied' = occupied \cup {selected}
                /\ unread' = unread \ {selected}
                /\ picture' = [picture EXCEPT ![selected] = png'[selected]]
                /\ message' = "saved"
                /\ pc' = "idle"

\* after_save() shows the frame it was handed, whatever became of the file.
after_save == /\ occupied' = occupied \cup {selected}
              /\ unread' = unread \ {selected}
              /\ picture' = [picture EXCEPT ![selected] = machine]
              /\ message' = "saved"
              /\ pc' = "idle"

\* img_save(): a picture that cannot be opened is removed, and stays as it was
\* when remove() fails too.  The PNG writer does not look at what fwrite() and
\* fclose() return.
OldPictureStays == UNCHANGED png /\ stale' = stale \ {selected} /\ after_save
NotOpened == /\ \/ png' = Removed(png, selected) /\ stale' = stale \ {selected}
                \/ UNCHANGED png /\ stale' = stale \cup {selected}
             /\ after_save

open_png == /\ At("shot")
            /\ \/ png' = Truncated(png, selected) /\ Proceed("png") /\ UNCHANGED stale
               \/ NotOpened
            /\ UNCHANGED <<bin, tmp>>

write_png == /\ At("png")
             /\ \/ png' = Written(png, selected)
                \/ UNCHANGED png
             /\ stale' = stale \ {selected}
             /\ after_save
             /\ UNCHANGED <<bin, tmp>>

-------------------------------------------------------------------------------
(***************************************************************************)
(* LOAD, and dying                                                         *)
(***************************************************************************)

\* A in the LOAD window: an empty slot, a file that cannot be read and one that
\* does not pass the header check are refused; else the machine is replaced and
\* the window closes.
state_load_action ==
    /\ Idle /\ window = "load"
    /\ \/ /\ message' = "error"
          /\ UNCHANGED <<machine, window>>
       \/ /\ selected \in occupied /\ Whole(bin[selected])
          /\ machine' = bin[selected]
          /\ window' = "closed"
          /\ UNCHANGED message
    /\ UNCHANGED <<files, selected, occupied, unread, picture, pc, stale>>

\* The process dies, at any point or certainly inside tmpname(), and is
\* started again: the files stay as they are.
Die == /\ window' = "closed"
       /\ machine' \in Images
       /\ message' = ""
       /\ pc' = "idle"
       /\ stale' = stale \cup (IF pc \in {"shot", "png"} THEN {selected} ELSE {})
       /\ UNCHANGED <<files, selected, occupied, unread, picture>>

UiStep == \/ RunMachine \/ update \/ close
          \/ \E mode \in {"save", "load"} : open(mode)
          \/ state_save_action \/ ensure_dir \/ open_tmp \/ write_tmp
          \/ careful_rename \/ open_png \/ write_png
          \/ state_load_action

Next == UiStep \/ Die

Spec == Init /\ [][Next]_vars

-------------------------------------------------------------------------------
(***************************************************************************)
(* Properties                                                              *)
(***************************************************************************)

\* The file of a slot is never a prefix of a state: whatever fails, and
\* wherever the process dies, it is missing, the old state or the new one
\* (save() in statefile.cpp writes a temporary file and renames it).
SlotIsWhole == \A s \in Slots : bin[s] # Torn

\* Between two flows the window shows as used exactly the slots that have a
\* state on disk, though it reads the headers only when it opens and is told of
\* the later saves by after_save(); it misses only a slot whose header it could
\* not read and that has not been saved since (statewindow.cpp).
WindowTellsTheDisk == Idle => occupied = {s \in Slots : bin[s] # Nothing} \ unread

\* "Saved slot N" in the footer is true: the state of the paused machine is in
\* the file of a slot the window shows, after every mixture of saves that
\* failed and saves that worked (state_save_action in emulator.cpp).
SavedMeansStored ==
    Idle /\ message = "saved" => \E s \in occupied : bin[s] = machine

\* The picture in a slot is the picture of the state a load of that slot brings
\* back, also after reopening the window; only a save that died after the new
\* state was in place, or that could neither open nor remove the picture, may
\* leave the old one (state_save_action writes the picture last, img_save
\* removes it when it cannot be written).
PictureOfTheSlot ==
    Idle => \A s \in Slots \ stale : picture[s] \in {Nothing, bin[s]}

\* Saving and loading, with their files, failures and deaths, behave as
\* registers written in one step: no slot ever changes except to the state of
\* the paused machine, and a paused machine never except to the state of a slot.
Registers == INSTANCE SlotRegister WITH stored <- bin, frozen <- window # "closed"
ImplementsSlotRegister == Registers!SlotSpec

\* img_save() says of its error path "never leave a truncated screenshot"
\* (imgload.cpp): no picture on disk is torn unless the process died in a save.
\* Not kept: stbi_write_png() reports success for a picture it could not write.
NoTruncatedScreenshot ==
    pc = "idle" => \A s \in Slots \ stale : png[s] # Torn
===============================================================================
