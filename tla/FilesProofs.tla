----------------------------- MODULE FilesProofs -----------------------------
(***************************************************************************)
(* What is written is read back.  The properties of the state slots, for   *)
(* any slots and any machine states, and the proof that their files        *)
(* implement SlotRegister (StateStore); and those of a host directory      *)
(* mounted as a disk, for any sizes of the disk, its directory and its     *)
(* clusters and any files (DirectoryDisk).                                 *)
(***************************************************************************)
EXTENDS StateStore, DirectoryDisk, FiniteSetTheorems, TLAPS

\* The state is in place, its picture is not yet.
Shooting(s) == pc \in {"shot", "png"} /\ s = selected

\* Inside a save the window is the SAVE window, the temporary file holds the
\* machine when it is renamed, and so does the slot afterwards; the old picture
\* is gone once the new one is being written.
SaveInv == /\ pc # "idle" => window = "save"
           /\ pc = "rename" => tmp[selected] = machine
           /\ pc \in {"shot", "png"} => bin[selected] = machine
           /\ pc = "png" => png[selected] = Torn

\* What the window shows of a slot is what the disk holds, but for the slot a
\* save has just replaced and those whose header could not be read.
ViewInv == window # "closed" =>
              \A s \in Slots : \/ s \in occupied <=> bin[s] # Nothing /\ s \notin unread
                               \/ Shooting(s)

PictureInv == window # "closed" =>
                 \A s \in Slots \ stale : \/ picture[s] \in {Nothing, bin[s]}
                                        \/ Shooting(s)

\* On disk too a picture that decodes is the picture of the slot's state.
ShotInv == \A s \in Slots \ stale : \/ png[s] \in {Nothing, Torn, bin[s]}
                                  \/ Shooting(s)

IInv == /\ TypeOK
        /\ SlotIsWhole
        /\ SaveInv
        /\ ViewInv
        /\ SavedMeansStored
        /\ PictureInv
        /\ ShotInv

LEMMA InitInv == Init => IInv
BY StoreAssumption
   DEF Init, IInv, TypeOK, SlotIsWhole, SaveInv, ViewInv, SavedMeansStored, PictureInv,
       ShotInv, FileStates, Pcs, Messages, Idle, Shooting

-------------------------------------------------------------------------------
(* The window *)

LEMMA RunInv == IInv /\ RunMachine => IInv'
BY DEF RunMachine, IInv, TypeOK, SlotIsWhole, SaveInv, ViewInv, SavedMeansStored,
       PictureInv, ShotInv, FileStates, Pcs, Messages, Idle, Shooting, files, view

LEMMA OpenInv == ASSUME IInv, NEW mode \in {"save", "load"}, open(mode)
                 PROVE  IInv'
<1> USE DEF IInv
<1>1. TypeOK' /\ UNCHANGED <<bin, tmp, png, machine, pc, stale>> /\ pc = "idle"
  BY DEF open, TypeOK, FileStates, Pcs, Messages, files, SaveInv, Whole, Headers
<1>2. occupied' = {s \in Slots : bin[s] # Nothing} \ unread'
  BY DEF open, Headers
<1>3. SlotIsWhole' /\ SaveInv' /\ ViewInv' /\ SavedMeansStored' /\ ShotInv'
  BY <1>1, <1>2
     DEF SlotIsWhole, SaveInv, ViewInv, SavedMeansStored, ShotInv, Shooting, open, Idle
<1>4. PictureInv'
  <2>1. PICK decoded \in SUBSET {s \in occupied' : Whole(png[s])} :
           picture' = [s \in Slots |-> IF s \in decoded THEN png[s] ELSE Nothing]
    BY DEF open
  <2>2. ASSUME NEW s \in Slots \ stale PROVE picture'[s] \in {Nothing, bin[s]}
    BY <1>1, <2>1, StoreAssumption DEF ShotInv, Shooting, Whole
  <2> QED
    BY <1>1, <2>2 DEF PictureInv
<1> QED
  BY <1>1, <1>3, <1>4

LEMMA UpdateInv == IInv /\ update => IInv'
BY DEF update, IInv, TypeOK, SlotIsWhole, SaveInv, ViewInv, SavedMeansStored,
       PictureInv, ShotInv, FileStates, Pcs, Messages, Idle, Shooting, files

LEMMA CloseInv == IInv /\ close => IInv'
BY DEF close, IInv, TypeOK, SlotIsWhole, SaveInv, ViewInv, SavedMeansStored,
       PictureInv, ShotInv, FileStates, Pcs, Messages, Idle, Shooting, files

LEMMA LoadInv == IInv /\ state_load_action => IInv'
BY DEF state_load_action, IInv, TypeOK, SlotIsWhole, SaveInv, ViewInv, SavedMeansStored,
       PictureInv, ShotInv, FileStates, Pcs, Messages, Idle, Shooting, files, Whole

LEMMA DieInv == IInv /\ Die => IInv'
BY DEF Die, IInv, TypeOK, SlotIsWhole, SaveInv, ViewInv, SavedMeansStored,
       PictureInv, ShotInv, FileStates, Pcs, Messages, Idle, Shooting, files

-------------------------------------------------------------------------------
(* The steps of a save *)

LEMMA BeginInv == IInv /\ state_save_action => IInv'
BY StoreAssumption
   DEF state_save_action, view, IInv, TypeOK, SlotIsWhole, SaveInv, ViewInv, SavedMeansStored,
       PictureInv, ShotInv, FileStates, Pcs, Messages, Idle, Shooting, files

LEMMA EnsureDirInv == IInv /\ ensure_dir => IInv'
BY StoreAssumption
   DEF ensure_dir, At, Refuse, Proceed, IInv, TypeOK, SlotIsWhole, SaveInv, ViewInv, SavedMeansStored,
       PictureInv, ShotInv, FileStates, Pcs, Messages, Idle, Shooting, files

LEMMA OpenTmpInv == IInv /\ open_tmp => IInv'
BY StoreAssumption
   DEF open_tmp, At, Refuse, Proceed, DropTmp, Removed, Truncated, IInv, TypeOK, SlotIsWhole, SaveInv, ViewInv, SavedMeansStored,
       PictureInv, ShotInv, FileStates, Pcs, Messages, Idle, Shooting, files

LEMMA WriteTmpInv == IInv /\ write_tmp => IInv'
<1> SUFFICES ASSUME IInv, write_tmp PROVE IInv'
  OBVIOUS
<1> USE StoreAssumption
    DEF write_tmp, At, IInv, TypeOK, SlotIsWhole, SaveInv, ViewInv, SavedMeansStored,
        PictureInv, ShotInv, FileStates, Pcs, Messages, Idle, Shooting
<1>1. CASE tmp' = Written(tmp, selected) /\ Proceed("rename")
  BY <1>1 DEF Written, Proceed
<1>2. CASE tmp' = Removed(tmp, selected) /\ Refuse
  BY <1>2 DEF Removed, Refuse
<1>3. CASE UNCHANGED tmp /\ Refuse
  BY <1>3 DEF Refuse
<1> QED
  BY <1>1, <1>2, <1>3 DEF ShortIsRefused, DropTmp

LEMMA RenameInv == IInv /\ careful_rename => IInv'
BY StoreAssumption
   DEF careful_rename, At, Proceed, Removed, ReplaceFile, IInv, TypeOK, SlotIsWhole, SaveInv, ViewInv, SavedMeansStored,
       PictureInv, ShotInv, FileStates, Pcs, Messages, Idle, Shooting, files

LEMMA AfterSaveInv == ASSUME IInv, after_save, pc \in {"shot", "png"},
                             UNCHANGED <<bin, tmp, machine, window, selected>>,
                             stale' \in SUBSET Slots,
                             stale \ {selected} \subseteq stale',
                             png' \in [Slots -> FileStates],
                             \A s \in Slots \ {selected} : png'[s] = png[s],
                             \/ png'[selected] \in {Nothing, Torn, bin[selected]}
                             \/ selected \in stale'
                      PROVE  IInv'
<1> USE DEF IInv
<1>1. TypeOK' /\ SlotIsWhole' /\ SaveInv'
  BY DEF TypeOK, SlotIsWhole, SaveInv, after_save, Pcs, Messages
<1>2. bin[selected] = machine /\ bin[selected] # Nothing
  BY StoreAssumption DEF SaveInv, TypeOK
<1>3. ViewInv' /\ SavedMeansStored' /\ PictureInv'
  BY <1>2 DEF ViewInv, SavedMeansStored, PictureInv, TypeOK, Idle, Shooting, after_save
<1>4. ShotInv'
  BY DEF ShotInv, Shooting, TypeOK
<1> QED
  BY <1>1, <1>3, <1>4

LEMMA OpenPngInv == IInv /\ open_png => IInv'
<1> SUFFICES ASSUME IInv, open_png PROVE IInv'
  OBVIOUS
<1>1. CASE png' = Truncated(png, selected) /\ Proceed("png") /\ UNCHANGED stale
  BY <1>1 DEF open_png, At, Proceed, Truncated, IInv, TypeOK, SlotIsWhole, SaveInv,
              ViewInv, SavedMeansStored, PictureInv, ShotInv, FileStates, Pcs, Idle,
              Shooting
<1>2. CASE NotOpened
  BY <1>2, AfterSaveInv DEF open_png, At, NotOpened, Removed, IInv, TypeOK, FileStates
<1> QED
  BY <1>1, <1>2 DEF open_png

LEMMA WritePngInv == IInv /\ write_png => IInv'
<1> SUFFICES ASSUME IInv, write_png PROVE IInv'
  OBVIOUS
<1>1. CASE png' = Written(png, selected)
  BY <1>1, AfterSaveInv
     DEF write_png, At, Written, IInv, TypeOK, SaveInv, FileStates
<1>2. CASE UNCHANGED png
  BY <1>2, AfterSaveInv DEF write_png, At, IInv, TypeOK, SaveInv
<1> QED
  BY <1>1, <1>2 DEF write_png

LEMMA StepInv == IInv /\ [Next]_vars => IInv'
<1> SUFFICES ASSUME IInv, [Next]_vars PROVE IInv'
  OBVIOUS
<1>1. CASE RunMachine
  BY <1>1, RunInv
<1>2. CASE update
  BY <1>2, UpdateInv
<1>3. CASE close
  BY <1>3, CloseInv
<1>4. ASSUME NEW mode \in {"save", "load"}, open(mode) PROVE IInv'
  BY <1>4, OpenInv
<1>5. CASE state_save_action
  BY <1>5, BeginInv
<1>6. CASE ensure_dir
  BY <1>6, EnsureDirInv
<1>7. CASE open_tmp
  BY <1>7, OpenTmpInv
<1>8. CASE write_tmp
  BY <1>8, WriteTmpInv
<1>9. CASE careful_rename
  BY <1>9, RenameInv
<1>10. CASE open_png
  BY <1>10, OpenPngInv
<1>11. CASE write_png
  BY <1>11, WritePngInv
<1>12. CASE state_load_action
  BY <1>12, LoadInv
<1>13. CASE Die
  BY <1>13, DieInv
<1>14. CASE UNCHANGED vars
  BY <1>14 DEF vars, files, view, IInv, TypeOK, SlotIsWhole, SaveInv, ViewInv,
               SavedMeansStored, PictureInv, ShotInv, Idle, Shooting
<1> QED
  BY <1>1, <1>2, <1>3, <1>4, <1>5, <1>6, <1>7, <1>8, <1>9, <1>10, <1>11, <1>12, <1>13,
     <1>14 DEF Next, UiStep

THEOREM InductiveInvariant == Spec => []IInv
BY InitInv, StepInv, PTL DEF Spec

-------------------------------------------------------------------------------
(* What the invariant says, and the refinement *)

\* Every variable keeps to its type.
THEOREM TypeCorrect == Spec => []TypeOK
BY InductiveInvariant, PTL DEF IInv

\* The file of a slot is missing or whole, wherever the process dies
\* (StateFile::save() and careful_rename()).
THEOREM SlotIsWholeHolds == Spec => []SlotIsWhole
BY InductiveInvariant, PTL DEF IInv

\* The slots shown as used are the slots with a state on disk, but for those
\* whose header could not be read when the window opened and that were not
\* saved since (StateWindow::scan_headers() and after_save()).
THEOREM WindowTellsTheDiskHolds == Spec => []WindowTellsTheDisk
<1>1. IInv => WindowTellsTheDisk
  BY DEF IInv, ViewInv, WindowTellsTheDisk, Idle, Shooting, TypeOK
<1> QED
  BY <1>1, InductiveInvariant, PTL

\* "Saved slot N" is true (Emulator::state_save_action()).
THEOREM SavedMeansStoredHolds == Spec => []SavedMeansStored
BY InductiveInvariant, PTL DEF IInv

\* The picture of a slot belongs to its state unless a save died between them,
\* or could neither open the old picture nor remove it.
THEOREM PictureOfTheSlotHolds == Spec => []PictureOfTheSlot
<1>1. IInv => PictureOfTheSlot
  BY DEF IInv, PictureInv, PictureOfTheSlot, Idle, Shooting
<1> QED
  BY <1>1, InductiveInvariant, PTL

\* Steps of the machine and of the window.
LEMMA WindowStepRefines ==
  ASSUME IInv, \/ RunMachine \/ update \/ close \/ state_load_action \/ Die
               \/ \E mode \in {"save", "load"} : open(mode)
  PROVE  Registers!SlotNext \/ UNCHANGED Registers!slotVars
<1>1. CASE RunMachine
  BY <1>1 DEF RunMachine, Registers!SlotNext, Registers!Run, files, view
<1>2. CASE update
  BY <1>2 DEF update, Registers!slotVars, files
<1>3. CASE close
  BY <1>3 DEF close, Registers!SlotNext, Registers!Thaw, files, Idle
<1>4. CASE state_load_action
  <2>1. CASE UNCHANGED <<machine, window>>
    BY <1>4, <2>1 DEF state_load_action, Registers!slotVars, files
  <2>2. CASE ~UNCHANGED <<machine, window>>
    <3>1. Registers!Load(selected)
      BY <1>4, <2>2, StoreAssumption
         DEF state_load_action, Registers!Load, files, Whole, Idle
    <3> QED
      BY <3>1 DEF Registers!SlotNext, IInv, TypeOK
  <2> QED
    BY <2>1, <2>2
<1>5. CASE Die
  BY <1>5 DEF Die, Registers!SlotNext, Registers!Reboot, files
<1>6. CASE \E mode \in {"save", "load"} : open(mode)
  BY <1>6 DEF open, Registers!SlotNext, Registers!Freeze, files
<1> QED
  BY <1>1, <1>2, <1>3, <1>4, <1>5, <1>6

\* Of a save only the rename shows: it is the save of the register.
LEMMA SaveStepRefines ==
  ASSUME IInv, \/ state_save_action \/ ensure_dir \/ open_tmp \/ write_tmp
               \/ careful_rename \/ open_png \/ write_png
  PROVE  Registers!SlotNext \/ UNCHANGED Registers!slotVars
<1>1. CASE careful_rename
  <2>1. CASE UNCHANGED bin
    BY <1>1, <2>1 DEF careful_rename, At, Registers!slotVars
  <2>2. CASE ReplaceFile
    <3>1. Registers!Save(selected)
      BY <1>1, <2>2
         DEF careful_rename, At, ReplaceFile, Registers!Save, IInv, SaveInv
    <3> QED
      BY <3>1 DEF Registers!SlotNext, IInv, TypeOK
  <2> QED
    BY <1>1, <2>1, <2>2 DEF careful_rename
<1>2. CASE ~careful_rename
  BY <1>2 DEF state_save_action, ensure_dir, open_tmp, write_tmp, open_png, write_png, At,
              files, view, Registers!slotVars
<1> QED
  BY <1>1, <1>2

\* Files, failures and deaths together behave as registers written in one step.
THEOREM StoreImplementsRegisters == Spec => ImplementsSlotRegister
<1>1. Init => Registers!SlotInit
  BY DEF Init, Registers!SlotInit
<1>2. IInv /\ [Next]_vars => [Registers!SlotNext]_(Registers!slotVars)
  <2>1. CASE UNCHANGED vars
    BY <2>1 DEF vars, files, view, Registers!slotVars
  <2>2. ASSUME IInv, Next PROVE Registers!SlotNext \/ UNCHANGED Registers!slotVars
    BY <2>2, WindowStepRefines, SaveStepRefines DEF Next, UiStep
  <2> QED
    BY <2>1, <2>2
<1> QED
  BY <1>1, <1>2, InductiveInvariant, PTL
     DEF Spec, ImplementsSlotRegister, Registers!SlotSpec

-----------------------------------------------------------------------------
(* The order in which a loop meets the members of a set.                   *)

Below(S, x) == {y \in S : y < x}

LEMMA Ranks ==
  ASSUME NEW S \in SUBSET Int, IsFiniteSet(S)
  PROVE  /\ Cardinality(S) \in Nat
         /\ \A x \in S : Cardinality(Below(S, x)) \in 0..(Cardinality(S) - 1)
         /\ \A x, z \in S : x < z => Cardinality(Below(S, x)) < Cardinality(Below(S, z))
<1>0. \A x \in S : x \in Int
  OBVIOUS
<1>1. Cardinality(S) \in Nat
  BY FS_CardinalityType
<1>2. \A x \in S : IsFiniteSet(Below(S, x)) /\ Cardinality(Below(S, x)) \in Nat
  <2> TAKE x \in S
  <2>1. Below(S, x) \in SUBSET S
    BY DEF Below
  <2>2. IsFiniteSet(Below(S, x))
    BY <2>1, FS_Subset
  <2> QED
    BY <2>2, FS_CardinalityType
<1>3. ASSUME NEW x \in S PROVE Cardinality(Below(S, x)) \in 0..(Cardinality(S) - 1)
  <2>1. Below(S, x) \in SUBSET (S \ {x})
    BY DEF Below
  <2>2. IsFiniteSet(S \ {x}) /\ Cardinality(S \ {x}) = Cardinality(S) - 1
    BY FS_RemoveElement
  <2>3. Cardinality(Below(S, x)) <= Cardinality(S \ {x})
    BY <2>1, <2>2, FS_Subset
  <2> QED
    BY <1>1, <1>2, <2>2, <2>3
<1>4. ASSUME NEW x \in S, NEW z \in S, x < z PROVE Cardinality(Below(S, x)) < Cardinality(Below(S, z))
  <2>1. Below(S, x) \union {x} \in SUBSET Below(S, z) /\ x \notin Below(S, x)
    <3>1. \A y \in S : y < x => y < z
      BY <1>0, <1>4
    <3>2. ~(x < x)
      BY <1>0
    <3> QED
      BY <1>4, <3>1, <3>2 DEF Below
  <2>2. Cardinality(Below(S, x) \union {x}) = Cardinality(Below(S, x)) + 1
    BY <1>2, <2>1, FS_AddElement
  <2>3. Cardinality(Below(S, x) \union {x}) <= Cardinality(Below(S, z))
    BY <1>2, <2>1, FS_Subset
  <2> QED
    BY <1>2, <2>2, <2>3
<1> QED
  BY <1>1, <1>3, <1>4

(* Each member has its place, and the places are those of its rank.        *)
LEMMA AscendingIs ==
  ASSUME NEW S \in SUBSET Int, IsFiniteSet(S)
  PROVE  /\ Ascending(S) \in [1..Cardinality(S) -> S]
         /\ \A x \in S : \E k \in 1..Cardinality(S) : Ascending(S)[k] = x
         /\ \A k \in 1..Cardinality(S) : Cardinality(Below(S, Ascending(S)[k])) = k - 1
         /\ \A k \in 1..Cardinality(S), x \in S : Cardinality(Below(S, x)) = k - 1 => Ascending(S)[k] = x
<1> DEFINE n == Cardinality(S)
           f == [x \in S |-> Cardinality(Below(S, x))]
<1>1. n \in Nat /\ \A x, z \in S : Cardinality(Below(S, x)) = Cardinality(Below(S, z)) => x = z
  <2>1. \A x \in S : Cardinality(Below(S, x)) \in Int
    BY Ranks
  <2> QED
    BY <2>1, Ranks
<1>2. f \in Injection(S, 0..(n - 1))
  BY <1>1, Ranks DEF Injection, IsInjective
<1>3. IsFiniteSet(0..(n - 1)) /\ Cardinality(0..(n - 1)) = n
  BY <1>1, FS_Interval
<1>4. f \in Surjection(S, 0..(n - 1))
  BY <1>2, <1>3, FS_Injection
<1>5. \A k \in 1..n : \E x \in S : Cardinality(Below(S, x)) = k - 1
  <2> TAKE k \in 1..n
  <2>1. k - 1 \in 0..(n - 1)
    BY <1>1
  <2> QED
    BY <1>4, <2>1 DEF Surjection
<1>6. Ascending(S) = [k \in 1..n |-> CHOOSE x \in S : Cardinality(Below(S, x)) = k - 1]
  BY DEF Ascending, Below
<1>7. \A k \in 1..n : Ascending(S)[k] \in S /\ Cardinality(Below(S, Ascending(S)[k])) = k - 1
  BY <1>5, <1>6
<1>8. \A k \in 1..n, x \in S : Cardinality(Below(S, x)) = k - 1 => Ascending(S)[k] = x
  BY <1>1, <1>7
<1>9. ASSUME NEW x \in S PROVE \E k \in 1..n : Ascending(S)[k] = x
  <2>1. Cardinality(Below(S, x)) + 1 \in 1..n /\ (Cardinality(Below(S, x)) + 1) - 1 = Cardinality(Below(S, x))
    BY <1>1, Ranks
  <2> QED
    BY <1>8, <2>1
<1> QED
  BY <1>6, <1>7, <1>8, <1>9

(* A set of numbers has a smallest one.                                    *)
LEMMA MinIs ==
  ASSUME NEW S \in SUBSET Int, IsFiniteSet(S), S # {}
  PROVE  Min(S) \in S /\ \A y \in S : Min(S) <= y
<1>0. \A x \in S : x \in Int
  OBVIOUS
<1>1. Cardinality(S) \in Nat /\ Cardinality(S) # 0
  BY FS_CardinalityType, FS_EmptySet
<1>2. 1 \in 1..Cardinality(S) /\ Ascending(S)[1] \in S /\ Cardinality(Below(S, Ascending(S)[1])) = 0
  BY <1>1, AscendingIs
<1>3. IsFiniteSet(Below(S, Ascending(S)[1]))
  <2>1. Below(S, Ascending(S)[1]) \in SUBSET S
    BY DEF Below
  <2> QED
    BY <2>1, FS_Subset
<1>4. Below(S, Ascending(S)[1]) = {}
  BY <1>2, <1>3, FS_EmptySet
<1>5. ASSUME NEW y \in S PROVE Ascending(S)[1] <= y
  <2>1. ~(y < Ascending(S)[1])
    BY <1>4 DEF Below
  <2>2. y \in Int /\ Ascending(S)[1] \in Int
    BY <1>0, <1>2
  <2> QED
    BY <2>1, <2>2
<1> QED
  BY <1>2, <1>5 DEF Min

LEMMA MinOfTwo ==
  ASSUME NEW a \in Int, NEW b \in Int
  PROVE  Min({a, b}) = IF a <= b THEN a ELSE b
BY DEF Min

(* The places of the members of a first part are the same.                 *)
LEMMA AscendingPrefix ==
  ASSUME NEW S \in SUBSET Int, IsFiniteSet(S), NEW n \in 0..Cardinality(S)
  PROVE  LET part == {Ascending(S)[k] : k \in 1..n}
         IN  /\ Cardinality(part) = n
             /\ Ascending(part) = [k \in 1..n |-> Ascending(S)[k]]
<1> DEFINE P == {Ascending(S)[k] : k \in 1..n}
           f == [k \in 1..n |-> Ascending(S)[k]]
<1>1. /\ Cardinality(S) \in Nat /\ n \in Nat /\ Ascending(S) \in [1..Cardinality(S) -> S]
      /\ \A k \in 1..Cardinality(S) : Cardinality(Below(S, Ascending(S)[k])) = k - 1
      /\ \A x \in S : \E k \in 1..Cardinality(S) : Ascending(S)[k] = x
  BY AscendingIs, FS_CardinalityType
<1>2. \A j, k \in 1..Cardinality(S) : Ascending(S)[j] = Ascending(S)[k] => j = k
  BY <1>1
<1>3. f \in Surjection(1..n, P) /\ f \in Injection(1..n, P)
  BY <1>1, <1>2 DEF Surjection, Injection, IsInjective
<1>4. P \in SUBSET S /\ P \in SUBSET Int
  <2>1. \A k \in 1..n : Ascending(S)[k] \in S
    BY <1>1
  <2> QED
    BY <2>1
<1>5. IsFiniteSet(P) /\ Cardinality(P) = n
  <2>1. IsFiniteSet(1..n) /\ Cardinality(1..n) = n
    BY <1>1, FS_Interval
  <2> QED
    BY <1>3, <2>1, FS_Surjection
<1>6. ASSUME NEW k \in 1..n PROVE Ascending(P)[k] = Ascending(S)[k]
  <2> DEFINE x == Ascending(S)[k]
  <2>1. k \in 1..Cardinality(S) /\ x \in P /\ x \in S
    BY <1>1
  <2>2. ASSUME NEW y \in S, y < x PROVE y \in P
    <3>1. PICK j \in 1..Cardinality(S) : Ascending(S)[j] = y
      BY <1>1
    <3>2. Cardinality(Below(S, y)) = j - 1 /\ Cardinality(Below(S, x)) = k - 1
      BY <1>1, <2>1, <3>1
    <3>3. j < k
      <4>1. Cardinality(Below(S, y)) < Cardinality(Below(S, x))
        BY <2>1, <2>2, Ranks
      <4> QED
        BY <3>2, <4>1
    <3> QED
      BY <1>1, <3>1, <3>3
  <2>3. Below(P, x) = Below(S, x)
    BY <1>4, <2>2 DEF Below
  <2>4. Cardinality(Below(P, x)) = k - 1
    BY <1>1, <2>1, <2>3
  <2>5. \A j \in 1..Cardinality(P), z \in P : Cardinality(Below(P, z)) = j - 1 => Ascending(P)[j] = z
    <3> HIDE DEF P
    <3> QED
      BY <1>4, <1>5, AscendingIs
  <2> HIDE DEF P, x
  <2>6. Ascending(P)[k] = x
    BY <1>5, <2>1, <2>4, <2>5
  <2> QED
    BY <2>6 DEF x
<1>7. Ascending(P) \in [1..n -> P]
  BY <1>4, <1>5, AscendingIs
<1>8. Ascending(P) = f
  BY <1>6, <1>7
<1> QED
  BY <1>5, <1>8

(* Members above all others change no place.                               *)
LEMMA AscendingExtends ==
  ASSUME NEW W \in SUBSET Int, IsFiniteSet(W), NEW S \in SUBSET W,
         \A x \in S, y \in W \ S : x < y
  PROVE  /\ IsFiniteSet(S) /\ Cardinality(S) \in Nat /\ Cardinality(W) \in Nat
         /\ Cardinality(S) <= Cardinality(W)
         /\ \A k \in 1..Cardinality(S) : Ascending(W)[k] = Ascending(S)[k]
<1>1. /\ IsFiniteSet(S) /\ Cardinality(S) \in Nat /\ Cardinality(W) \in Nat
      /\ Cardinality(S) <= Cardinality(W) /\ S \in SUBSET Int
  BY FS_Subset, FS_CardinalityType
<1>2. ASSUME NEW k \in 1..Cardinality(S) PROVE Ascending(W)[k] = Ascending(S)[k]
  <2>1. PICK x \in S : x = Ascending(S)[k] /\ Cardinality(Below(S, x)) = k - 1
    <3>1. /\ Ascending(S) \in [1..Cardinality(S) -> S]
          /\ \A i \in 1..Cardinality(S) : Cardinality(Below(S, Ascending(S)[i])) = i - 1
      BY <1>1, AscendingIs
    <3>2. Ascending(S)[k] \in S
      BY <3>1
    <3> QED
      BY <3>1, <3>2
  <2>2. Below(W, x) = Below(S, x)
    <3>1. ASSUME NEW y \in W, y < x PROVE y \in S
      <4>1. y \in Int /\ x \in Int
        BY <1>1
      <4> QED
        BY <3>1, <4>1
    <3> QED
      BY <3>1 DEF Below
  <2>3. k \in 1..Cardinality(W) /\ x \in W /\ Cardinality(Below(W, x)) = k - 1
    BY <1>1, <2>1, <2>2
  <2>4. Ascending(W)[k] = x
    BY <2>3, AscendingIs
  <2> QED
    BY <2>1, <2>4
<1> QED
  BY <1>1, <1>2

-----------------------------------------------------------------------------
(* The numbers of the disk.                                                *)

LEMMA DiskSizes ==
  /\ Entries \in Nat \ {0} /\ FatSlots \in Nat \ {0} /\ Records \in Nat \ {0}
  /\ Clusters \in Nat /\ Clusters > 2 /\ MaxFiles \in Nat /\ Directory = 2
  /\ Full = FatSlots * Records /\ Full \in Nat \ {0}
  /\ \A length \in Lengths : length \in Nat \ {0}
<1>1. \A m, n \in Nat \ {0} : m * n \in Nat \ {0}
  OBVIOUS
<1> QED
  BY <1>1, DirectoryAssumption DEF DirectoryAssumption, Full, Directory

LEMMA CeilDivIs ==
  ASSUME NEW a \in Nat \ {0}, NEW b \in Nat \ {0}
  PROVE  /\ CeilDiv(a, b) \in Nat \ {0}
         /\ CeilDiv(a, b) * b >= a
         /\ (CeilDiv(a, b) - 1) * b < a
<1> DEFINE q == (a + b - 1) \div b
<1>1. q \in Int /\ q * b <= a + b - 1 /\ a + b - 1 < (q + 1) * b
  OBVIOUS
<1>2. (q + 1) * b = (q * b) + b /\ (q - 1) * b = (q * b) - b
  BY <1>1
<1>3. q >= 1
  OBVIOUS
<1> QED
  BY <1>1, <1>2, <1>3 DEF CeilDiv

LEMMA PlacesDiffer ==
  ASSUME NEW b \in Nat \ {0}, NEW j \in Nat, NEW k \in Nat, NEW i \in 1..b, NEW l \in 1..b,
         (j * b) + i = (k * b) + l
  PROVE  j = k /\ i = l
<1>1. ((j * b) + (i - 1)) \div b = j /\ ((j * b) + (i - 1)) % b = i - 1
  OBVIOUS
<1>2. ((k * b) + (l - 1)) \div b = k /\ ((k * b) + (l - 1)) % b = l - 1
  OBVIOUS
<1>3. (j * b) + (i - 1) = (k * b) + (l - 1)
  OBVIOUS
<1> QED
  BY <1>1, <1>2, <1>3

(* What takes the first free ones, clusters or entries, takes different    *)
(* ones and in their order.                                                *)
FirstOf(S, n) == SubSeq(Ascending(S), 1, Min({n, Len(Ascending(S))}))

LEMMA FirstOfIs ==
  ASSUME NEW S \in SUBSET Int, IsFiniteSet(S), NEW n \in Nat
  PROVE  /\ Cardinality(S) \in Nat
         /\ Len(FirstOf(S, n)) = IF n <= Cardinality(S) THEN n ELSE Cardinality(S)
         /\ FirstOf(S, n) \in [1..Len(FirstOf(S, n)) -> S]
         /\ FirstOf(S, n) \in Seq(S)
         /\ \A j, k \in 1..Len(FirstOf(S, n)) : FirstOf(S, n)[j] = FirstOf(S, n)[k] => j = k
         /\ Ascending({FirstOf(S, n)[k] : k \in 1..Len(FirstOf(S, n))}) = FirstOf(S, n)
         /\ \A x \in S, k \in 1..Len(FirstOf(S, n)) :
              FirstOf(S, n)[k] < x \/ \E j \in 1..Len(FirstOf(S, n)) : FirstOf(S, n)[j] = x
<1> DEFINE m == IF n <= Cardinality(S) THEN n ELSE Cardinality(S)
<1>1. /\ Cardinality(S) \in Nat /\ Ascending(S) \in [1..Cardinality(S) -> S]
      /\ \A k \in 1..Cardinality(S) : Cardinality(Below(S, Ascending(S)[k])) = k - 1
  BY AscendingIs, FS_CardinalityType
<1>2. Len(Ascending(S)) = Cardinality(S) /\ Ascending(S) \in Seq(S)
  BY <1>1
<1>3. Min({n, Len(Ascending(S))}) = m /\ m \in 0..Cardinality(S)
  BY <1>1, <1>2, MinOfTwo
<1>4. FirstOf(S, n) = [k \in 1..m |-> Ascending(S)[k]]
  <2>1. FirstOf(S, n) = SubSeq(Ascending(S), 1, m)
    BY <1>3 DEF FirstOf
  <2>2. /\ SubSeq(Ascending(S), 1, m) \in Seq(S) /\ Len(SubSeq(Ascending(S), 1, m)) = m
        /\ \A k \in 1..m : SubSeq(Ascending(S), 1, m)[k] = Ascending(S)[k]
    BY <1>1, <1>2, <1>3
  <2> HIDE DEF m
  <2> QED
    BY <2>1, <2>2
<1>5. Len(FirstOf(S, n)) = m /\ FirstOf(S, n) \in [1..m -> S] /\ FirstOf(S, n) \in Seq(S)
  BY <1>1, <1>3, <1>4
<1>6. \A j, k \in 1..m : FirstOf(S, n)[j] = FirstOf(S, n)[k] => j = k
  BY <1>1, <1>3, <1>4
<1>7. {FirstOf(S, n)[k] : k \in 1..m} = {Ascending(S)[k] : k \in 1..m}
  BY <1>4
<1>8. Ascending({Ascending(S)[k] : k \in 1..m}) = [k \in 1..m |-> Ascending(S)[k]]
  BY <1>3, AscendingPrefix
<1>9. ASSUME NEW x \in S, NEW k \in 1..m, \A j \in 1..m : Ascending(S)[j] # x
      PROVE  Ascending(S)[k] < x
  <2>1. PICK j \in 1..Cardinality(S) : Ascending(S)[j] = x
    BY AscendingIs
  <2>2. j > m /\ k \in 1..Cardinality(S) /\ Ascending(S)[k] \in S
    <3> HIDE DEF m
    <3>1. j \notin 1..m /\ k \in 1..Cardinality(S)
      BY <1>1, <1>3, <1>9, <2>1
    <3> QED
      BY <1>1, <1>3, <2>1, <3>1
  <2>3. Cardinality(Below(S, x)) = j - 1 /\ Cardinality(Below(S, Ascending(S)[k])) = k - 1
    BY <1>1, <2>1, <2>2
  <2>4. x < Ascending(S)[k] => j - 1 < k - 1
    BY <2>2, <2>3, Ranks
  <2>5. x \in Int /\ Ascending(S)[k] \in Int /\ x # Ascending(S)[k]
    BY <1>9, <2>2
  <2> QED
    BY <1>3, <2>2, <2>4, <2>5
<1>10. \A x \in S, k \in 1..m : FirstOf(S, n)[k] < x \/ \E j \in 1..m : FirstOf(S, n)[j] = x
  BY <1>4, <1>9
<1> QED
  BY <1>1, <1>4, <1>5, <1>6, <1>7, <1>8, <1>10

LEMMA SeqIs ==
  ASSUME NEW T, NEW seq \in Seq(T)
  PROVE  Len(seq) \in Nat /\ \A k \in 1..Len(seq) : seq[k] \in T
OBVIOUS

LEMMA SeqWider ==
  ASSUME NEW S, NEW T, S \subseteq T, NEW seq \in Seq(S)
  PROVE  seq \in Seq(T)
<1>1. Len(seq) \in Nat /\ seq \in [1..Len(seq) -> T]
  OBVIOUS
<1> QED
  BY <1>1

LEMMA IndexIs ==
  ASSUME NEW T, NEW seq \in Seq(T), \A j, k \in 1..Len(seq) : seq[j] = seq[k] => j = k,
         NEW k \in 1..Len(seq)
  PROVE  Index(seq[k], seq) = k /\ Contains(seq, seq[k])
BY DEF Index, Contains

-----------------------------------------------------------------------------
(* What one save does to the directory and to the clusters.                *)

FreeClusters == (Directory..(Clusters - 1)) \ UsedClusters
FreeEntries == (1..Entries) \ UsedEntries
Placed(length) == FirstOf(FreeEntries, CeilDiv(length, Full))

LEMMA FreeSets ==
  /\ UsedEntries \in SUBSET (1..Entries) /\ IsFiniteSet(UsedEntries) /\ Cardinality(UsedEntries) \in Nat
  /\ FreeEntries \in SUBSET Int /\ IsFiniteSet(FreeEntries)
  /\ Cardinality(FreeEntries) = Entries - Cardinality(UsedEntries)
  /\ FreeClusters \in SUBSET Int /\ IsFiniteSet(FreeClusters)
<1>1. IsFiniteSet(1..Entries) /\ Cardinality(1..Entries) = Entries
  BY DiskSizes, FS_Interval
<1>2. UsedEntries \in SUBSET (1..Entries)
  BY DEF UsedEntries
<1>3. IsFiniteSet(UsedEntries) /\ Cardinality(UsedEntries) \in Nat
  BY <1>1, <1>2, FS_Subset, FS_CardinalityType
<1>4. IsFiniteSet(FreeEntries) /\ Cardinality(FreeEntries) = Entries - Cardinality(UsedEntries)
  <2>1. (1..Entries) \cap UsedEntries = UsedEntries
    BY <1>2
  <2>2. /\ IsFiniteSet((1..Entries) \ UsedEntries)
        /\ Cardinality((1..Entries) \ UsedEntries)
             = Cardinality(1..Entries) - Cardinality((1..Entries) \cap UsedEntries)
    BY <1>1, FS_Difference
  <2> QED
    BY <1>1, <2>1, <2>2 DEF FreeEntries
<1>5. IsFiniteSet(FreeClusters)
  <2>1. Directory \in Int /\ Clusters - 1 \in Int
    BY DiskSizes
  <2>2. IsFiniteSet(Directory..(Clusters - 1))
    BY <2>1, FS_Interval
  <2> QED
    BY <2>2, FS_Difference DEF FreeClusters
<1> QED
  BY <1>2, <1>3, <1>4, <1>5 DEF FreeEntries, FreeClusters

(* The chain of a file that is let in: free clusters, each once.           *)
LEMMA ChainIs ==
  ASSUME NEW size \in Nat, NEW chain, chain = build_available_chain(size), chain # <<>>
  PROVE  /\ ~Refused(size) /\ chain = FirstOf(FreeClusters, size)
         /\ chain \in Seq(Directory..(Clusters - 1)) /\ chain \in Seq(0..(Clusters - 1))
         /\ Len(chain) \in Nat /\ Len(chain) <= size
         /\ Len(chain) = IF size <= Cardinality(FreeClusters) THEN size ELSE Cardinality(FreeClusters)
         /\ \A x \in 1..Len(chain) : chain[x] \in (Directory..(Clusters - 1)) \ UsedClusters
         /\ \A x, y \in 1..Len(chain) : chain[x] = chain[y] => x = y
<1>1. ~Refused(size) /\ chain = FirstOf(FreeClusters, size)
  BY DEF build_available_chain, FirstOf, FreeClusters
<1>2. /\ Cardinality(FreeClusters) \in Nat
      /\ Len(chain) = IF size <= Cardinality(FreeClusters) THEN size ELSE Cardinality(FreeClusters)
      /\ chain \in [1..Len(chain) -> FreeClusters] /\ chain \in Seq(FreeClusters)
      /\ \A x, y \in 1..Len(chain) : chain[x] = chain[y] => x = y
  <2> DEFINE part == FirstOf(FreeClusters, size)
  <2>1. FreeClusters \in SUBSET Int /\ IsFiniteSet(FreeClusters)
    BY FreeSets
  <2>2. /\ Cardinality(FreeClusters) \in Nat
        /\ Len(part) = IF size <= Cardinality(FreeClusters) THEN size ELSE Cardinality(FreeClusters)
        /\ part \in [1..Len(part) -> FreeClusters] /\ part \in Seq(FreeClusters)
        /\ \A x, y \in 1..Len(part) : part[x] = part[y] => x = y
    BY <2>1, FirstOfIs
  <2> QED
    BY <1>1, <2>2
<1>3. FreeClusters \subseteq Directory..(Clusters - 1) /\ FreeClusters \subseteq 0..(Clusters - 1)
  BY DiskSizes DEF FreeClusters
<1>4. chain \in Seq(Directory..(Clusters - 1)) /\ chain \in Seq(0..(Clusters - 1))
  <2>1. chain \in Seq(FreeClusters)
    BY <1>2
  <2> QED
    BY <1>3, <2>1, SeqWider
<1>5. \A x \in 1..Len(chain) : chain[x] \in (Directory..(Clusters - 1)) \ UsedClusters
  BY <1>2 DEF FreeClusters
<1> QED
  BY <1>1, <1>2, <1>4, <1>5

(* What an entry of a file says of it; what it holds for clusters that the *)
(* chain lacks is left open.                                               *)
IsExtent(x, name, length, j, chain) ==
  /\ x.name = name /\ x.extent = j /\ x # Free
  /\ x.records = IF j = CeilDiv(length, Full) - 1 THEN length - (j * Full) ELSE Full
  /\ x.records \in 1..Full
  /\ x.fat \in [1..FatSlots -> (0..(Clusters - 1)) \union Heap]
  /\ \A i \in 1..FatSlots :
       IF (j * FatSlots) + i > CeilDiv(length, Records) THEN x.fat[i] = 0
       ELSE (j * FatSlots) + i <= Len(chain) => x.fat[i] = chain[(j * FatSlots) + i]

(* What may lie behind a chain: a word for each cluster it lacks.           *)
IsGarbage(garbage, length, chain) ==
  garbage \in [(Len(chain) + 1)..CeilDiv(length, Records) -> Heap]

LEMMA ExtentIs ==
  ASSUME NEW name, NEW length \in Nat \ {0}, NEW j \in 0..(CeilDiv(length, Full) - 1),
         NEW chain \in Seq(0..(Clusters - 1)), NEW garbage, IsGarbage(garbage, length, chain),
         NEW x, x = Extent(name, length, j, chain, garbage)
  PROVE  IsExtent(x, name, length, j, chain)
<1> DEFINE c == CeilDiv(length, Full)
<1>1. c \in Nat \ {0} /\ c * Full >= length /\ (c - 1) * Full < length
  BY DiskSizes, CeilDivIs
<1>2. x.name = name /\ x.extent = j /\ x.records = Min({Full, length - (j * Full)})
  BY DEF Extent
<1>3. x.fat = [i \in 1..FatSlots |->
                 IF (j * FatSlots) + i > CeilDiv(length, Records) THEN 0
                 ELSE IF (j * FatSlots) + i <= Len(chain) THEN chain[(j * FatSlots) + i]
                 ELSE garbage[(j * FatSlots) + i]]
  BY DEF Extent
<1> HIDE DEF c
<1>4. j \in 0..(c - 1) /\ Full \in Nat \ {0} /\ j * Full \in Nat
  BY DiskSizes DEF c
<1>5. Min({Full, length - (j * Full)}) = IF j = c - 1 THEN length - (j * Full) ELSE Full
  <2>1. Min({Full, length - (j * Full)})
          = IF Full <= length - (j * Full) THEN Full ELSE length - (j * Full)
    BY <1>4, MinOfTwo
  <2>2. CASE j = c - 1
    <3>1. c * Full = (j * Full) + Full
      BY <1>1, <1>4, <2>2
    <3> QED
      BY <1>1, <1>4, <2>1, <2>2, <3>1
  <2>3. CASE j # c - 1
    <3>1. (j + 1) * Full = (j * Full) + Full /\ (j + 1) * Full <= (c - 1) * Full
      BY <1>1, <1>4, <2>3
    <3>2. Full <= length - (j * Full)
      BY <1>1, <1>4, <3>1
    <3> QED
      BY <2>1, <2>3, <3>2
  <2> QED
    BY <2>2, <2>3
<1>6. x.records \in 1..Full
  <2>1. CASE j = c - 1
    <3>1. c * Full = (j * Full) + Full
      BY <1>1, <1>4, <2>1
    <3> QED
      BY <1>1, <1>2, <1>4, <1>5, <2>1, <3>1
  <2>2. CASE j # c - 1
    BY <1>2, <1>4, <1>5, <2>2
  <2> QED
    BY <2>1, <2>2
<1>7. x # Free
  BY <1>4, <1>6 DEF Free
<1>8. x.fat \in [1..FatSlots -> (0..(Clusters - 1)) \union Heap]
  <2>1. \A i \in 1..FatSlots : (j * FatSlots) + i \in Nat \ {0}
    <3>1. j * FatSlots \in Nat
      BY <1>4, DiskSizes
    <3> QED
      BY <3>1
  <2>2. \A y \in 1..Len(chain) : chain[y] \in 0..(Clusters - 1)
    BY SeqIs
  <2>3. 0 \in 0..(Clusters - 1)
    BY DiskSizes
  <2>4. Len(chain) \in Nat
    BY SeqIs
  <2>5. ASSUME NEW i \in 1..FatSlots PROVE x.fat[i] \in (0..(Clusters - 1)) \union Heap
    <3>1. PICK y \in Nat \ {0} : y = (j * FatSlots) + i
      BY <2>1
    <3>2. x.fat[i] = IF y > CeilDiv(length, Records) THEN 0
                     ELSE IF y <= Len(chain) THEN chain[y] ELSE garbage[y]
      BY <1>3, <3>1
    <3>3. CASE y > CeilDiv(length, Records)
      BY <2>3, <3>2, <3>3
    <3>4. CASE ~(y > CeilDiv(length, Records)) /\ y <= Len(chain)
      BY <2>2, <2>4, <3>2, <3>4
    <3>5. CASE ~(y > CeilDiv(length, Records)) /\ ~(y <= Len(chain))
      <4>1. CeilDiv(length, Records) \in Nat
        BY DiskSizes, CeilDivIs
      <4>2. y \in (Len(chain) + 1)..CeilDiv(length, Records)
        BY <2>4, <3>5, <4>1
      <4>3. garbage[y] \in Heap
        BY <4>2 DEF IsGarbage
      <4> QED
        BY <3>2, <3>5, <4>3
    <3> QED
      BY <3>3, <3>4, <3>5
  <2> QED
    BY <1>3, <2>5
<1> QED
  BY <1>2, <1>3, <1>5, <1>6, <1>7, <1>8 DEF c, IsExtent

(* What the directory d is after entries p of dir were given to a file.    *)
Allocated(d, p, name, length, chain) ==
  /\ Len(p) \in Nat /\ Len(p) <= Entries /\ Len(p) <= CeilDiv(length, Full)
  /\ CeilDiv(length, Full) <= Entries - Cardinality(UsedEntries) => Len(p) = CeilDiv(length, Full)
  /\ Ascending({p[k] : k \in 1..Len(p)}) = p
  /\ p \in [1..Len(p) -> FreeEntries]
  /\ \A j, k \in 1..Len(p) : p[j] = p[k] => j = k
  /\ \A e \in FreeEntries, k \in 1..Len(p) : p[k] < e \/ \E j \in 1..Len(p) : p[j] = e
  /\ DOMAIN d = 1..Entries /\ \A e \in UsedEntries : d[e] = dir[e]
  /\ \A k \in 1..Len(p) :
       /\ p[k] \in (1..Entries) \ UsedEntries
       /\ k - 1 \in 0..(CeilDiv(length, Full) - 1)
       /\ IsExtent(d[p[k]], name, length, k - 1, chain)
  /\ {e \in 1..Entries : d[e] # Free} = UsedEntries \union {p[k] : k \in 1..Len(p)}

LEMMA AllocatesIs ==
  ASSUME NEW name, NEW length \in Nat \ {0}, NEW chain \in Seq(0..(Clusters - 1)),
         NEW garbage, IsGarbage(garbage, length, chain),
         NEW d, d = allocate_file(name, length, chain, garbage)
  PROVE  Allocated(d, Placed(length), OnDisk(name), length, chain)
<1> DEFINE p == Placed(length)
           n == CeilDiv(length, Full)
<1>1. n \in Nat \ {0}
  BY DiskSizes, CeilDivIs
<1>2. /\ Len(p) = IF n <= Cardinality(FreeEntries) THEN n ELSE Cardinality(FreeEntries)
      /\ Cardinality(FreeEntries) \in Nat
      /\ p \in [1..Len(p) -> FreeEntries] /\ p \in Seq(FreeEntries)
      /\ \A j, k \in 1..Len(p) : p[j] = p[k] => j = k
      /\ Ascending({p[k] : k \in 1..Len(p)}) = p
      /\ \A e \in FreeEntries, k \in 1..Len(p) : p[k] < e \/ \E j \in 1..Len(p) : p[j] = e
  BY <1>1, FreeSets, FirstOfIs DEF Placed
<1>3. d = [e \in 1..Entries |-> IF Contains(p, e)
                                THEN Extent(OnDisk(name), length, Index(e, p) - 1, chain, garbage)
                                ELSE dir[e]]
  BY DEF allocate_file, Placed, FirstOf, FreeEntries
<1> HIDE DEF p, n
<1>4. Len(p) \in Nat /\ Len(p) <= Entries /\ Len(p) <= n
      /\ (n <= Entries - Cardinality(UsedEntries) => Len(p) = n)
  BY <1>1, <1>2, FreeSets, DiskSizes
<1>5. \A k \in 1..Len(p) : p[k] \in FreeEntries /\ Index(p[k], p) = k /\ Contains(p, p[k])
  BY <1>2, IndexIs
<1>6. ASSUME NEW k \in 1..Len(p)
      PROVE  /\ p[k] \in (1..Entries) \ UsedEntries /\ k - 1 \in 0..(n - 1)
             /\ IsExtent(d[p[k]], OnDisk(name), length, k - 1, chain)
  <2>1. p[k] \in (1..Entries) \ UsedEntries
    BY <1>5 DEF FreeEntries
  <2>2. k - 1 \in 0..(n - 1)
    BY <1>1, <1>4
  <2>3. PICK x : x = d[p[k]]
    OBVIOUS
  <2>4. x = Extent(OnDisk(name), length, k - 1, chain, garbage)
    BY <1>3, <1>5, <2>1, <2>3
  <2>5. IsExtent(x, OnDisk(name), length, k - 1, chain)
    BY <2>2, <2>4, ExtentIs DEF n
  <2> QED
    BY <2>1, <2>2, <2>3, <2>5
<1>7. \A e \in 1..Entries : Contains(p, e) <=> \E k \in 1..Len(p) : p[k] = e
  BY DEF Contains
<1>8. ASSUME NEW e \in UsedEntries PROVE d[e] = dir[e]
  <2>1. e \in 1..Entries /\ ~Contains(p, e)
    BY <1>6, <1>7, FreeSets
  <2> QED
    BY <1>3, <2>1
<1>9. \A e \in 1..Entries : ~Contains(p, e) => d[e] = dir[e]
  BY <1>3
<1>10. \A k \in 1..Len(p) : d[p[k]] # Free
  BY <1>6 DEF IsExtent
<1>11. {e \in 1..Entries : d[e] # Free} = UsedEntries \union {p[k] : k \in 1..Len(p)}
  <2>1. ASSUME NEW e \in 1..Entries PROVE d[e] # Free <=> e \in UsedEntries \/ \E k \in 1..Len(p) : p[k] = e
    <3>1. CASE Contains(p, e)
      BY <1>7, <1>10, <3>1
    <3>2. CASE ~Contains(p, e)
      BY <1>7, <1>9, <3>2 DEF UsedEntries
    <3> QED
      BY <3>1, <3>2
  <2>2. \A k \in 1..Len(p) : p[k] \in 1..Entries
    BY <1>6
  <2>3. \A e \in UsedEntries : e \in 1..Entries
    BY FreeSets
  <2>4. ASSUME NEW e PROVE e \in {f \in 1..Entries : d[f] # Free}
                             <=> e \in UsedEntries \union {p[k] : k \in 1..Len(p)}
    BY <2>1, <2>2, <2>3
  <2> QED
    BY <2>4
<1>12. DOMAIN d = 1..Entries
  BY <1>3
<1> QED
  BY <1>2, <1>4, <1>6, <1>8, <1>11, <1>12 DEF Allocated, p, n

PutInto(d, id, length, chain) ==
  /\ DOMAIN d = 0..(Clusters - 1)
  /\ \A x \in 1..Len(chain) : d[chain[x]] = Piece(id, length, x)
  /\ \A c \in 0..(Clusters - 1) : (\A x \in 1..Len(chain) : chain[x] # c) => d[c] = data[c]

LEMMA WritesIs ==
  ASSUME NEW id, NEW length \in Nat \ {0}, NEW chain \in Seq(0..(Clusters - 1)),
         \A x, y \in 1..Len(chain) : chain[x] = chain[y] => x = y,
         NEW d, d = write_data(id, length, chain)
  PROVE  PutInto(d, id, length, chain)
<1>1. d = [c \in 0..(Clusters - 1) |->
             IF Contains(chain, c) THEN Piece(id, length, Index(c, chain)) ELSE data[c]]
  BY DEF write_data
<1>2. ASSUME NEW x \in 1..Len(chain) PROVE d[chain[x]] = Piece(id, length, x)
  <2>1. chain[x] \in 0..(Clusters - 1) /\ Index(chain[x], chain) = x /\ Contains(chain, chain[x])
    BY IndexIs, SeqIs
  <2> QED
    BY <1>1, <2>1
<1>3. \A c \in 0..(Clusters - 1) : (\A x \in 1..Len(chain) : chain[x] # c) => d[c] = data[c]
  BY <1>1 DEF Contains
<1> QED
  BY <1>1, <1>2, <1>3 DEF PutInto

-----------------------------------------------------------------------------
(* What a file is on the disk: its entries in their order, before those of *)
(* any later file the disk takes for it, and its pieces in the clusters    *)
(* they name.                                                              *)
StoredIn(s, chain) ==
  /\ Len(chain) = CeilDiv(s.length, Records)
  /\ \A k \in 1..CeilDiv(s.length, Full) :
       IsExtent(dir[EntriesOf(s.name)[k]], OnDisk(s.name), s.length, k - 1, chain)
  /\ \A x \in 1..Len(chain) : data[chain[x]] = Piece(s.id, s.length, x)

Stored(s) ==
  /\ \E m \in Nat : m >= CeilDiv(s.length, Full) /\ EntriesOf(s.name) \in [1..m -> UsedEntries]
  /\ \E chain \in Seq(0..(Clusters - 1)) : StoredIn(s, chain)

(* The slot that names cluster x of a file.                                *)
LEMMA SlotIs ==
  ASSUME NEW length \in Nat \ {0}, NEW x \in 1..CeilDiv(length, Records)
  PROVE  /\ ((x - 1) \div FatSlots) + 1 \in 1..CeilDiv(length, Full)
         /\ ((x - 1) % FatSlots) + 1 \in 1..FatSlots
         /\ (((x - 1) \div FatSlots) * FatSlots) + (((x - 1) % FatSlots) + 1) = x
<1> DEFINE c == CeilDiv(length, Records)
           n == CeilDiv(length, Full)
           q == (x - 1) \div FatSlots
<1>1. /\ c \in Nat \ {0} /\ (c - 1) * Records < length
      /\ n \in Nat \ {0} /\ n * Full >= length
  BY DiskSizes, CeilDivIs
<1>2. FatSlots \in Nat \ {0} /\ Records \in Nat \ {0} /\ Full = FatSlots * Records
  BY DiskSizes
<1> HIDE DEF c, n
<1>3. c <= n * FatSlots
  <2>1. n * Full = (n * FatSlots) * Records /\ n * FatSlots \in Nat
    BY <1>1, <1>2
  <2>2. (c - 1) * Records < (n * FatSlots) * Records
    <3>1. (c - 1) * Records \in Int /\ n * Full \in Int
      BY <1>1, <1>2
    <3> QED
      BY <1>1, <2>1, <3>1
  <2>3. \A u, v \in Int, w \in Nat \ {0} : u * w < v * w => u < v
    OBVIOUS
  <2>4. c - 1 < n * FatSlots
    BY <1>1, <1>2, <2>1, <2>2, <2>3
  <2> QED
    BY <1>1, <2>1, <2>4
<1>4. x \in 1..c
  BY DEF c
<1>5. q \in Int /\ (x - 1) % FatSlots \in 0..(FatSlots - 1) /\ (q * FatSlots) + ((x - 1) % FatSlots) = x - 1
  BY <1>1, <1>2, <1>4
<1>6. q \in Nat
  BY <1>1, <1>2, <1>4
<1>7. q < n
  <2>1. q * FatSlots < n * FatSlots
    <3>1. q * FatSlots \in Int /\ n * FatSlots \in Int
      BY <1>1, <1>2, <1>5
    <3> QED
      BY <1>1, <1>2, <1>3, <1>4, <1>5, <3>1
  <2>2. \A u, v \in Int, w \in Nat \ {0} : u * w < v * w => u < v
    OBVIOUS
  <2> QED
    BY <1>1, <1>2, <1>5, <2>1, <2>2
<1>8. q + 1 \in 1..n
  BY <1>1, <1>6, <1>7
<1> HIDE DEF q
<1>9. ((x - 1) % FatSlots) + 1 \in 1..FatSlots
  BY <1>2, <1>5
<1>10. (q * FatSlots) + (((x - 1) % FatSlots) + 1) = x
  <2>1. PICK m \in Int : m = (x - 1) % FatSlots /\ (q * FatSlots) + m = x - 1
    BY <1>5
  <2>2. q * FatSlots \in Int
    BY <1>2, <1>6
  <2>3. (q * FatSlots) + (m + 1) = x
    BY <1>1, <1>4, <2>1, <2>2
  <2> QED
    BY <2>1, <2>3
<1> QED
  BY <1>8, <1>9, <1>10 DEF n, q

(* The cluster that record r of a file is in, and where.                   *)
LEMMA RecordPlace ==
  ASSUME NEW length \in Nat \ {0}, NEW r \in 1..length
  PROVE  /\ CeilDiv(r, Records) \in 1..CeilDiv(length, Records)
         /\ ((r - 1) % Records) + 1 \in 1..Records
         /\ ((CeilDiv(r, Records) - 1) * Records) + (((r - 1) % Records) + 1) = r
<1> DEFINE c == CeilDiv(length, Records)
           x == CeilDiv(r, Records)
<1>1. Records \in Nat \ {0} /\ c \in Nat \ {0} /\ c * Records >= length
      /\ x \in Nat \ {0} /\ (x - 1) * Records < r /\ x * Records >= r
  <2>1. Records \in Nat \ {0} /\ r \in Nat \ {0}
    BY DiskSizes
  <2>2. c \in Nat \ {0} /\ c * Records >= length
    BY <2>1, CeilDivIs
  <2>3. x \in Nat \ {0} /\ (x - 1) * Records < r /\ x * Records >= r
    BY <2>1, CeilDivIs
  <2> QED
    BY <2>1, <2>2, <2>3
<1> HIDE DEF c, x
<1>2. x * Records = ((x - 1) * Records) + Records /\ (x - 1) * Records \in Int
  BY <1>1
<1>3. x <= c
  <2>1. (x - 1) * Records < c * Records
    <3>1. c * Records \in Int
      BY <1>1
    <3> QED
      BY <1>1, <1>2, <3>1
  <2>2. \A u, v \in Int, w \in Nat \ {0} : u * w < v * w => u < v
    OBVIOUS
  <2>3. x - 1 < c
    BY <1>1, <2>1, <2>2
  <2> QED
    BY <1>1, <2>3
<1>4. PICK d \in 0..(Records - 1) : r - 1 = ((x - 1) * Records) + d
  <2>1. r - 1 - ((x - 1) * Records) \in 0..(Records - 1)
    BY <1>1, <1>2
  <2> QED
    BY <1>1, <1>2, <2>1
<1>5. (r - 1) % Records = d
  <2>1. \A b \in Nat \ {0}, u \in Int : \A v \in 0..(b - 1) : ((u * b) + v) % b = v
    OBVIOUS
  <2> QED
    BY <1>1, <1>4, <2>1
<1>6. ((x - 1) * Records) + (d + 1) = r /\ d + 1 \in 1..Records
  BY <1>1, <1>2, <1>4
<1> QED
  BY <1>1, <1>3, <1>5, <1>6 DEF c, x

(* What is stored reads back; the last extent has to end it.               *)
LEMMA StoredReads ==
  ASSUME NEW s, Stored(s), s.length \in Nat \ {0}, s.length % Full # 0
  PROVE  read_file(s.name) = Content(s.id, s.length)
<1> DEFINE n == CeilDiv(s.length, Full)
           entries == EntriesOf(s.name)
<1>1. PICK chain \in Seq(0..(Clusters - 1)) : StoredIn(s, chain)
  BY DEF Stored
<1>2. n \in Nat \ {0} /\ Full \in Nat \ {0} /\ Records \in Nat \ {0} /\ FatSlots \in Nat \ {0}
  BY DiskSizes, CeilDivIs
<1>3. PICK m \in Nat : m >= n /\ entries \in [1..m -> UsedEntries] /\ DOMAIN entries = 1..m
  BY DEF Stored
<1>4. \A k \in 1..n : IsExtent(dir[entries[k]], OnDisk(s.name), s.length, k - 1, chain)
  BY <1>1 DEF StoredIn
<1>5. Len(chain) = CeilDiv(s.length, Records) /\ \A x \in 1..Len(chain) : data[chain[x]] = Piece(s.id, s.length, x)
  BY <1>1 DEF StoredIn
<1>6. LastOf(entries) = n
  <2>1. ASSUME NEW k \in 1..n PROVE dir[entries[k]].records # Full <=> k = n
    <3>1. dir[entries[k]].records = IF k - 1 = n - 1 THEN s.length - ((k - 1) * Full) ELSE Full
      BY <1>4 DEF IsExtent
    <3>2. s.length - ((n - 1) * Full) # Full
      <4>1. (((n - 1) + 1) * Full) = ((n - 1) * Full) + Full /\ (n - 1) + 1 = n
        BY <1>2
      <4>2. \A u \in Int, w \in Nat \ {0} : (u * w) % w = 0
        OBVIOUS
      <4>3. (n - 1) * Full \in Int /\ (n * Full) % Full = 0
        BY <1>2, <4>2
      <4> QED
        BY <1>2, <4>1, <4>3
    <3>3. k = n <=> k - 1 = n - 1
      BY <1>2
    <3> QED
      BY <3>1, <3>2, <3>3
  <2> DEFINE partial == {k \in DOMAIN entries : dir[entries[k]].records # Full}
  <2>2. n \in partial /\ partial \in SUBSET (1..m) /\ \A k \in partial : n <= k
    BY <1>2, <1>3, <2>1
  <2>3. Min(partial) = n
    <3> HIDE DEF n, partial
    <3>1. IsFiniteSet(1..m) /\ (1..m) \in SUBSET Int
      BY FS_Interval
    <3>2. IsFiniteSet(partial) /\ partial \in SUBSET Int /\ partial # {}
      BY <2>2, <3>1, FS_Subset
    <3>3. Min(partial) \in partial /\ Min(partial) <= n
      BY <2>2, <3>2, MinIs
    <3>4. n \in Int /\ Min(partial) \in Int /\ n <= Min(partial)
      BY <2>2, <3>2, <3>3
    <3> QED
      BY <3>3, <3>4
  <2>4. LastOf(entries) = IF partial = {} THEN 0 ELSE Min(partial)
    BY DEF LastOf
  <2> HIDE DEF n, entries, partial
  <2> QED
    BY <2>2, <2>3, <2>4
<1>7. (dir[entries[n]].extent * Full) + dir[entries[n]].records = s.length
  <2>1. n \in 1..n
    BY <1>2
  <2>2. dir[entries[n]].extent = n - 1 /\ dir[entries[n]].records = s.length - ((n - 1) * Full)
    BY <1>4, <2>1 DEF IsExtent
  <2>3. (n - 1) * Full \in Int
    BY <1>2
  <2> QED
    BY <2>2, <2>3
<1>8. ASSUME NEW r \in 1..s.length PROVE RecordAt(entries, r) = <<s.id, r>>
  <2>1. PICK x \in 1..CeilDiv(s.length, Records) : x = CeilDiv(r, Records)
    BY RecordPlace
  <2>2. PICK t \in 1..Records : t = ((r - 1) % Records) + 1 /\ ((x - 1) * Records) + t = r
    BY <2>1, RecordPlace
  <2>3. PICK k \in 1..n, i \in 1..FatSlots :
          /\ k = ((x - 1) \div FatSlots) + 1 /\ i = ((x - 1) % FatSlots) + 1
          /\ ((k - 1) * FatSlots) + i = x
    <3>1. \A q \in Int : (q + 1) - 1 = q
      OBVIOUS
    <3>2. ((x - 1) \div FatSlots) \in Int
      BY <1>2
    <3> QED
      BY <3>1, <3>2, SlotIs
  <2>4. dir[entries[k]].fat[i] = chain[x]
    <3>1. IF ((k - 1) * FatSlots) + i > CeilDiv(s.length, Records) THEN dir[entries[k]].fat[i] = 0
          ELSE ((k - 1) * FatSlots) + i <= Len(chain)
                 => dir[entries[k]].fat[i] = chain[((k - 1) * FatSlots) + i]
      BY <1>4, <2>3 DEF IsExtent
    <3>2. ~(x > CeilDiv(s.length, Records)) /\ x <= Len(chain)
      BY <1>5, <2>1
    <3> QED
      BY <2>3, <3>1, <3>2
  <2>5. RecordAt(entries, r) = Piece(s.id, s.length, x)[t]
    <3>1. RecordAt(entries, r) = data[ClusterAt(entries, x)][t]
      BY <2>1, <2>2 DEF RecordAt
    <3>2. ClusterAt(entries, x) = chain[x]
      BY <2>3, <2>4 DEF ClusterAt
    <3> QED
      BY <1>5, <2>1, <3>1, <3>2
  <2> QED
    BY <2>2, <2>5 DEF Piece
<1> HIDE DEF n, entries
<1>9. read_file(s.name) = [r \in 1..s.length |-> RecordAt(entries, r)]
  BY <1>2, <1>6, <1>7 DEF read_file, entries
<1> QED
  BY <1>8, <1>9 DEF Content

-----------------------------------------------------------------------------
NamesInv ==
  /\ IsFiniteSet(saved) /\ IsFiniteSet(taken) /\ Cardinality(taken) <= Cardinality(saved)
  /\ \A e \in UsedEntries : \E s \in saved : dir[e].name = OnDisk(s.name)
  /\ \A s \in saved : s.id \in 1..Cardinality(saved) /\ s.name \in taken /\ s.length \in Nat \ {0}

StoredInv == \A s \in saved : s.whole /\ ~Blurred(s) => Stored(s)

(* Nothing is ever erased: the entries in use are the first ones.           *)
Packed == \A e \in UsedEntries, f \in FreeEntries : e < f

DiskInv == MountTypeOK /\ NamesInv /\ StoredInv /\ Packed /\ ClustersDisjoint

LEMMA InitDisk == MountInit => DiskInv
<1> SUFFICES ASSUME MountInit PROVE DiskInv
  OBVIOUS
<1>1. UsedEntries = {} /\ taken = {} /\ saved = {}
  BY DEF MountInit, UsedEntries
<1>2. MountTypeOK /\ ClustersDisjoint /\ StoredInv /\ Packed
  BY <1>1 DEF MountInit, MountTypeOK, ClustersDisjoint, StoredInv, Packed
<1>3. NamesInv
  BY <1>1, FS_EmptySet DEF NamesInv
<1> QED
  BY <1>2, <1>3 DEF DiskInv

(* unique_cpm_filename() finds a name that no file has: there are more     *)
(* numbers than files.                                                     *)
LEMMA NewName ==
  ASSUME NamesInv, Cardinality(saved) < MaxFiles, NEW host \in Names
  PROVE  unique_cpm_filename(host) \notin taken
<1> DEFINE F == {n \in 1..(MaxFiles + 1) : Numbered(host, n) \notin taken}
           f == [n \in 1..(MaxFiles + 1) |-> Numbered(host, n)]
<1>1. /\ IsFiniteSet(taken) /\ Cardinality(taken) \in Nat /\ Cardinality(saved) \in Nat
      /\ Cardinality(taken) <= Cardinality(saved) /\ MaxFiles \in Nat
  BY FS_CardinalityType, DiskSizes DEF NamesInv
<1>2. IsFiniteSet(1..(MaxFiles + 1)) /\ Cardinality(1..(MaxFiles + 1)) = MaxFiles + 1
  <2>1. 1 \in Int /\ MaxFiles + 1 \in Int /\ MaxFiles >= 0
    BY <1>1
  <2>2. /\ IsFiniteSet(1..(MaxFiles + 1))
        /\ Cardinality(1..(MaxFiles + 1)) = IF 1 > MaxFiles + 1 THEN 0 ELSE (MaxFiles + 1) - 1 + 1
    BY <2>1, FS_Interval
  <2> QED
    BY <1>1, <2>1, <2>2
<1>3. F # {}
  <2> SUFFICES ASSUME F = {} PROVE FALSE
    OBVIOUS
  <2>1. f \in [1..(MaxFiles + 1) -> taken]
    OBVIOUS
  <2>2. f \in Injection(1..(MaxFiles + 1), taken)
    BY <2>1, DirectoryAssumption DEF DirectoryAssumption, Injection, IsInjective
  <2>3. Cardinality(1..(MaxFiles + 1)) <= Cardinality(taken)
    BY <1>1, <2>2, FS_Injection
  <2> QED
    BY <1>1, <1>2, <2>3
<1>4. Min(F) \in F
  <2>1. F \in SUBSET (1..(MaxFiles + 1)) /\ F \in SUBSET Int
    OBVIOUS
  <2>2. IsFiniteSet(F)
    BY <1>2, <2>1, FS_Subset
  <2> QED
    BY <1>3, <2>1, <2>2, MinIs
<1>5. Numbered(host, Min(F)) \notin taken
  BY <1>4
<1> QED
  BY <1>5 DEF unique_cpm_filename

(* A stored file stays where it is when only what is free changes.         *)
LEMMA StoredStays ==
  ASSUME NEW s, Stored(s), s.length \in Nat \ {0},
         \A e \in UsedEntries : e \in UsedEntries' /\ dir'[e] = dir[e],
         \A e \in UsedEntries, f \in UsedEntries' \ UsedEntries : e < f,
         \A c \in UsedClusters \cap (0..(Clusters - 1)) : data'[c] = data[c]
  PROVE  Stored(s)'
<1> DEFINE n == CeilDiv(s.length, Full)
           entries == EntriesOf(s.name)
           S == {e \in UsedEntries : dir[e].name = OnDisk(s.name)}
           W == {e \in UsedEntries' : dir'[e].name = OnDisk(s.name)}
<1>1. /\ W \in SUBSET Int /\ IsFiniteSet(W) /\ W \in SUBSET UsedEntries'
      /\ S \in SUBSET W /\ \A x \in S, y \in W \ S : x < y
  <2>1. UsedEntries' \in SUBSET (1..Entries)
    BY DEF UsedEntries
  <2>2. W \in SUBSET UsedEntries' /\ S \in SUBSET W /\ \A x \in S, y \in W \ S : x < y
    OBVIOUS
  <2>3. IsFiniteSet(W) /\ W \in SUBSET Int
    <3> HIDE DEF W
    <3>1. 1 \in Int /\ Entries \in Int
      BY DiskSizes
    <3>2. IsFiniteSet(1..Entries) /\ W \in SUBSET (1..Entries)
      BY <2>1, <2>2, <3>1, FS_Interval
    <3>3. IsFiniteSet(W)
      BY <3>2, FS_Subset
    <3> QED
      BY <3>1, <3>2, <3>3
  <2> QED
    BY <2>2, <2>3
<1>2. /\ Cardinality(S) \in Nat /\ Cardinality(W) \in Nat /\ Cardinality(S) <= Cardinality(W)
      /\ Ascending(S) \in [1..Cardinality(S) -> S] /\ Ascending(W) \in [1..Cardinality(W) -> W]
      /\ \A k \in 1..Cardinality(S) : Ascending(W)[k] = Ascending(S)[k]
  <2> HIDE DEF S, W
  <2>1. /\ IsFiniteSet(S) /\ Cardinality(S) \in Nat /\ Cardinality(W) \in Nat
        /\ Cardinality(S) <= Cardinality(W)
        /\ \A k \in 1..Cardinality(S) : Ascending(W)[k] = Ascending(S)[k]
    BY <1>1, AscendingExtends
  <2>2. S \in SUBSET Int
    BY <1>1
  <2>3. Ascending(S) \in [1..Cardinality(S) -> S]
    BY <2>1, <2>2, AscendingIs
  <2>4. Ascending(W) \in [1..Cardinality(W) -> W]
    BY <1>1, AscendingIs
  <2> QED
    BY <2>1, <2>3, <2>4
<1>e. entries = Ascending(S) /\ EntriesOf(s.name)' = Ascending(W)
  BY DEF EntriesOf
<1>3. PICK chain \in Seq(0..(Clusters - 1)) : StoredIn(s, chain)
  BY DEF Stored
<1>4. n \in Nat /\ Cardinality(S) >= n /\ \A k \in 1..n : entries[k] \in UsedEntries
  <2>1. PICK m \in Nat : m >= n /\ entries \in [1..m -> UsedEntries]
    BY DEF Stored
  <2>2. m = Cardinality(S)
    <3>1. 1..m = 1..Cardinality(S)
      BY <1>2, <1>e, <2>1
    <3> HIDE DEF S
    <3> QED
      BY <1>2, <2>1, <3>1
  <2>3. n \in Nat
    BY DiskSizes, CeilDivIs
  <2>4. \A k \in 1..n : k \in 1..m
    BY <2>1, <2>3
  <2> HIDE DEF n, entries, S
  <2> QED
    BY <2>1, <2>2, <2>3, <2>4
<1>5. \A k \in 1..n : dir'[EntriesOf(s.name)'[k]] = dir[entries[k]]
  <2>1. \A k \in 1..n : EntriesOf(s.name)'[k] = entries[k]
    <3> HIDE DEF n, entries, S, W
    <3> QED
      BY <1>2, <1>4, <1>e
  <2> QED
    BY <1>4, <2>1
<1>6. ASSUME NEW x \in 1..Len(chain) PROVE data'[chain[x]] = data[chain[x]]
  <2>1. x \in 1..CeilDiv(s.length, Records) /\ chain[x] \in 0..(Clusters - 1)
    BY <1>3, SeqIs DEF StoredIn
  <2>2. PICK k \in 1..n, i \in 1..FatSlots : ((k - 1) * FatSlots) + i = x
    <3>1. \A q \in Int : (q + 1) - 1 = q
      OBVIOUS
    <3>2. ((x - 1) \div FatSlots) \in Int
      BY <2>1, DiskSizes
    <3> QED
      BY <2>1, <3>1, <3>2, SlotIs
  <2>3. dir[entries[k]].fat[i] = chain[x]
    <3>1. IsExtent(dir[entries[k]], OnDisk(s.name), s.length, k - 1, chain) /\ Len(chain) = CeilDiv(s.length, Records)
      BY <1>3 DEF StoredIn
    <3>2. IF ((k - 1) * FatSlots) + i > CeilDiv(s.length, Records) THEN dir[entries[k]].fat[i] = 0
          ELSE ((k - 1) * FatSlots) + i <= Len(chain)
                 => dir[entries[k]].fat[i] = chain[((k - 1) * FatSlots) + i]
      BY <3>1 DEF IsExtent
    <3>3. ~(x > CeilDiv(s.length, Records)) /\ x <= Len(chain)
      BY <2>1, <3>1
    <3> QED
      BY <2>2, <3>2, <3>3
  <2>4. chain[x] \in UsedClusters
    <3>1. PICK e \in UsedEntries : e = entries[k]
      BY <1>4
    <3> QED
      BY <2>3, <3>1 DEF UsedClusters
  <2> QED
    BY <2>1, <2>4
<1>7. StoredIn(s, chain)'
  BY <1>3, <1>5, <1>6 DEF StoredIn
<1>8. \E m \in Nat : m >= n /\ EntriesOf(s.name)' \in [1..m -> UsedEntries']
  <2>1. Cardinality(W) >= n
    <3> HIDE DEF n, S, W
    <3> QED
      BY <1>2, <1>4
  <2>2. EntriesOf(s.name)' \in [1..Cardinality(W) -> UsedEntries']
    <3> HIDE DEF W
    <3> QED
      BY <1>1, <1>2, <1>e
  <2> QED
    BY <1>2, <2>1, <2>2
<1> QED
  BY <1>7, <1>8 DEF Stored

(* A slot of a whole file that names a cluster names one of its chain.     *)
LEMMA SlotOfChain ==
  ASSUME NEW x, NEW name, NEW length \in Nat \ {0}, NEW j \in Nat, NEW chain \in Seq(0..(Clusters - 1)),
         IsExtent(x, name, length, j, chain), Len(chain) = CeilDiv(length, Records),
         NEW i \in 1..FatSlots, x.fat[i] # 0
  PROVE  (j * FatSlots) + i \in 1..Len(chain) /\ x.fat[i] = chain[(j * FatSlots) + i]
<1>1. IF (j * FatSlots) + i > CeilDiv(length, Records) THEN x.fat[i] = 0
      ELSE (j * FatSlots) + i <= Len(chain) => x.fat[i] = chain[(j * FatSlots) + i]
  BY DEF IsExtent
<1>2. j * FatSlots \in Nat /\ Len(chain) \in Nat
  BY DiskSizes, SeqIs
<1> QED
  BY <1>1, <1>2, DiskSizes

LEMMA DiskStep == DiskInv /\ [MountNext]_mountVars => DiskInv'
<1> SUFFICES ASSUME DiskInv, [MountNext]_mountVars PROVE DiskInv'
  OBVIOUS
<1>0. MountTypeOK /\ NamesInv /\ StoredInv /\ Packed /\ ClustersDisjoint
  BY DEF DiskInv
<1>1. CASE MountFile
  <2>1. PICK host \in Names, length \in Lengths : save_file(host, length)
    BY <1>1 DEF MountFile
  <2>a. PICK size, n : size = CeilDiv(length, Records) /\ n = CeilDiv(length, Full)
    OBVIOUS
  <2>b. PICK chain, name, id : /\ chain = build_available_chain(size) /\ name = unique_cpm_filename(host)
                               /\ id = Cardinality(saved) + 1
    OBVIOUS
  <2>c. PICK whole, p : /\ whole = (Len(chain) = size /\ n <= Entries - Cardinality(UsedEntries))
                        /\ p = Placed(length)
    OBVIOUS
  <2>d. PICK new : new = [id |-> id, name |-> name, length |-> length, whole |-> whole]
    OBVIOUS
  <2>2. length \in Nat \ {0} /\ size \in Nat \ {0} /\ n \in Nat \ {0}
    BY <2>a, DiskSizes, CeilDivIs
  <2>3. /\ chain \in Seq(0..(Clusters - 1)) /\ Len(chain) \in Nat /\ Len(chain) <= size
        /\ \A x \in 1..Len(chain) : chain[x] \in (Directory..(Clusters - 1)) \ UsedClusters
        /\ \A x, y \in 1..Len(chain) : chain[x] = chain[y] => x = y
    <3>1. chain # <<>>
      BY <2>1, <2>a, <2>b DEF save_file
    <3> QED
      BY <2>2, <2>b, <3>1, ChainIs
  <2>4. PICK garbage : /\ dir' = allocate_file(name, length, chain, garbage)
                       /\ IsGarbage(garbage, length, chain)
    BY <2>1, <2>a, <2>b DEF save_file, IsGarbage
  <2>5. /\ data' = write_data(id, length, chain) /\ taken' = taken \union {name}
        /\ short' = size - Len(chain) /\ saved' = saved \union {new} /\ thrown' = thrown
    BY <2>1, <2>a, <2>b, <2>c, <2>d DEF save_file
  <2>6. short = 0 /\ Cardinality(saved) < MaxFiles /\ name \notin taken
    BY <1>0, <1>1, <2>b, NewName DEF MountFile
  <2>7. Allocated(dir', p, OnDisk(name), length, chain)
    BY <2>2, <2>3, <2>4, <2>c, AllocatesIs
  <2>e. /\ Len(p) \in Nat /\ Len(p) <= Entries /\ Len(p) <= n
        /\ n <= Entries - Cardinality(UsedEntries) => Len(p) = n
        /\ Ascending({p[k] : k \in 1..Len(p)}) = p
        /\ p \in [1..Len(p) -> FreeEntries]
        /\ \A e \in FreeEntries, k \in 1..Len(p) : p[k] < e \/ \E j \in 1..Len(p) : p[j] = e
    BY <2>7, <2>a DEF Allocated
  <2>f. /\ DOMAIN dir' = 1..Entries /\ \A e \in UsedEntries : dir'[e] = dir[e]
        /\ \A j, k \in 1..Len(p) : p[j] = p[k] => j = k
        /\ {e \in 1..Entries : dir'[e] # Free} = UsedEntries \union {p[k] : k \in 1..Len(p)}
    BY <2>7 DEF Allocated
  <2>g. \A k \in 1..Len(p) : /\ p[k] \in (1..Entries) \ UsedEntries
                             /\ k - 1 \in 0..(n - 1)
                             /\ IsExtent(dir'[p[k]], OnDisk(name), length, k - 1, chain)
    BY <2>7, <2>a DEF Allocated
  <2>8. UsedEntries' = UsedEntries \union {p[k] : k \in 1..Len(p)}
    BY <2>f DEF UsedEntries, Free
  <2>9. /\ DOMAIN data' = 0..(Clusters - 1)
        /\ \A x \in 1..Len(chain) : data'[chain[x]] = Piece(id, length, x)
        /\ \A c \in 0..(Clusters - 1) : (\A x \in 1..Len(chain) : chain[x] # c) => data'[c] = data[c]
    <3>1. PutInto(data', id, length, chain)
      BY <2>2, <2>3, <2>5, WritesIs
    <3> QED
      BY <3>1 DEF PutInto
  <2>10. \A k \in 1..Len(p) : /\ dir'[p[k]].name = OnDisk(name) /\ dir'[p[k]].extent = k - 1
                              /\ dir'[p[k]].records \in 1..Full
                              /\ dir'[p[k]].fat \in [1..FatSlots -> (0..(Clusters - 1)) \union Heap]
    BY <2>g DEF IsExtent
  <2>h. ASSUME short' = 0, NEW k \in 1..Len(p)
        PROVE  dir'[p[k]].fat \in [1..FatSlots -> 0..(Clusters - 1)]
    <3>1. ASSUME NEW i \in 1..FatSlots PROVE dir'[p[k]].fat[i] \in 0..(Clusters - 1)
      <4>1. PICK x, m : x = dir'[p[k]] /\ m = k - 1
        OBVIOUS
      <4>2. IsExtent(x, OnDisk(name), length, m, chain) /\ m \in Nat /\ Len(chain) = CeilDiv(length, Records)
        BY <2>2, <2>3, <2>5, <2>a, <2>g, <2>h, <4>1
      <4>3. ASSUME x.fat[i] # 0 PROVE \E y \in 1..Len(chain) : x.fat[i] = chain[y]
        <5>1. (m * FatSlots) + i \in 1..Len(chain) /\ x.fat[i] = chain[(m * FatSlots) + i]
          BY <2>2, <2>3, <4>2, <4>3, SlotOfChain
        <5> QED
          BY <5>1
      <4>4. \A y \in 1..Len(chain) : chain[y] \in 0..(Clusters - 1)
        BY <2>3, SeqIs
      <4>5. 0 \in 0..(Clusters - 1)
        BY DiskSizes
      <4>6. x.fat[i] \in 0..(Clusters - 1)
        BY <4>3, <4>4, <4>5
      <4> QED
        BY <4>1, <4>6
    <3> QED
      BY <2>10, <3>1
  <2>11. MountTypeOK'
    <3>1. ASSUME NEW e \in UsedEntries'
          PROVE  /\ dir'[e].extent \in 0..(Entries - 1) /\ dir'[e].records \in 1..Full
                 /\ dir'[e].fat \in [1..FatSlots -> (0..(Clusters - 1)) \union Heap]
                 /\ short' = 0 => dir'[e].fat \in [1..FatSlots -> 0..(Clusters - 1)]
      <4>1. CASE e \in UsedEntries
        BY <1>0, <2>6, <2>f, <4>1 DEF MountTypeOK
      <4>2. ASSUME NEW k \in 1..Len(p), e = p[k]
            PROVE  /\ dir'[e].extent \in 0..(Entries - 1) /\ dir'[e].records \in 1..Full
                   /\ dir'[e].fat \in [1..FatSlots -> (0..(Clusters - 1)) \union Heap]
                   /\ short' = 0 => dir'[e].fat \in [1..FatSlots -> 0..(Clusters - 1)]
        <5>1. k - 1 \in 0..(Entries - 1)
          BY <2>e, DiskSizes
        <5> QED
          BY <2>10, <2>h, <4>2, <5>1
      <4> QED
        BY <2>8, <4>1, <4>2
    <3>2. short' \in Nat /\ thrown' \in BOOLEAN
      BY <1>0, <2>2, <2>3, <2>5 DEF MountTypeOK
    <3> QED
      BY <2>f, <2>9, <3>1, <3>2 DEF MountTypeOK, Full
  <2>12. new.id = id /\ new.name = name /\ new.length = length /\ new.whole = whole
    BY <2>d
  <2>13. NamesInv'
    <3>1. /\ IsFiniteSet(saved) /\ IsFiniteSet(taken) /\ Cardinality(taken) <= Cardinality(saved)
          /\ Cardinality(saved) \in Nat /\ Cardinality(taken) \in Nat
      BY <1>0, FS_CardinalityType DEF NamesInv
    <3>2. new \notin saved
      BY <1>0, <2>12, <2>b, <3>1 DEF NamesInv
    <3>3. IsFiniteSet(saved') /\ Cardinality(saved') = Cardinality(saved) + 1
      BY <2>5, <3>1, <3>2, FS_AddElement
    <3>4. IsFiniteSet(taken') /\ Cardinality(taken') = Cardinality(taken) + 1
      BY <2>5, <2>6, <3>1, FS_AddElement
    <3>5. \A e \in UsedEntries' : \E s \in saved' : dir'[e].name = OnDisk(s.name)
      <4>1. \A e \in UsedEntries : \E s \in saved : dir'[e].name = OnDisk(s.name)
        BY <1>0, <2>f DEF NamesInv
      <4>2. \A k \in 1..Len(p) : dir'[p[k]].name = OnDisk(new.name)
        BY <2>10, <2>12
      <4> QED
        BY <2>5, <2>8, <4>1, <4>2
    <3>6. ASSUME NEW s \in saved'
          PROVE  s.id \in 1..Cardinality(saved') /\ s.name \in taken' /\ s.length \in Nat \ {0}
      <4>1. CASE s \in saved
        BY <1>0, <2>5, <3>1, <3>3, <4>1 DEF NamesInv
      <4>2. CASE s = new
        BY <2>2, <2>5, <2>b, <2>12, <3>1, <3>3, <4>2
      <4> QED
        BY <2>5, <4>1, <4>2
    <3> QED
      BY <3>1, <3>3, <3>4, <3>5, <3>6 DEF NamesInv
  <2>14. StoredInv'
    <3>1. ASSUME NEW s \in saved, s.whole, ~Blurred(s)' PROVE Stored(s)'
      <4>1. Stored(s) /\ s.length \in Nat \ {0}
        <5>1. ~Blurred(s)
          BY <2>5, <3>1 DEF Blurred
        <5> QED
          BY <1>0, <3>1, <5>1 DEF StoredInv, NamesInv
      <4>2. \A e \in UsedEntries : e \in UsedEntries' /\ dir'[e] = dir[e]
        BY <2>f, <2>8
      <4>3. \A e \in UsedEntries, f \in UsedEntries' \ UsedEntries : e < f
        BY <1>0, <2>8, <2>e DEF Packed
      <4>4. \A c \in UsedClusters \cap (0..(Clusters - 1)) : data'[c] = data[c]
        BY <2>3, <2>9
      <4> QED
        BY <4>1, <4>2, <4>3, <4>4, StoredStays
    <3>2. ASSUME whole, ~Blurred(new)' PROVE Stored(new)'
      <4>1. Len(chain) = size /\ Len(p) = n
        BY <2>c, <2>e, <3>2
      <4>2. {e \in UsedEntries' : dir'[e].name = OnDisk(name)} = {p[k] : k \in 1..Len(p)}
        <5>1. ASSUME NEW e \in UsedEntries PROVE dir'[e].name # OnDisk(name)
          <6>1. PICK t \in saved : dir'[e].name = OnDisk(t.name)
            BY <1>0, <2>f DEF NamesInv
          <6>2. t.id < new.id /\ t.name # new.name /\ t \in saved'
            <7>1. t.id \in 1..Cardinality(saved) /\ Cardinality(saved) \in Nat /\ t.name \in taken
              BY <1>0, FS_CardinalityType DEF NamesInv
            <7> QED
              BY <2>5, <2>6, <2>12, <2>b, <7>1
          <6>3. OnDisk(t.name) # OnDisk(new.name)
            BY <3>2, <6>2 DEF Blurred
          <6> QED
            BY <2>12, <6>1, <6>3
        <5> QED
          BY <2>8, <2>10, <5>1
      <4>3. EntriesOf(new.name)' = p
        BY <2>e, <2>12, <4>2 DEF EntriesOf
      <4>4. p \in [1..n -> UsedEntries'] /\ n \in Nat /\ n >= n
        <5>1. \A k \in 1..n : p[k] \in UsedEntries'
          BY <2>8, <4>1
        <5> QED
          BY <2>2, <2>e, <4>1, <5>1
      <4>5. \A k \in 1..n : IsExtent(dir'[p[k]], OnDisk(name), length, k - 1, chain)
        BY <2>g, <4>1
      <4>6. \A x \in 1..Len(chain) : data'[chain[x]] = Piece(id, length, x)
        BY <2>9
      <4>7. StoredIn(new, chain)'
        BY <2>12, <2>a, <4>1, <4>3, <4>5, <4>6 DEF StoredIn
      <4> QED
        BY <2>3, <2>12, <2>a, <4>3, <4>4, <4>7 DEF Stored
    <3> QED
      BY <2>5, <2>12, <3>1, <3>2 DEF StoredInv
  <2>15. ClustersDisjoint'
    <3> SUFFICES ASSUME short' = 0,
                        NEW e \in UsedEntries', NEW f \in UsedEntries',
                        NEW i \in 1..FatSlots, NEW j \in 1..FatSlots
                 PROVE  /\ dir'[e].fat[i] = dir'[f].fat[j] /\ dir'[e].fat[i] # 0 => e = f /\ i = j
                        /\ dir'[e].fat[i] # 0 => dir'[e].fat[i] >= Directory
      BY DEF ClustersDisjoint, Directory
    <3>1. Len(chain) = size
      BY <2>2, <2>3, <2>5
    <3>2. ASSUME NEW k \in 1..Len(p), NEW l \in 1..FatSlots, dir'[p[k]].fat[l] # 0
          PROVE  /\ ((k - 1) * FatSlots) + l \in 1..Len(chain)
                 /\ dir'[p[k]].fat[l] = chain[((k - 1) * FatSlots) + l]
      <4>1. PICK x, m : x = dir'[p[k]] /\ m = k - 1
        OBVIOUS
      <4>2. IsExtent(x, OnDisk(name), length, m, chain) /\ m \in Nat
        BY <2>2, <2>g, <4>1
      <4>3. x.fat[l] # 0 /\ Len(chain) = CeilDiv(length, Records)
        BY <2>a, <3>1, <3>2, <4>1
      <4>4. (m * FatSlots) + l \in 1..Len(chain) /\ x.fat[l] = chain[(m * FatSlots) + l]
        BY <2>2, <2>3, <4>2, <4>3, SlotOfChain
      <4> QED
        BY <4>1, <4>4
    <3>3. \A g \in UsedEntries, l \in 1..FatSlots :
            dir'[g] = dir[g] /\ dir[g].fat[l] \in UsedClusters
      BY <2>f DEF UsedClusters
    <3>4. ASSUME dir'[e].fat[i] # 0 PROVE dir'[e].fat[i] >= Directory
      <4>1. CASE e \in UsedEntries
        BY <1>0, <2>6, <3>3, <3>4, <4>1 DEF ClustersDisjoint
      <4>2. ASSUME NEW k \in 1..Len(p), e = p[k] PROVE dir'[e].fat[i] >= Directory
        <5>1. PICK y \in 1..Len(chain) : dir'[e].fat[i] = chain[y]
          BY <3>2, <3>4, <4>2
        <5>2. chain[y] \in Directory..(Clusters - 1)
          BY <2>3
        <5> QED
          BY <5>1, <5>2, DiskSizes
      <4> QED
        BY <2>8, <4>1, <4>2
    <3>5. ASSUME dir'[e].fat[i] = dir'[f].fat[j], dir'[e].fat[i] # 0 PROVE e = f /\ i = j
      <4>1. CASE e \in UsedEntries /\ f \in UsedEntries
        BY <1>0, <2>6, <3>3, <3>5, <4>1 DEF ClustersDisjoint
      <4>2. ASSUME NEW k \in 1..Len(p), e = p[k], f \in UsedEntries PROVE FALSE
        BY <2>3, <3>2, <3>3, <3>5, <4>2
      <4>3. ASSUME NEW k \in 1..Len(p), f = p[k], e \in UsedEntries PROVE FALSE
        BY <2>3, <3>2, <3>3, <3>5, <4>3
      <4>4. ASSUME NEW k \in 1..Len(p), NEW l \in 1..Len(p), e = p[k], f = p[l] PROVE e = f /\ i = j
        <5>1. ((k - 1) * FatSlots) + i = ((l - 1) * FatSlots) + j
          <6>1. PICK y \in 1..Len(chain) : y = ((k - 1) * FatSlots) + i /\ dir'[e].fat[i] = chain[y]
            BY <3>2, <3>5, <4>4
          <6>2. PICK z \in 1..Len(chain) : z = ((l - 1) * FatSlots) + j /\ dir'[f].fat[j] = chain[z]
            BY <3>2, <3>5, <4>4
          <6>3. y = z
            BY <2>3, <3>5, <6>1, <6>2
          <6> QED
            BY <6>1, <6>2, <6>3
        <5>2. k - 1 = l - 1 /\ i = j
          <6>1. k - 1 \in Nat /\ l - 1 \in Nat
            BY <2>g, <2>2
          <6> QED
            BY <5>1, <6>1, PlacesDiffer, DiskSizes
        <5>3. k = l
          BY <2>e, <5>2
        <5> QED
          BY <4>4, <5>2, <5>3
      <4> QED
        BY <2>8, <4>1, <4>2, <4>3, <4>4
    <3> QED
      BY <3>4, <3>5
  <2>16. Packed'
    <3> SUFFICES ASSUME NEW e \in UsedEntries', NEW f \in FreeEntries' PROVE e < f
      BY DEF Packed
    <3>1. f \in FreeEntries /\ \A k \in 1..Len(p) : p[k] # f
      BY <2>8 DEF FreeEntries
    <3> QED
      BY <1>0, <2>8, <2>e, <3>1 DEF Packed
  <2> QED
    BY <2>11, <2>13, <2>14, <2>15, <2>16 DEF DiskInv
<1>2. CASE NameThrows \/ UNCHANGED mountVars
  <2>1. UNCHANGED <<dir, data, taken, saved, short>> /\ thrown' \in BOOLEAN
    BY <1>0, <1>2 DEF NameThrows, mountVars, MountTypeOK
  <2>2. UsedEntries' = UsedEntries
    BY <2>1 DEF UsedEntries, Free
  <2>3. \A s : (Stored(s)' <=> Stored(s)) /\ (Blurred(s)' <=> Blurred(s))
    BY <2>1, <2>2 DEF Stored, StoredIn, EntriesOf, Blurred
  <2>4. MountTypeOK' /\ NamesInv' /\ ClustersDisjoint' /\ Packed'
    BY <1>0, <2>1, <2>2 DEF MountTypeOK, NamesInv, ClustersDisjoint, Packed, FreeEntries, Full, Directory
  <2>5. StoredInv'
    BY <1>0, <2>1, <2>3 DEF StoredInv
  <2> QED
    BY <2>4, <2>5 DEF DiskInv
<1> QED
  BY <1>1, <1>2 DEF MountNext

-----------------------------------------------------------------------------
(* The clusters that the entries name are not more than their slots.       *)
LEMMA FewClusters ==
  /\ Cardinality(FreeClusters) \in Nat /\ UsedSlots \in Nat
  /\ Cardinality(FreeClusters) >= Clusters - Directory - UsedSlots
<1> DEFINE Slots2 == UsedEntries \X (1..FatSlots)
           f == [z \in Slots2 |-> dir[z[1]].fat[z[2]]]
           D == Directory..(Clusters - 1)
<1>1. IsFiniteSet(1..FatSlots) /\ Cardinality(1..FatSlots) = FatSlots
  <2>1. FatSlots \in Nat \ {0}
    BY DiskSizes
  <2> QED
    BY <2>1, FS_Interval
<1>2. IsFiniteSet(Slots2) /\ Cardinality(Slots2) = Cardinality(UsedEntries) * FatSlots
  BY <1>1, FreeSets, FS_Product
<1>3. Cardinality(Slots2) = UsedSlots /\ UsedSlots \in Nat
  BY <1>2, FreeSets, DiskSizes DEF UsedSlots
<1>4. f \in Surjection(Slots2, UsedClusters)
  <2>1. \A z \in Slots2 : f[z] \in UsedClusters
    BY DEF UsedClusters
  <2>2. ASSUME NEW c \in UsedClusters PROVE \E z \in Slots2 : f[z] = c
    <3>1. PICK e \in UsedEntries, i \in 1..FatSlots : c = dir[e].fat[i]
      BY DEF UsedClusters
    <3>2. <<e, i>> \in Slots2 /\ f[<<e, i>>] = c
      BY <3>1
    <3> QED
      BY <3>2
  <2> QED
    BY <2>1, <2>2 DEF Surjection
<1>5. IsFiniteSet(UsedClusters) /\ Cardinality(UsedClusters) <= UsedSlots
  BY <1>2, <1>3, <1>4, FS_Surjection
<1>6. IsFiniteSet(D) /\ Cardinality(D) = Clusters - Directory
  <2>1. Directory \in Int /\ Clusters - 1 \in Int /\ Directory <= Clusters - 1
    BY DiskSizes
  <2>2. IsFiniteSet(D) /\ Cardinality(D) = IF Directory > Clusters - 1 THEN 0 ELSE (Clusters - 1) - Directory + 1
    BY <2>1, FS_Interval
  <2> QED
    BY <2>1, <2>2, DiskSizes
<1>7. Cardinality(D \cap UsedClusters) <= Cardinality(UsedClusters) /\ Cardinality(D \cap UsedClusters) \in Nat
  BY <1>5, FS_Intersection, FS_CardinalityType
<1>8. Cardinality(FreeClusters) = Cardinality(D) - Cardinality(D \cap UsedClusters)
  BY <1>6, FS_Difference DEF FreeClusters
<1>9. Cardinality(FreeClusters) \in Nat /\ Cardinality(UsedClusters) \in Nat
  BY <1>5, FreeSets, FS_CardinalityType
<1> QED
  BY <1>3, <1>5, <1>6, <1>7, <1>8, <1>9, DiskSizes

LEMMA ShortStep == [MountNext]_mountVars => [short' > Directory => UsedSlots > Clusters]_mountVars
<1> SUFFICES ASSUME MountNext, short' > Directory PROVE UsedSlots > Clusters
  OBVIOUS
<1>1. MountFile
  BY DiskSizes DEF MountNext, NameThrows
<1>2. PICK host \in Names, length \in Lengths : save_file(host, length)
  BY <1>1 DEF MountFile
<1>3. PICK size \in Nat \ {0} : size = CeilDiv(length, Records)
  BY DiskSizes, CeilDivIs
<1>4. PICK chain : chain = build_available_chain(size)
  OBVIOUS
<1>5. chain # <<>> /\ short' = size - Len(chain)
  BY <1>2, <1>3, <1>4 DEF save_file
<1>6. /\ ~Refused(size)
      /\ Len(chain) = IF size <= Cardinality(FreeClusters) THEN size ELSE Cardinality(FreeClusters)
  BY <1>3, <1>4, <1>5, ChainIs
<1>7. ~(UsedSlots <= Clusters /\ Clusters - UsedSlots < size)
  BY <1>6 DEF Refused
<1> QED
  BY <1>3, <1>5, <1>6, <1>7, FewClusters, DiskSizes

-----------------------------------------------------------------------------
LEMMA DiskCorrect == MountSpec => []DiskInv
<1> QED
  BY InitDisk, DiskStep, PTL DEF MountSpec

(* allocate_file() writes entries that name clusters of the disk only,     *)
(* until a chain is too short for its file: then an entry holds whatever   *)
(* words lie behind the chain.                                             *)
THEOREM MountTypeCorrect == MountSpec => []MountTypeOK
<1>1. DiskInv => MountTypeOK
  BY DEF DiskInv
<1> QED
  BY <1>1, DiskCorrect, PTL

(* Until a chain is too short, no cluster of the disk belongs to two files *)
(* or twice to one, and none is the directory's, whatever its sizes.       *)
THEOREM DisjointOnDisk == MountSpec => []ClustersDisjoint
<1>1. DiskInv => ClustersDisjoint
  BY DEF DiskInv
<1> QED
  BY <1>1, DiskCorrect, PTL

(* Every file that save_file() placed as a whole is read back as it was    *)
(* saved, whatever is saved after it, unless its last extent is full or an *)
(* earlier file has its name but for the blanks at the end.                *)
THEOREM FilesReadBack == MountSpec => []ReadBack
<1>1. DiskInv => ReadBack
  BY StoredReads DEF DiskInv, NamesInv, StoredInv, ReadBack
<1> QED
  BY <1>1, DiskCorrect, PTL

(* The check of build_available_chain() lets in files that lack at most    *)
(* the clusters of the directory, until its subtraction wraps round.       *)
THEOREM ShortOnlyByDirectory == MountSpec => ShortByTwo
<1> QED
  BY ShortStep, PTL DEF MountSpec, ShortByTwo
=============================================================================
