------------------------------ MODULE GameCenter ------------------------------
(***************************************************************************)
(* The online catalog: GameCenter and its one download slot.  The UI       *)
(* thread opens and closes the window, starts a catalog, preview, ROM or   *)
(* ROM preview download, and polls once per tick; it blocks only in the    *)
(* join of a cancelled download.                                           *)
(***************************************************************************)
EXTENDS AsyncFetch

ASSUME CenterAssumption ==
  /\ Entries # {}
  /\ MaxRedirects \in Nat
  /\ MaxBytes \in Nat

VARIABLES
  open_flag,
  fetch_kind,
  listed,      \* the entries of the catalog, while the window is open
  selected,    \* the entry whose preview or ROM was asked for last
  asked,       \* the confirmation dialog is up
  uiPc,        \* "run", or "join" in cancel()
  pending,     \* what follows the join: the next download, "CLOSE" or "LEFT"
  downloaded   \* ROMs whose download has been announced as successful

centerVars == <<open_flag, fetch_kind, listed, selected, asked, uiPc, pending, downloaded>>
vars == <<slotVars, centerVars>>

Kinds == {"NONE", "CATALOG", "PREVIEW", "ROM", "ROM_PREVIEW"}
PathOf(kind, e) ==
  CASE kind = "ROM" -> <<e, "rom">>
    [] kind = "ROM_PREVIEW" -> <<e, "png">>
    [] OTHER -> NoPath

TypeOK ==
  /\ SlotTypeOK
  /\ open_flag \in BOOLEAN
  /\ fetch_kind \in Kinds
  /\ listed \subseteq Entries
  /\ selected \in Entries
  /\ asked \in BOOLEAN
  /\ uiPc \in {"run", "join", "gone"}
  /\ pending \in Kinds \cup {"CLOSE", "LEFT"}
  /\ downloaded \subseteq Entries

Init ==
  /\ SlotInit
  /\ open_flag = FALSE
  /\ fetch_kind = "NONE"
  /\ listed = {}
  /\ selected \in Entries
  /\ asked = FALSE
  /\ uiPc = "run"
  /\ pending = "NONE"
  /\ downloaded = {}

-----------------------------------------------------------------------------
(* start_*() cancels first, which returns at once while no thread is left  *)
(* to join, and otherwise waits.                                           *)
Start(kind, e) ==
  /\ th = 0
  /\ fetch_kind' = kind
  /\ begin(PathOf(kind, e))
  /\ UNCHANGED <<uiPc, pending>>

StartInstead(kind) ==
  /\ th # 0
  /\ fetch_kind' = kind
  /\ RaiseAbort
  /\ uiPc' = "join"
  /\ pending' = kind

Cancel(next) ==
  /\ fetch_kind' = "NONE"
  /\ RaiseAbort
  /\ uiPc' = "join"
  /\ pending' = next

(* The join of cancel() returns.                                           *)
JoinReturns ==
  /\ uiPc = "join"
  /\ \/ pending \in Kinds /\ begin(PathOf(pending, selected)) /\ UNCHANGED <<open_flag, listed>>
     \/ pending = "CLOSE" /\ EndCancel /\ open_flag' = FALSE /\ listed' = {}
     \/ pending = "LEFT" /\ EndCancel /\ UNCHANGED <<open_flag, listed>>
  /\ uiPc' = IF pending = "LEFT" THEN "gone" ELSE "run"
  /\ pending' = "NONE"
  /\ UNCHANGED <<fetch_kind, selected, asked, downloaded>>

open ==
  /\ uiPc = "run"
  /\ ~open_flag
  /\ open_flag' = TRUE
  /\ listed' = {}
  /\ Start("CATALOG", selected)
  /\ UNCHANGED <<selected, asked, downloaded>>

(* The list answers to the pad while no download runs.                     *)
Interactive == uiPc = "run" /\ open_flag /\ ~asked /\ fetch_kind = "NONE" /\ listed # {}

(* START or B, unless the dialog has the pad.  A released in the same tick *)
(* leaves the dialog up over a closed window.                              *)
close ==
  /\ uiPc = "run"
  /\ open_flag
  /\ ~asked
  /\ asked' \in (IF Interactive THEN BOOLEAN ELSE {FALSE})
  /\ Cancel("CLOSE")
  /\ UNCHANGED <<open_flag, listed, selected, downloaded>>

(* The program ends: ~AsyncFetch() cancels as well.                        *)
Leave ==
  /\ uiPc = "run"
  /\ Cancel("LEFT")
  /\ UNCHANGED <<open_flag, listed, selected, asked, downloaded>>

-----------------------------------------------------------------------------
(* poll_fetch() and what follows it in the same tick.                      *)
CatalogDone ==
  /\ fetch_kind = "CATALOG"
  /\ Reap
  /\ fetch_kind' = "NONE"
  /\ \E es \in SUBSET Entries : listed' = es /\ (es # {} => success)
  /\ UNCHANGED <<uiPc, pending, downloaded>>

PreviewDone ==
  /\ fetch_kind = "PREVIEW"
  /\ Reap
  /\ fetch_kind' = "NONE"
  /\ UNCHANGED <<uiPc, pending, listed, downloaded>>

(* rom_ready: load_rom() takes the ROM and closes the window, or refuses   *)
(* it and the window stays.                                                *)
RomReady ==
  \/ /\ Reap
     /\ fetch_kind' = "NONE"
     /\ UNCHANGED <<uiPc, pending>>
  \/ /\ files[<<selected, "rom">>] \in {"short", "whole"}
     /\ Cancel("CLOSE")

(* The ROM is on disk; its preview follows, if the catalog names one.      *)
EvenFailed == TRUE
OnlyIfOk == success

RomDone ==
  /\ fetch_kind = "ROM"
  /\ \/ /\ OnlyIfOk
        /\ downloaded' = downloaded \cup {selected}
        /\ \/ RomReady
           \/ begin(PathOf("ROM_PREVIEW", selected)) /\ fetch_kind' = "ROM_PREVIEW" /\ UNCHANGED <<uiPc, pending>>
     \/ /\ ~success
        /\ Reap
        /\ fetch_kind' = "NONE"
        /\ UNCHANGED <<uiPc, pending, downloaded>>
  /\ UNCHANGED listed

RomPreviewDone ==
  /\ fetch_kind = "ROM_PREVIEW"
  /\ RomReady
  /\ UNCHANGED <<listed, downloaded>>

poll_fetch ==
  /\ uiPc = "run"
  /\ open_flag
  /\ ~asked
  /\ CanReap
  /\ CatalogDone \/ PreviewDone \/ RomDone \/ RomPreviewDone
  /\ UNCHANGED <<open_flag, selected, asked>>

-----------------------------------------------------------------------------
(* A settled selection fetches its preview, A asks for a ROM.  The preview *)
(* of that tick may be running behind the dialog.                          *)

start_preview ==
  /\ Interactive
  /\ \E e \in listed : selected' = e /\ Start("PREVIEW", e)
  /\ asked' \in BOOLEAN
  /\ UNCHANGED <<open_flag, listed, downloaded>>

AskForRom ==
  /\ Interactive
  /\ selected' \in listed
  /\ asked' = TRUE
  /\ UNCHANGED <<slotVars, open_flag, fetch_kind, listed, uiPc, pending, downloaded>>

load_selected_rom ==
  /\ uiPc = "run"
  /\ open_flag
  /\ asked
  /\ asked' = FALSE
  /\ \/ selected \in listed /\ (Start("ROM", selected) \/ StartInstead("ROM"))
     \/ UNCHANGED <<slotVars, fetch_kind, uiPc, pending>>
  /\ UNCHANGED <<open_flag, listed, selected, downloaded>>

Owner == open \/ close \/ Leave \/ poll_fetch \/ start_preview \/ AskForRom \/ load_selected_rom

Next ==
  \/ Owner
  \/ JoinReturns
  \/ \E i \in ThreadIds : run(i) /\ UNCHANGED centerVars

(* The download thread runs, every blocking call of it has a timeout, and  *)
(* a join returns when the thread is gone.  That a server ends its headers *)
(* is not assumed.                                                         *)
Fairness ==
  /\ \A i \in ThreadIds : WF_vars(run(i) /\ UNCHANGED centerVars)
  /\ WF_vars(JoinReturns)

Spec == Init /\ [][Next]_vars
FairSpec == Spec /\ Fairness

-----------------------------------------------------------------------------
(* "Background download with progress, one job at a time": two threads     *)
(* would write success, running and possibly one file.                     *)
OneDownload == Cardinality(LiveThreads) <= 1

(* What poll() reports is the result of the job that was started last,     *)
(* never of one that was cancelled for it.                                 *)
FinishedMeansOwnResult ==
  uiPc = "run" /\ th # 0 /\ ~running => writer = th

(* A ROM is announced as loaded only when its body was read to the end and *)
(* its file has not been removed; a failed preview does not take it away.  *)
AnnouncedIsOnDisk ==
  fetch_kind = "ROM_PREVIEW" => files[<<selected, "rom">>] \in {"short", "whole"}

(* A download that failed or was cancelled, however its threads and those  *)
(* of the jobs after it run, leaves half a file behind only when remove()  *)
(* refused to remove it ("no partial files", AsyncFetch::run).             *)
NothingPartialAtRest ==
  \A p \in Paths : files[p] = "partial" =>
    p \in kept \/ \E i \in LiveThreads : threads[i].path = p

(* As long as every server ends its headers, cancel() returns, although    *)
(* the body never ends: the thread sees the abort flag between two reads.  *)
HeadersEnd == \A i \in ThreadIds : []<>~At(i, "headers")
CancelReturns == HeadersEnd => (uiPc = "join" ~> uiPc # "join")

(* netman.h says of a cancelled job that "the thread checks the abort flag *)
(* between reads and the socket carries a receive timeout, so the wait     *)
(* stays short".  Not kept: the reads of the headers check nothing, so     *)
(* that a server that goes on sending header lines holds the UI thread.    *)
WaitStaysShort == uiPc = "join" ~> uiPc # "join"

-----------------------------------------------------------------------------
(* gamecenter.cpp, load_selected_rom(): "so a downloaded game is available *)
(* offline from then on".  Not kept: the next download of it truncates the *)
(* copy, and removes it when it fails.                                     *)
AvailableOffline == \A e \in downloaded : files[<<e, "rom">>] # "none"
=============================================================================
