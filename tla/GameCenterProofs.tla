--------------------------- MODULE GameCenterProofs ---------------------------
(***************************************************************************)
(* The properties of the download slot under its window, for any games and *)
(* any lengths of redirects, headers and bodies.                           *)
(***************************************************************************)
EXTENDS GameCenter, FiniteSetTheorems, TLAPS

-----------------------------------------------------------------------------
(* The slot                                                                *)

(* Only the thread that is to be joined can be alive, and running says     *)
(* whether it is.                                                          *)
OwnInv ==
  /\ \A i \in ThreadIds : Live(i) => th = i
  /\ th # 0 => threads[th].pc # "off"
  /\ running <=> \E i \in ThreadIds : Live(i)

(* Once a thread has stored its result, that is what success is.           *)
ResultInv ==
  \A i \in ThreadIds :
    th = i /\ threads[i].pc \in {"store_running", "exited"} =>
      writer = i /\ success = threads[i].done_ok

(* A body is streamed into a file unless the job has none; and one that    *)
(* was read to the end is in it.                                           *)
Streaming == {"check_abort", "read", "close_file"}
BodyInv ==
  \A i \in ThreadIds :
    th = i =>
      /\ threads[i].pc \in {"connect", "headers", "open_file"} => ~threads[i].wrote
      /\ threads[i].pc \in Streaming => (threads[i].wrote <=> threads[i].path # NoPath)
      /\ threads[i].done_ok =>
           /\ threads[i].pc \in {"close_file", "store_success", "store_running", "exited"}
           /\ threads[i].path # NoPath /\ threads[i].pc # "close_file" =>
                files[threads[i].path] \in {"short", "whole"}

(* A file is partial only while it is being written, or when it could not  *)
(* be removed.                                                             *)
PartialInv ==
  \A p \in Paths : files[p] = "partial" =>
    \/ p \in kept
    \/ \E i \in ThreadIds :
         /\ th = i /\ threads[i].path = p
         /\ threads[i].pc \in Streaming /\ threads[i].wrote

SlotInv == SlotTypeOK /\ OwnInv /\ ResultInv /\ BodyInv /\ PartialInv

-----------------------------------------------------------------------------
(* The window                                                              *)

CenterTypeOK ==
  /\ open_flag \in BOOLEAN /\ fetch_kind \in Kinds /\ listed \subseteq Entries
  /\ selected \in Entries /\ asked \in BOOLEAN /\ uiPc \in {"run", "join", "gone"}
  /\ pending \in Kinds \cup {"CLOSE", "LEFT"} /\ downloaded \subseteq Entries

(* The job of the thread is the one that fetch_kind and the selection say; *)
(* in a join, it is the one that begins after it.                          *)
TargetInv ==
  /\ uiPc = "run" => \A i \in ThreadIds :
       th = i /\ fetch_kind # "NONE" => threads[i].path = PathOf(fetch_kind, selected)
  /\ uiPc = "join" /\ pending \in Kinds => pending = "ROM" /\ fetch_kind = "ROM"
  /\ uiPc = "join" /\ pending \notin Kinds => fetch_kind = "NONE"
  /\ uiPc = "gone" => fetch_kind = "NONE"

CenterInv == CenterTypeOK /\ TargetInv /\ AnnouncedIsOnDisk

IInv == SlotInv /\ CenterInv

LEMMA IdleIsThread == Idle \in Threads
BY CenterAssumption DEF CenterAssumption, Idle, Threads, ThreadPcs

LEMMA InitSlot == Init => SlotInv
<1> SUFFICES ASSUME Init PROVE SlotInv
  OBVIOUS
<1>1. SlotTypeOK
  <2>1. files \in [Paths -> FileStates]
    BY DEF Init, SlotInit, FileStates
  <2>2. threads \in [ThreadIds -> Threads]
    BY IdleIsThread DEF Init, SlotInit
  <2> QED
    BY <2>1, <2>2 DEF Init, SlotInit, SlotTypeOK
<1>2. OwnInv /\ ResultInv /\ BodyInv /\ PartialInv
  BY DEF Init, SlotInit, OwnInv, ResultInv, BodyInv, PartialInv, Live, ThreadIds, Idle
<1> QED
  BY <1>1, <1>2 DEF SlotInv

-----------------------------------------------------------------------------
(* The owner's operations                                                  *)

LEMMA RaiseSlot == SlotInv /\ RaiseAbort => SlotInv'
BY DEF RaiseAbort, SlotInv, SlotTypeOK, OwnInv, Live, ResultInv, BodyInv, PartialInv

(* After a join nothing is alive, so that nothing is being written.        *)
LEMMA JoinedIsDead ==
  ASSUME SlotInv, Joined
  PROVE  /\ \A i \in ThreadIds : ~Live(i)
         /\ \A p \in Paths : files[p] # "partial" \/ p \in kept
<1>1. \A i \in ThreadIds : ~Live(i)
  BY DEF SlotInv, OwnInv, Joined, Live
<1>2. \A p \in Paths : files[p] # "partial" \/ p \in kept
  BY DEF SlotInv, PartialInv, Joined, Streaming
<1> QED
  BY <1>1, <1>2

LEMMA EndCancelSlot == SlotInv /\ EndCancel => SlotInv'
<1> SUFFICES ASSUME SlotInv, EndCancel PROVE SlotInv'
  OBVIOUS
<1>1. \A i \in ThreadIds : threads'[i] = IF threads[i].pc = "exited" THEN Idle ELSE threads[i]
  BY DEF EndCancel, Reaped
<1>2. SlotTypeOK'
  BY <1>1, IdleIsThread DEF SlotInv, SlotTypeOK, EndCancel, Reaped
<1>3. \A i \in ThreadIds : ~Live(i)'
  BY <1>1, JoinedIsDead DEF EndCancel, Live, Idle
<1>4. OwnInv'
  BY <1>3 DEF EndCancel, OwnInv
<1>5. ResultInv' /\ BodyInv'
  BY DEF EndCancel, ResultInv, BodyInv, ThreadIds
<1>6. PartialInv'
  BY JoinedIsDead DEF EndCancel, PartialInv
<1> QED
  BY <1>2, <1>4, <1>5, <1>6 DEF SlotInv

LEMMA ReapSlot == SlotInv /\ CanReap /\ Reap => SlotInv'
<1> SUFFICES ASSUME SlotInv, CanReap, Reap PROVE SlotInv'
  OBVIOUS
<1>1. \A i \in ThreadIds : threads'[i] = IF threads[i].pc = "exited" THEN Idle ELSE threads[i]
  BY DEF Reap, Reaped
<1>2. SlotTypeOK'
  BY <1>1, IdleIsThread DEF SlotInv, SlotTypeOK, Reap, Reaped
<1>3. \A i \in ThreadIds : ~Live(i)'
  BY <1>1, JoinedIsDead DEF CanReap, Live, Idle
<1>4. OwnInv'
  BY <1>3 DEF CanReap, Reap, OwnInv
<1>5. ResultInv' /\ BodyInv'
  BY DEF Reap, ResultInv, BodyInv, ThreadIds
<1>6. PartialInv'
  BY JoinedIsDead DEF CanReap, Reap, PartialInv
<1> QED
  BY <1>2, <1>4, <1>5, <1>6 DEF SlotInv

LEMMA BeginSlot ==
  ASSUME SlotInv, NEW path \in Paths \cup {NoPath}, begin(path)
  PROVE  SlotInv' /\ \A i \in ThreadIds : th' = i => threads'[i].path = path
<1>1. PICK i \in ThreadIds :
        /\ th' = i
        /\ threads' = [threads EXCEPT ![i] = [Idle EXCEPT !.pc = "connect", !.path = path]]
  BY DEF begin
<1>2. \A j \in ThreadIds : ~Live(j)
  BY JoinedIsDead DEF begin
<1>3. /\ threads'[i] = [Idle EXCEPT !.pc = "connect", !.path = path]
      /\ \A j \in ThreadIds \ {i} : threads'[j] = threads[j]
  BY <1>1 DEF SlotInv, SlotTypeOK
<1>4. /\ threads'[i].pc = "connect" /\ threads'[i].path = path
      /\ threads'[i].done_ok = FALSE /\ threads'[i].wrote = FALSE /\ threads'[i] \in Threads
  BY <1>3, IdleIsThread DEF Idle, Threads, ThreadPcs
<1>5. SlotTypeOK'
  BY <1>1, <1>4 DEF SlotInv, SlotTypeOK, begin, ClearAbort
<1>6. OwnInv'
  BY <1>1, <1>2, <1>3, <1>4 DEF begin, OwnInv, Live
<1>7. ResultInv' /\ BodyInv'
  BY <1>1, <1>4 DEF ResultInv, BodyInv, Streaming
<1>8. PartialInv'
  BY JoinedIsDead DEF begin, PartialInv
<1> QED
  BY <1>1, <1>4, <1>5, <1>6, <1>7, <1>8 DEF SlotInv

-----------------------------------------------------------------------------
(* The thread's steps                                                      *)

(* A step of a thread that only changes its own record, and neither starts *)
(* nor ends it.                                                            *)
LEMMA RunSlot ==
  ASSUME SlotInv, NEW i \in ThreadIds, run(i)
  PROVE  SlotInv' /\ th' = th /\ threads'[i].path = threads[i].path
<1>1. th = i /\ Live(i) /\ threads[i] \in Threads
  BY DEF SlotInv, SlotTypeOK, OwnInv, Live, run, connect, recv_headers, open_file, check_abort,
         read, close_file, store_success, store_running, At
<1>2. CASE connect(i)
  BY <1>1, <1>2 DEF connect, SlotInv, SlotTypeOK, OwnInv, Live, ResultInv, BodyInv, PartialInv,
     Go, ThreadFrame, At, Threads, ThreadPcs, Streaming
<1>3. CASE recv_headers(i)
  <2>1. CASE threads' = [threads EXCEPT ![i].line = ~@]
    <3>1. (~threads[i].line) \in BOOLEAN
      BY <1>1 DEF Threads
    <3> QED
      BY <1>1, <1>3, <2>1, <3>1 DEF recv_headers, ThreadFrame, SlotInv, SlotTypeOK, OwnInv, Live, ResultInv, BodyInv, PartialInv,
       Go, At, Threads, ThreadPcs, Streaming
  <2>2. CASE threads' = [threads EXCEPT ![i].pc = "connect", ![i].hops = @ + 1, ![i].line = FALSE]
             /\ threads[i].hops < MaxRedirects
    <3>1. threads[i].hops + 1 \in 0..MaxRedirects
      BY <1>1, <2>2, CenterAssumption DEF CenterAssumption, Threads
    <3> QED
      BY <1>1, <1>3, <2>2, <3>1 DEF recv_headers, ThreadFrame, SlotInv, SlotTypeOK, OwnInv, Live, ResultInv, BodyInv, PartialInv,
       Go, At, Threads, ThreadPcs, Streaming
  <2>3. CASE Go(i, "open_file") \/ Go(i, "store_success")
    BY <1>1, <1>3, <2>3 DEF recv_headers, ThreadFrame, SlotInv, SlotTypeOK, OwnInv, Live, ResultInv, BodyInv, PartialInv,
       Go, At, Threads, ThreadPcs, Streaming
  <2> QED
    BY <1>3, <2>1, <2>2, <2>3 DEF recv_headers
<1>4. CASE open_file(i)
  <2> DEFINE path == threads[i].path
  <2>1. CASE path = NoPath /\ Go(i, "check_abort") /\ UNCHANGED <<files, kept>>
    BY <1>1, <1>4, <2>1 DEF open_file, SlotInv, SlotTypeOK, OwnInv, Live, ResultInv, BodyInv, PartialInv,
       Go, At, Threads, ThreadPcs, Streaming
  <2>2. CASE path # NoPath /\ Go(i, "store_success") /\ UNCHANGED <<files, kept>>
    BY <1>1, <1>4, <2>2 DEF open_file, SlotInv, SlotTypeOK, OwnInv, Live, ResultInv, BodyInv, PartialInv,
       Go, At, Threads, ThreadPcs, Streaming
  <2>3. CASE /\ path # NoPath
             /\ threads' = [threads EXCEPT ![i].pc = "check_abort", ![i].wrote = TRUE]
             /\ files' = [files EXCEPT ![path] = "partial"] /\ kept' = kept \ {path}
    BY <1>1, <1>4, <2>3 DEF open_file, FileStates, SlotInv, SlotTypeOK, OwnInv, Live, ResultInv, BodyInv, PartialInv,
       Go, At, Threads, ThreadPcs, Streaming
  <2> QED
    BY <1>4, <2>1, <2>2, <2>3 DEF open_file
<1>5. CASE check_abort(i)
  BY <1>1, <1>5 DEF check_abort, SlotInv, SlotTypeOK, OwnInv, Live, ResultInv, BodyInv, PartialInv,
     Go, GoOK, ThreadFrame, At, Threads, ThreadPcs, Streaming
<1>6. CASE read(i)
  BY <1>1, <1>6 DEF read, SlotInv, SlotTypeOK, OwnInv, Live, ResultInv, BodyInv, PartialInv,
     Go, GoOK, ThreadFrame, At, Threads, ThreadPcs, Streaming, FileStates, Fits
<1>7. CASE close_file(i)
  BY <1>1, <1>7 DEF close_file, SlotInv, SlotTypeOK, OwnInv, Live, ResultInv, BodyInv, PartialInv,
     Go, GoOK, ThreadFrame, At, Threads, ThreadPcs, Streaming, FileStates, RemovePartial
<1>8. CASE store_success(i)
  BY <1>1, <1>8 DEF store_success, SlotInv, SlotTypeOK, OwnInv, Live, ResultInv, BodyInv, PartialInv,
     Go, GoOK, ThreadFrame, At, Threads, ThreadPcs, Streaming
<1>9. CASE store_running(i)
  BY <1>1, <1>9 DEF store_running, SlotInv, SlotTypeOK, OwnInv, Live, ResultInv, BodyInv, PartialInv,
     Go, GoOK, ThreadFrame, At, Threads, ThreadPcs, Streaming
<1> QED
  BY <1>2, <1>3, <1>4, <1>5, <1>6, <1>7, <1>8, <1>9 DEF run

-----------------------------------------------------------------------------
(* The window's steps                                                      *)

LEMMA PathsOfJobs == \A kind \in Kinds, e \in Entries : PathOf(kind, e) \in Paths \cup {NoPath}
BY DEF PathOf, Paths, Kinds

LEMMA InitCenter == Init => CenterInv
BY DEF Init, SlotInit, CenterInv, CenterTypeOK, TargetInv, AnnouncedIsOnDisk, Kinds, ThreadIds

(* A finished thread that stored success has its ROM on disk.              *)
LEMMA FinishedRom ==
  ASSUME IInv, uiPc = "run", CanReap, success, fetch_kind = "ROM"
  PROVE  files[<<selected, "rom">>] \in {"short", "whole"}
<1>1. PICK i \in ThreadIds : th = i /\ threads[i].pc = "exited"
  BY DEF CanReap, Joined, IInv, SlotInv, SlotTypeOK
<1>2. threads[i].done_ok /\ threads[i].path = <<selected, "rom">>
  BY <1>1 DEF IInv, SlotInv, ResultInv, CenterInv, TargetInv, PathOf
<1>3. <<selected, "rom">> # NoPath
  BY DEF NoPath
<1> QED
  BY <1>1, <1>2, <1>3 DEF IInv, SlotInv, BodyInv

LEMMA CloseCenter == IInv /\ close => IInv'
<1> SUFFICES ASSUME IInv, close PROVE IInv'
  OBVIOUS
<1>1. SlotInv'
  BY RaiseSlot DEF IInv, close, Cancel
<1>2. CenterInv'
  BY DEF IInv, close, Cancel, CenterInv, CenterTypeOK, TargetInv, AnnouncedIsOnDisk, Kinds
<1> QED
  BY <1>1, <1>2 DEF IInv

LEMMA LeaveCenter == IInv /\ Leave => IInv'
<1> SUFFICES ASSUME IInv, Leave PROVE IInv'
  OBVIOUS
<1>1. SlotInv'
  BY RaiseSlot DEF IInv, Leave, Cancel
<1>2. CenterInv'
  BY DEF IInv, Leave, Cancel, CenterInv, CenterTypeOK, TargetInv, AnnouncedIsOnDisk, Kinds
<1> QED
  BY <1>1, <1>2 DEF IInv

(* A job begun for the selection.                                          *)
LEMMA Begun ==
  ASSUME IInv, NEW kind \in Kinds, NEW e \in Entries, begin(PathOf(kind, e))
  PROVE  /\ SlotInv' /\ files' = files
         /\ \A i \in ThreadIds : th' = i => threads'[i].path = PathOf(kind, e)
<1>1. PathOf(kind, e) \in Paths \cup {NoPath}
  BY PathsOfJobs
<1> QED
  BY <1>1, BeginSlot DEF IInv, begin

LEMMA OpenCenter == IInv /\ open => IInv'
<1> SUFFICES ASSUME IInv, open PROVE IInv'
  OBVIOUS
<1>1. begin(PathOf("CATALOG", selected)) /\ fetch_kind' = "CATALOG" /\ "CATALOG" \in Kinds
  BY DEF open, Start, Kinds
<1>2. selected \in Entries
  BY DEF IInv, CenterInv, CenterTypeOK
<1>3. CenterInv'
  BY <1>1, <1>2, Begun DEF open, Start, IInv, CenterInv, CenterTypeOK, TargetInv, AnnouncedIsOnDisk
<1> QED
  BY <1>1, <1>2, <1>3, Begun DEF IInv

LEMMA PreviewCenter == IInv /\ start_preview => IInv'
<1> SUFFICES ASSUME IInv, start_preview PROVE IInv'
  OBVIOUS
<1>1. PICK e \in listed : selected' = e /\ Start("PREVIEW", e)
  BY DEF start_preview
<1>2. e \in Entries /\ "PREVIEW" \in Kinds
  BY DEF IInv, CenterInv, CenterTypeOK, Kinds
<1>3. SlotInv' /\ \A i \in ThreadIds : th' = i => threads'[i].path = PathOf("PREVIEW", e)
  BY <1>1, <1>2, Begun DEF Start
<1>4. fetch_kind' = "PREVIEW" /\ selected' = e /\ uiPc' = uiPc /\ pending' = pending
  BY <1>1 DEF Start
<1>5. uiPc = "run" /\ UNCHANGED <<open_flag, listed, downloaded>> /\ asked' \in BOOLEAN
  BY DEF start_preview, Interactive
<1>6. CenterTypeOK'
  BY <1>2, <1>4, <1>5 DEF IInv, CenterInv, CenterTypeOK
<1>7. TargetInv'
  BY <1>3, <1>4, <1>5 DEF TargetInv
<1>8. AnnouncedIsOnDisk'
  BY <1>4 DEF AnnouncedIsOnDisk
<1> QED
  BY <1>3, <1>6, <1>7, <1>8 DEF IInv, CenterInv

LEMMA AskCenter == IInv /\ AskForRom => IInv'
BY DEF AskForRom, Interactive, slotVars, IInv, SlotInv, SlotTypeOK, OwnInv, Live, ResultInv,
       BodyInv, PartialInv, CenterInv, CenterTypeOK, TargetInv, AnnouncedIsOnDisk

LEMMA LoadCenter == IInv /\ load_selected_rom => IInv'
<1> SUFFICES ASSUME IInv, load_selected_rom PROVE IInv'
  OBVIOUS
<1>1. selected \in Entries /\ "ROM" \in Kinds
  BY DEF IInv, CenterInv, CenterTypeOK, Kinds
<1>2. CASE Start("ROM", selected)
  <2>1. CenterInv'
    BY <1>1, <1>2, Begun DEF load_selected_rom, Start, IInv, CenterInv, CenterTypeOK, TargetInv,
       AnnouncedIsOnDisk
  <2> QED
    BY <1>1, <1>2, <2>1, Begun DEF IInv, Start
<1>3. CASE StartInstead("ROM")
  <2>1. SlotInv'
    BY <1>3, RaiseSlot DEF IInv, StartInstead
  <2>2. CenterInv'
    BY <1>1, <1>3 DEF load_selected_rom, StartInstead, IInv, CenterInv, CenterTypeOK, TargetInv,
       AnnouncedIsOnDisk
  <2> QED
    BY <2>1, <2>2 DEF IInv
<1>4. CASE UNCHANGED <<slotVars, fetch_kind, uiPc, pending>>
  BY <1>4 DEF load_selected_rom, slotVars, IInv, SlotInv, SlotTypeOK, OwnInv, Live, ResultInv,
     BodyInv, PartialInv, CenterInv, CenterTypeOK, TargetInv, AnnouncedIsOnDisk
<1> QED
  BY <1>2, <1>3, <1>4 DEF load_selected_rom

LEMMA RunCenter == ASSUME IInv, NEW i \in ThreadIds, run(i), UNCHANGED centerVars PROVE IInv'
<1>1. SlotInv' /\ th' = th /\ threads'[i].path = threads[i].path
  BY RunSlot DEF IInv
<1>2. th = i
  BY DEF IInv, SlotInv, OwnInv, Live, run, connect, recv_headers, open_file, check_abort,
         read, close_file, store_success, store_running, At
<1>3. AnnouncedIsOnDisk'
  <2>1. fetch_kind = "ROM_PREVIEW" => threads[i].path = <<selected, "png">>
    BY <1>2 DEF IInv, CenterInv, CenterTypeOK, TargetInv, PathOf, Kinds
  <2>2. \A p \in Paths : p # threads[i].path => files'[p] = files[p]
    BY DEF IInv, SlotInv, SlotTypeOK, run, connect, recv_headers, open_file, check_abort,
           read, close_file, store_success, store_running, ThreadFrame, RemovePartial
  <2>3. <<selected, "rom">> \in Paths /\ <<selected, "rom">> # <<selected, "png">>
    BY DEF IInv, CenterInv, CenterTypeOK, Paths
  <2> QED
    BY <2>1, <2>2, <2>3 DEF centerVars, IInv, CenterInv, AnnouncedIsOnDisk
<1>4. CenterInv'
  BY <1>1, <1>2, <1>3 DEF centerVars, IInv, CenterInv, CenterTypeOK, TargetInv
<1> QED
  BY <1>1, <1>4 DEF IInv

LEMMA JoinCenter == IInv /\ JoinReturns => IInv'
<1> SUFFICES ASSUME IInv, JoinReturns PROVE IInv'
  OBVIOUS
<1>1. selected \in Entries /\ "NONE" \in Kinds
  BY DEF IInv, CenterInv, CenterTypeOK, Kinds
<1>2. CASE pending \in Kinds /\ begin(PathOf(pending, selected)) /\ UNCHANGED <<open_flag, listed>>
  <2>1. pending = "ROM" /\ fetch_kind = "ROM"
    BY <1>2 DEF JoinReturns, IInv, CenterInv, TargetInv
  <2>2. SlotInv' /\ \A i \in ThreadIds : th' = i => threads'[i].path = PathOf("ROM", selected)
    BY <1>1, <1>2, <2>1, Begun
  <2>3. CenterInv'
    BY <1>1, <1>2, <2>1, <2>2
    DEF JoinReturns, IInv, CenterInv, CenterTypeOK, TargetInv, AnnouncedIsOnDisk
  <2> QED
    BY <2>2, <2>3 DEF IInv
<1>3. CASE pending \in {"CLOSE", "LEFT"} /\ EndCancel
  <2>1. fetch_kind = "NONE"
    BY <1>3 DEF JoinReturns, IInv, CenterInv, TargetInv, Kinds
  <2>2. CenterInv'
    BY <1>1, <1>3, <2>1
    DEF JoinReturns, IInv, CenterInv, CenterTypeOK, TargetInv, AnnouncedIsOnDisk
  <2> QED
    BY <1>3, <2>2, EndCancelSlot DEF IInv
<1> QED
  BY <1>2, <1>3 DEF JoinReturns

-----------------------------------------------------------------------------
(* The polls                                                               *)

(* The results that are only taken: the slot is free after them.           *)
LEMMA ReapedCenter ==
  ASSUME IInv, uiPc = "run", CanReap, Reap, fetch_kind' = "NONE",
         listed' \subseteq Entries, downloaded' \subseteq Entries,
         UNCHANGED <<open_flag, selected, asked, uiPc, pending>>
  PROVE  IInv'
<1>1. SlotInv'
  BY ReapSlot DEF IInv
<1>2. CenterInv'
  BY DEF IInv, CenterInv, CenterTypeOK, TargetInv, AnnouncedIsOnDisk, Kinds
<1> QED
  BY <1>1, <1>2 DEF IInv

(* A downloaded ROM is loaded, and the window closed or kept.              *)
LEMMA ReadyCenter ==
  ASSUME IInv, uiPc = "run", CanReap, RomReady, listed' = listed, downloaded' \subseteq Entries,
         UNCHANGED <<open_flag, selected, asked>>
  PROVE  IInv'
<1>1. CASE Reap /\ fetch_kind' = "NONE" /\ UNCHANGED <<uiPc, pending>>
  <2>1. listed' \subseteq Entries
    BY DEF IInv, CenterInv, CenterTypeOK
  <2> QED
    BY <1>1, <2>1, ReapedCenter
<1>2. CASE Cancel("CLOSE")
  <2>1. SlotInv'
    BY <1>2, RaiseSlot DEF IInv, Cancel
  <2>2. CenterInv'
    BY <1>2 DEF IInv, Cancel, CenterInv, CenterTypeOK, TargetInv, AnnouncedIsOnDisk, Kinds
  <2> QED
    BY <2>1, <2>2 DEF IInv
<1> QED
  BY <1>1, <1>2 DEF RomReady

LEMMA RomDoneCenter ==
  ASSUME IInv, uiPc = "run", CanReap, RomDone, UNCHANGED <<open_flag, selected, asked>>
  PROVE  IInv'
<1>1. selected \in Entries /\ "ROM_PREVIEW" \in Kinds /\ listed' \subseteq Entries
      /\ downloaded' \subseteq Entries
  BY DEF RomDone, IInv, CenterInv, CenterTypeOK, Kinds
<1>2. CASE RomReady
  BY <1>1, <1>2, ReadyCenter DEF RomDone
<1>3. CASE /\ OnlyIfOk
           /\ begin(PathOf("ROM_PREVIEW", selected)) /\ fetch_kind' = "ROM_PREVIEW"
           /\ UNCHANGED <<uiPc, pending>>
  <2>1. /\ SlotInv' /\ files' = files
        /\ \A i \in ThreadIds : th' = i => threads'[i].path = PathOf("ROM_PREVIEW", selected)
    BY <1>1, <1>3, Begun
  <2>2. files[<<selected, "rom">>] \in {"short", "whole"}
    BY <1>3, FinishedRom DEF RomDone, OnlyIfOk
  <2>3. CenterTypeOK'
    BY <1>1, <1>3 DEF IInv, CenterInv, CenterTypeOK
  <2>4. TargetInv'
    BY <1>3, <2>1 DEF TargetInv
  <2>5. AnnouncedIsOnDisk'
    BY <2>1, <2>2 DEF AnnouncedIsOnDisk
  <2> QED
    BY <2>1, <2>3, <2>4, <2>5 DEF IInv, CenterInv
<1>4. CASE Reap /\ fetch_kind' = "NONE" /\ UNCHANGED <<uiPc, pending>>
  BY <1>1, <1>4, ReapedCenter
<1> QED
  BY <1>2, <1>3, <1>4 DEF RomDone

LEMMA PollCenter == IInv /\ poll_fetch => IInv'
<1> SUFFICES ASSUME IInv, poll_fetch PROVE IInv'
  OBVIOUS
<1>1. /\ uiPc = "run" /\ CanReap /\ UNCHANGED <<open_flag, selected, asked>>
      /\ listed \subseteq Entries /\ downloaded \subseteq Entries
  BY DEF poll_fetch, IInv, CenterInv, CenterTypeOK
<1>2. CASE CatalogDone
  BY <1>1, <1>2, ReapedCenter DEF CatalogDone
<1>3. CASE PreviewDone
  BY <1>1, <1>3, ReapedCenter DEF PreviewDone
<1>4. CASE RomDone
  BY <1>1, <1>4, RomDoneCenter
<1>5. CASE RomPreviewDone
  BY <1>1, <1>5, ReadyCenter DEF RomPreviewDone
<1> QED
  BY <1>2, <1>3, <1>4, <1>5 DEF poll_fetch

LEMMA NextInv == IInv /\ [Next]_vars => IInv'
<1> SUFFICES ASSUME IInv, [Next]_vars PROVE IInv'
  OBVIOUS
<1>1. CASE Owner
  BY <1>1, OpenCenter, CloseCenter, LeaveCenter, PollCenter, PreviewCenter, AskCenter, LoadCenter
  DEF Owner
<1>2. CASE JoinReturns
  BY <1>2, JoinCenter
<1>3. ASSUME NEW i \in ThreadIds, run(i), UNCHANGED centerVars PROVE IInv'
  BY <1>3, RunCenter
<1>4. CASE UNCHANGED vars
  BY <1>4 DEF vars, slotVars, centerVars, IInv, SlotInv, SlotTypeOK, OwnInv, Live, ResultInv,
     BodyInv, PartialInv, CenterInv, CenterTypeOK, TargetInv, AnnouncedIsOnDisk
<1> QED
  BY <1>1, <1>2, <1>3, <1>4 DEF Next

-----------------------------------------------------------------------------
(* The theorems                                                            *)

(* The window and its slot always satisfy the inductive invariant: whose   *)
(* thread, result and file each moment of a download belongs to.           *)
THEOREM Invariant == Spec => []IInv
<1>1. Init => IInv
  BY InitSlot, InitCenter DEF IInv
<1> QED
  BY <1>1, NextInv, PTL DEF Spec

(* One download at a time: every start joins the thread before it, for any *)
(* number of games and any length of a reply.                              *)
THEOREM OneDownloadHolds == Spec => []OneDownload
<1>1. IInv => OneDownload
  <2> SUFFICES ASSUME IInv PROVE OneDownload
    OBVIOUS
  <2>1. LiveThreads = {} \/ LiveThreads = {th}
    BY DEF IInv, SlotInv, OwnInv, LiveThreads
  <2>2. Cardinality(LiveThreads) \in {0, 1}
    BY <2>1, FS_EmptySet, FS_Singleton
  <2> QED
    BY <2>2 DEF OneDownload
<1> QED
  BY <1>1, Invariant, PTL

(* What poll() reports is the result of the download that was started      *)
(* last, also after any number of cancelled ones.                          *)
THEOREM FinishedMeansOwnResultHolds == Spec => []FinishedMeansOwnResult
<1>1. IInv => FinishedMeansOwnResult
  BY DEF IInv, SlotInv, SlotTypeOK, OwnInv, ResultInv, Live, FinishedMeansOwnResult
<1> QED
  BY <1>1, Invariant, PTL

(* A ROM that is announced, and loaded after its preview, has a file that  *)
(* was read to the end of its body, whatever its preview comes to.         *)
THEOREM AnnouncedIsOnDiskHolds == Spec => []AnnouncedIsOnDisk
<1>1. IInv => AnnouncedIsOnDisk
  BY DEF IInv, CenterInv
<1> QED
  BY <1>1, Invariant, PTL

(* No partial file outlives the thread that writes it, whether the         *)
(* download failed, was cancelled or was replaced, but one that remove()   *)
(* did not remove when that download ended.                                *)
THEOREM NothingPartialAtRestHolds == Spec => []NothingPartialAtRest
<1>1. IInv => NothingPartialAtRest
  BY DEF IInv, SlotInv, PartialInv, Streaming, NothingPartialAtRest, LiveThreads, Live
<1> QED
  BY <1>1, Invariant, PTL
=============================================================================
