------------------------------ MODULE AsyncFetch ------------------------------
(***************************************************************************)
(* NetMan::AsyncFetch: one background download at a time.  The owner       *)
(* starts, cancels and polls the slot; the download thread runs a GET with *)
(* redirects and streams the body into memory or into a file.  They share  *)
(* the three atomics running, abort_flag and success, and the file.        *)
(***************************************************************************)
EXTENDS Naturals, FiniteSets

CONSTANTS
  Entries,         \* the games: a ROM and a preview picture are files
  MaxRedirects,    \* MAX_REDIRECTS
  MaxBytes         \* the cap of a memory job, in chunks

(* The ROM directory.  A memory job has no path.                           *)
Paths == Entries \X {"rom", "png"}
NoPath == <<"memory", "memory">>

(* One id is enough while begin() joins the thread before it; the second   *)
(* one makes a missing join visible.                                       *)
ThreadIds == {1, 2}

VARIABLES
  th,          \* std::thread th: an id, or 0 when it is not joinable
  running, abort_flag, success,
  threads,     \* the download threads, each with its locals
  files,       \* what is at each path
  (* History, read by no guard.                                            *)
  kept,        \* the paths whose partial file could not be removed
  writer       \* the thread whose result is in success, 0 after a reset

slotVars == <<th, running, abort_flag, success, threads, files, kept, writer>>

ThreadPcs == {"off", "connect", "headers", "open_file", "check_abort", "read",
              "close_file", "store_success", "store_running", "exited"}

Threads == [pc : ThreadPcs, path : Paths \cup {NoPath}, hops : 0..MaxRedirects,
            line : BOOLEAN, got : 0..MaxBytes, wrote : BOOLEAN, done_ok : BOOLEAN]

Idle == [pc |-> "off", path |-> NoPath, hops |-> 0, line |-> FALSE, got |-> 0,
         wrote |-> FALSE, done_ok |-> FALSE]

(* "short": the end of the body is missing, though the download counts as   *)
(* a success.  The server closed the connection before the announced       *)
(* length, which read() cannot tell from the end of the body; or fclose(), *)
(* whose result is not looked at, lost the last block.                     *)
FileStates == {"none", "partial", "short", "whole"}

SlotTypeOK ==
  /\ th \in ThreadIds \cup {0}
  /\ running \in BOOLEAN
  /\ abort_flag \in BOOLEAN
  /\ success \in BOOLEAN
  /\ threads \in [ThreadIds -> Threads]
  /\ files \in [Paths -> FileStates]
  /\ kept \subseteq Paths
  /\ writer \in ThreadIds \cup {0}

SlotInit ==
  /\ th = 0
  /\ running = FALSE
  /\ abort_flag = FALSE
  /\ success = FALSE
  /\ threads = [i \in ThreadIds |-> Idle]
  /\ files \in [Paths -> {"none", "whole"}]
  /\ kept = {}
  /\ writer = 0

Live(i) == threads[i].pc \notin {"off", "exited"}
LiveThreads == {i \in ThreadIds : Live(i)}

-----------------------------------------------------------------------------
(* The owner.  cancel() raises the abort flag and joins; Joined is the     *)
(* guard of the join.                                                      *)
NoJoin == TRUE
Joined == \A i \in ThreadIds : th = i => threads[i].pc = "exited"

RaiseAbort ==
  /\ abort_flag' = TRUE
  /\ UNCHANGED <<th, running, success, threads, files, kept, writer>>

Reaped == [i \in ThreadIds |-> IF threads[i].pc = "exited" THEN Idle ELSE threads[i]]

EndCancel ==
  /\ Joined
  /\ th' = 0
  /\ running' = FALSE
  /\ threads' = Reaped
  /\ UNCHANGED <<abort_flag, success, files, kept, writer>>

(* begin() after its cancel(): reset the slot and start the thread.        *)
ClearAbort == abort_flag' = FALSE

begin(path) ==
  /\ Joined
  /\ \E i \in ThreadIds \ LiveThreads :
       /\ \A j \in ThreadIds \ LiveThreads : i <= j
       /\ th' = i
       /\ threads' = [threads EXCEPT ![i] = [Idle EXCEPT !.pc = "connect", !.path = path]]
  /\ running' = TRUE
  /\ ClearAbort
  /\ success' = FALSE
  /\ writer' = 0
  /\ UNCHANGED <<files, kept>>

(* poll(): reaps a finished thread; its result and its payload are safe.   *)
CanReap == th # 0 /\ ~running /\ Joined
Reap ==
  /\ th' = 0
  /\ threads' = Reaped
  /\ UNCHANGED <<running, abort_flag, success, files, kept, writer>>

-----------------------------------------------------------------------------
(* The download thread, AsyncFetch::run().                                 *)
Go(i, pc) == threads' = [threads EXCEPT ![i].pc = pc]
GoOK(i, pc, ok) == threads' = [threads EXCEPT ![i].pc = pc, ![i].done_ok = ok]

At(i, pc) == threads[i].pc = pc
ThreadFrame == UNCHANGED <<th, running, abort_flag, success, files, kept, writer>>

(* HttpGet::open(): connect, send the request; every step may fail, also   *)
(* by timeout.                                                             *)
connect(i) ==
  /\ At(i, "connect")
  /\ Go(i, "headers") \/ Go(i, "store_success")
  /\ ThreadFrame

(* Another header line, a redirect, status 200, or any error.  Nothing     *)
(* bounds the lines, and nobody looks at the abort flag between them: the  *)
(* line just read is told from the one before it, so that a server which   *)
(* never ends its headers is a behaviour of its own.                       *)
recv_headers(i) ==
  /\ At(i, "headers")
  /\ \/ threads' = [threads EXCEPT ![i].line = ~@]
     \/ /\ threads[i].hops < MaxRedirects
        /\ threads' = [threads EXCEPT ![i].pc = "connect", ![i].hops = @ + 1, ![i].line = FALSE]
     \/ Go(i, "open_file")
     \/ Go(i, "store_success")
  /\ ThreadFrame

open_file(i) ==
  /\ At(i, "open_file")
  /\ LET path == threads[i].path
     IN  \/ path = NoPath /\ Go(i, "check_abort") /\ UNCHANGED <<files, kept>>
         \/ path # NoPath /\ Go(i, "store_success") /\ UNCHANGED <<files, kept>>
         \/ /\ path # NoPath
            /\ threads' = [threads EXCEPT ![i].pc = "check_abort", ![i].wrote = TRUE]
            /\ files' = [files EXCEPT ![path] = "partial"]
            /\ kept' = kept \ {path}
  /\ UNCHANGED <<th, running, abort_flag, success, writer>>

IgnoresAbort(i) ==
  /\ At(i, "check_abort")
  /\ Go(i, "read")
  /\ ThreadFrame
check_abort(i) ==
  /\ At(i, "check_abort")
  /\ IF abort_flag THEN Go(i, "close_file") ELSE Go(i, "read")
  /\ ThreadFrame

(* The cap of a memory job.                                                *)
Fits(i) == threads[i].got < MaxBytes

(* A chunk, the end of the body, or an error (of the socket, of the file,  *)
(* or the cap of a memory job).  A body may go on for ever.                *)
read(i) ==
  /\ At(i, "read")
  /\ \/ /\ threads[i].wrote
        /\ Go(i, "check_abort")
     \/ /\ ~threads[i].wrote
        /\ Fits(i)
        /\ threads' = [threads EXCEPT ![i].pc = "check_abort", ![i].got = @ + 1]
     \/ Go(i, "close_file")
     \/ GoOK(i, "close_file", TRUE)
  /\ ThreadFrame

(* A file that is not complete is removed, unless remove() fails, which    *)
(* nobody notices.                                                         *)
LeavesPartial(path) == UNCHANGED <<files, kept>>
RemovePartial(path) ==
  \/ files' = [files EXCEPT ![path] = "none"] /\ UNCHANGED kept
  \/ kept' = kept \cup {path} /\ UNCHANGED files

close_file(i) ==
  /\ At(i, "close_file")
  /\ LET path == threads[i].path
     IN  \/ ~threads[i].wrote /\ UNCHANGED <<files, kept>>
         \/ threads[i].wrote /\ ~threads[i].done_ok /\ RemovePartial(path)
         \/ /\ threads[i].wrote /\ threads[i].done_ok
            /\ \E end \in {"short", "whole"} : files' = [files EXCEPT ![path] = end]
            /\ UNCHANGED kept
  /\ Go(i, "store_success")
  /\ UNCHANGED <<th, running, abort_flag, success, writer>>

store_success(i) ==
  /\ At(i, "store_success")
  /\ success' = threads[i].done_ok
  /\ writer' = i
  /\ Go(i, "store_running")
  /\ UNCHANGED <<th, running, abort_flag, files, kept>>

store_running(i) ==
  /\ At(i, "store_running")
  /\ running' = FALSE
  /\ Go(i, "exited")
  /\ UNCHANGED <<th, abort_flag, success, files, kept, writer>>

run(i) ==
  \/ connect(i) \/ recv_headers(i) \/ open_file(i) \/ check_abort(i) \/ read(i)
  \/ close_file(i) \/ store_success(i) \/ store_running(i)
=============================================================================
