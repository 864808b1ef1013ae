# A formal model of the Vector-06C emulator for TrimUI

The repository is `vector06sdl` with a gamepad GUI: an emulator of the Vector-06C
(an i8080 home computer), a main menu with its windows, an on-screen keyboard, a
download client for games, and save slots. This directory holds TLA+ modules of the
parts where the order of things decides whether it works: the two threads, the GUI
tick that may freeze and touch the machine they run, the download thread, the files
of the save slots, the ring of sound buffers, and the machine itself: processor,
interrupts, raster, paged memory, timer, floppy controller and the disks it is given.
TLC checks them on small instances; TLAPS proves the safety properties, all but one, for
every instance.

Files: `*.tla` modules, `*.cfg` one per TLC run, `PROJECT.json` (which definition
translates which lines, runs, mutants, hazards, findings, theorems).

## 1. Inventory

| Part (source) | State it keeps | Operations | Hard because | Correct means |
|---|---|---|---|---|
| Threads, event loop (`emulator.*`, `hal.cpp`) | two queues, pause latch, frame clock | take event, frame, RENDER, wait_event, gui_tick, quit, join | two threads, a callback, no handshake for the pause, purging of RENDERs | a paused machine is still while touched; frames never stop coming; quit joins |
| GUI tick (`emulator.cpp` 820-1134, `popup.h`) | open flags, previous pad states, mute, held keys | one call per rendered frame, eleven branches | edges of buttons held across windows | one window; frozen iff a window owns the machine; no key pressed by a window |
| Main menu, About, Message, ROM browser, Map Keys, State window (`src/gui`) | open flag, selection, previous pad | open, update, close | replaced by each other in one tick | see GUI tick |
| On-screen keyboard (`vkbd.*`) | keys down, sticky slots, selection | show, update, hide, release_all | key presses outlive the branch that made them | no key left down |
| Game Center, NetMan (`gamecenter.*`, `netman.*`) | catalog, job kind, download slot, files | open, close, poll_fetch, start, begin, cancel, run | thread against owner, cancel at any point, half files | one thread; own result; nothing partial; cancel returns |
| Save slots (`statefile.*`, `statewindow.*`, `util.cpp`, `imgload.*`) | files of a slot, the window's view of them | open, save, load | dying between two files, full card | slots behave as registers |
| Key mapping (`keymap.*`) | overrides, disabled flags, `.key` file | load, save_or_cleanup | written in place | file and mapping agree |
| Board, cadence, breakpoints (`board.*`) | instruction clock, interrupt line, debugger flag | frame, single_step, check_interrupt, reset, serialize | time carried over frames, requests held over instructions, resets that keep the enables | a frame has its time and one request; no request is forgotten; programs never notice |
| Picture (`filler.*`) | beam, offset into the bitmap | fill, reset | keeps its place over the frame's edge; unchecked writes | the picture fills the bitmap, no more |
| CPU (`i8080.*`) | registers, flags, IFF and EI's delay | 256 opcodes | flags apart from their byte, decimal adjustment | the data sheet |
| Memory (`memory.*`) | flat array, paging mode, boot ROM | read, write, port 10h, load, attach | stack and window may be in different pages; bit planes | five separate memories |
| Timer (`8253.h`) | three counters, latches, flip-flops | count, load, latch, read | byte-wise accesses to a running count, zero as the largest | exact counts |
| Keyboard matrix, tape, palette, joystick | registers | ports | - | - |
| Floppy (`fd1793.h`, `fsimage.*`) | controller registers, images, dirty flag | commands, port access, flush; a directory turned into an image | multi-step commands, write-back, clusters and extents at their limits | what was written is read back, also from the file |
| Sound (`sound.*`, `ay.h`, resampler) | ring of eight buffers | sample, callback, pause | writer never looks at the reader; three threads | samples in order but for an overrun |
| TV, shaders, GL (`tv.cpp`) | bitmap, frame copy | render, copy_latest_rgb | UI thread reads what the engine draws | screenshot is one frame |
| GDB server (`server.*`) | packet state, acknowledgements | read, reply, stop, continue | stops the frames of the engine | the client always gets its answer |
| Scripts, options, other platforms, vendored code | - | - | - | - |

Interaction: the UI thread owns SDL, the windows, the files and the download slot.
It talks to the engine thread through `ui_to_engine_queue` (EXECUTE_FRAME, KEYDOWN,
KEYUP, QUIT) and hears from it through `engine_to_ui_queue` (RENDER, QUIT). The audio
callback, or a timer, posts the EXECUTE_FRAMEs. The pause is one atomic flag of the
board. With the machine paused the UI thread calls into the board directly. The
download thread shares five atomics and a file with the UI thread.

The engine thread runs the board alone: an instruction is executed, its cycles drawn
by the filler, counted by the timer and sampled into the ring of sound buffers; the
filler says in which cycle the raster asks for an interrupt. Ports reach the memory's
paging, the timer and the floppy controller.

The hazards, each at its line, are in `PROJECT.json`; a hazard without a property
says what is missing.

## 2. Modules

### EmulatorThreads
The UI thread (`uiPc`), the engine thread (`enginePc`), the two queues and the frame
clock (`Clocks`: sound callback, SDL timer, or the kick of the UI thread when there is
neither sound nor video). Actions carry the names of the functions: `timer_callback`,
`TakeEvent`/`StartFrame`/`EndFrame` (execute_frame_with_cadence and the RENDER after
it), `handle_keydown`, `wait_event` with the purge, `RenderAndGo`, `gui_tick`,
`BeginAccess`/`EndAccess` (a long call into the board from the UI thread, split so that
the engine can move in between), `StopSound`, `join_emulator_thread`. It EXTENDS
`GuiWindows` for what a GUI tick may do.

### GuiWindows
What a GUI tick promises the threads, without pads and windows' insides: which screen
is open, whether the machine is paused, and that the machine is only touched by a
window that was already open before this tick. `EmulatorThreads` runs on top of it,
`GuiTick` implements it: that is how the two halves of the UI thread, too large to
check together, are put together.

### GuiTick and VirtualKeyboard
`Emulator::gui_tick()`, one action per branch: the pad state `b` of this tick against
`gui_prev_held`, the windows' own previous pads (`fresh`, `list_prev`), the mute
after a window, the mapping, the on-screen keyboard with its sticky slots, the Map
Keys picker, the modal dialog, Game Center with its job kind. `VirtualKeyboard` holds
the keyboard as pure operators, because it is driven from two branches.

### AsyncFetch and GameCenter
`AsyncFetch` is the download slot: threads (numbered by the job), the atomics
`running`, `success`, `abort_flag`, the files; `run` goes through connecting, header
lines, opening the file, reading, closing, and the two final stores as separate steps,
and every step may fail as the socket or the card may: remove() leaves a partial file
where it is (`kept` records that), fclose() may lose the last block of a body that
counts as read (`"short"`), and the code notices neither. The number of header lines
is not bounded; `line` only alternates, so that reading them for ever is a behaviour
with steps of its own. `GameCenter` is the owner:
open, close, poll_fetch with its chain catalog / preview / ROM / ROM preview, the load
request, and the destructor at exit. `cancel()` raises the flag, then waits (`uiPc =
"join"`): the UI thread does nothing else meanwhile, as in the code.

### StateStore and SlotRegister
`StateStore` is the save and the load flow, one action per file call, with three files
per slot. A file is missing, whole (with the image it holds) or torn. Every call may
fail, the reads of the headers and the remove() of an error path included, and the
process may die between any two (`Die`): files stay, everything else is lost. `unread`
and `stale` are history: the slots whose header could not be read, and those whose
picture may be older than their state. `SlotRegister` is the promise: registers written in one step. A refused `rename`
leads into `tmpname()`, which calls `fclose(nullptr)` for the first free name it
finds. glibc and bionic do not survive that, so in the model `Die` is the only step
from there, and the move-aside-and-retry of `careful_rename()` is never reached.

### FloppyController
The FD1793 with four drives as a program of the machine meets it: `ReadStatus`,
`ReadData`, `WriteData`, `WriteRegister`, `WriteControl` are the accesses to ports
18h..1Ch, `restore`, `seekTrack`, `step`, `readSector`, `writeSector`,
`readAddressCommand` and `ignored` the commands, `Exit` the destructors. `exec` is the
function of that name: it moves one byte of the running transfer, on every data access
and on the third status read of a command. Every drive has its own head, offset and
length (`fdisk`), which is what makes a change of drive in mid-transfer interesting.
`image` is the disk in memory, `file` says whether the file still is that image;
`WriteBack` leaves open which of its file calls fail, and `Crash` is tmpname() on a
libc whose `fclose(nullptr)` does not return. `clean` and `moved` are history: they
record a program that keeps to the protocol and the bytes it has moved, and no guard
reads them. `MCFloppyController` gives the disks of the run.

A protocol is needed because the controller has no defence: it clears neither BUSY nor
a data request when a new command is given, and an address off the image ends the
emulator. `EveryByteOnce` says how little the program has to do: give the command when
no data is requested, and keep to the transfer.

### DirectoryDisk
A host directory mounted as a disk (`fsimage.cpp`): `save_file` takes the clusters and
the directory entries for one file after another, with their names, extents and
records; `read_file` is the reader of the same code: `ClusterAt` and
`RecordAt` say which cluster and which record the n-th one of a file is, so that what
it reads is a function of n and needs no recursion. The size of the image is a
parameter, so that the clusters and the directory both run out.
`write_data` follows the cluster chain as the code does, past its end as well: each word
read there from the heap is a choice from `Heap`, which need not name a cluster. A name
is a host name as it was cut. `Numbered` gives it a number, and `OnDisk` is what is read
of it from the disk, without the blanks at its end: `taken_names` has the former, the
search for a file the latter.

### SoundRing
`Soundnik::sample` (engine), `callback` (audio thread) and `pause` (engine and UI
thread) on the ring. sample() is cut between the two increments of `wrptr`, the
callback between its comparison of the indices and its update, pause() between the
three resets, which are made without the device lock. `credit` is how many buffers the
frames owed and begun are ahead of those played, `peak` its maximum since a pause: it
says when the writer laps the reader. Samples are counted, not kept.

### KvazMemory, RamDisk and KvazAccess
`KvazMemory` is memory.cpp as operators on a record: `bigram_select` and `tobank` are
the address arithmetic, mask included, `control_write` the mode byte of port 10h, `read`,
`write`, `init_from_vector`, `attach_boot` the rest. No length of a file is checked:
`RamDisk` promises that one runs on from the main memory through the four pages, that
the three address spaces after them take nothing, and that the rest comes round to the
main memory, the later byte winning. `RamDisk` is what it promises: a main
memory and four pages as separate functions, a page for stack accesses, a page for the
window. The boot ROM hides bytes by their big address, as in the code: one longer than
the main memory hides the first page as well. `KvazAccess` makes every access, and
implements `RamDisk`.

### Timer8253
One `CounterUnit` with its modes, byte-wise loads, the latch, `delay` and `write_state`;
a byte is one digit of `Hex` instead of two of sixteen, so that carries, zero counts
and decimal digits come within a few counts. `Apart` is the number of counts between
two accesses of a program: IN and OUT have a distance, and the code's unlocked
sequences rest on it.

### I8080 and Machine
`I8080` is the processor as a function from state to state: every opcode, its flags,
its cycles (those of the processor and those of the machine, `cycles`), its stack
requests. The logical operations go through the set of a byte's bits (`BitsOf`,
`ByteOf`). Opcodes are grouped by their bit fields where the source lists 256 cases.
Besides TLC's run, the operators were compared with the compiled i8080.cpp on some
fifty thousand random instructions over all opcodes, without a difference. `Machine`
adds the loop of the board around it: check_interrupt(), single_step() with the late
request, the OUT committed after its instruction, the memory of `KvazMemory`.
`MCMachine` has six programs in machine code, each with the result it promises.

### Raster
The same loop seen from its clock: instructions are their cycles, the beam is
`raster_pixel` and `raster_line`, `irq_clk` is the place of the request, `between` what
execute_frame() counts, `instr_time` what is carried to the next frame, `bmpofs` the
offset fill1() writes at. `asked` and `owed` are history. Machine and Raster both
contain the interrupt logic: Machine with what instructions do but any place of the
raster, Raster with the exact place but no memory.

## 3. Runs

| Run | Instance | Shows |
|---|---|---|
| `threads` | all three clocks, with and without debugger, queue bound 1 | TypeOK, PausedMeansStill, KickChainAlive; liveness QuitJoins, PausedGuiTicks, ResumeRuns |
| `gui` | one mappable button, two keys (one sticky), two sticky slots, 12 pad states | FrozenHasWindow, PickerIsVisible, WindowsPressNothing, FreshPressOnly, GuiTick implements GuiWindows |
| `stuck_key` | the same | refutes one comment, see Findings |
| `downloads` | one game, 2 redirects, any header lines, 2 chunks | OneDownload, FinishedMeansOwnResult, AnnouncedIsOnDisk, NothingPartialAtRest; liveness CancelReturns |
| `slots` | two slots, two machine states | TypeOK, WindowTellsTheDisk, PictureOfTheSlot, StateStore implements SlotRegister |
| `floppy` | a disk of three sectors and one of one, two bytes a sector, two sectors a track | TypeOK, WritesLandInTheirSector, EveryByteOnce, WrittenIsOnFile |
| `directory` | nine clusters, six entries of two slots, two records a cluster, four names, six lengths | ClustersDisjoint, ReadBack, ShortByTwo |
| `sound` | three buffers of two samples, frames a sample early or late, callback or display as clock | InOrder |
| `ramdisk` | eight addresses to a page, four modes, one write, a disk image longer than the array | KvazAccess implements RamDisk |
| `timer` | bytes of a digit of four, decimal digits of two, four counts between accesses | TerminalCount, RateGenerator, SquareWave, LatchedRead |
| `machine` | six programs on some 400 operands, four states of the enables at the start | ProgramResult, EiHolds; liveness Terminates |
| `raster` | six lines, five heights, four borders, every length of an instruction | FrameIsWhole, OneRequest, Prompt, BitmapFilled |

Every property of a passing run has a mutant: a definition changed the way a bug
would change it, under which TLC finds the property violated. The type invariants that
no cfg lists hold as well; those listed are the ones that a proof needs.

Bounds, and why they are enough:
* `MaxPending` (threads): the keyboard queues only while at most that many events
  wait. The code has no bound. One waiting event of each kind already gives every
  order of key, frame and QUIT that the engine can tell apart, as it takes them one by
  one; the theorems hold for every bound.
* `Pads`: no button at all, each alone, and the pairs that meet in one branch (START
  or SELECT or B with A, NAV with START or A). Three buttons at once add no branch.
* One source and two keys: two sources on one key differ only in the order of edges,
  which `Feed` leaves open. With one sticky key the two slots are never both in use.
* `MaxRedirects`, `MaxBytes`: the code bounds redirects, and the body only for the
  catalog and pictures. Two of each are a first, a last, and one in between where the
  flag may be raised. Header lines have no bound, in the code or in the model.
* One game: the slot runs one job at a time, and jobs for another game differ only in
  the file's name.
* Two slots: one saved over, one left alone. Two images: the old and the new.
* Floppy: at most four commands and register writes (`MaxOrders`), any number of data
  accesses: enough for a sector number and two transfers, on the same drive or with a
  change of drive between or within them. Side 1 and track 1 reach beyond the end of
  the small disks. Two bytes a sector are a first and a last; the theorems hold for
  any number of anything.
* Directory: two stems, one of them with and without a blank at its end, and a name
  without an extension; the word of the heap is 65535, which is no cluster; lengths on both sides of a cluster and of an extent, and one of three
  extents; both the clusters and the entries run out, and with two slots to an entry
  the check on the room is met right, wrong by the directory's clusters, and
  wrapped round.
* Sound: with three buffers one can be written, one played and one between them, which
  is all the code distinguishes; eight only put the overrun further off. `MaxPending`
  equal to the number of buffers lets the ring be lapped.
* RAM disk: every range limit of the window and of the halves is an address of its own.
  The modes are none, the stack alone, the window alone and both on different pages.
  One write is enough, since a byte in the wrong place differs from `RamDisk` at once.
  The ROM runs on from the main memory into the RAM disk. The disk image is 67 bytes for
  64 addresses: it comes round to the main memory and over its own first bytes. A ROM
  that long goes through the same function; the theorem has it at any length.
* Timer: a count is two digits, so that a byte-wise load or read can tear; counts wrap
  within sixteen. `Drift` stops a square wave of period one, which the code lets run
  below zero for ever.
* Machine: the second request of a program comes only in HLT, since the programs are
  far shorter than a frame. The operands are those at which carries, half carries and
  decimal digits change.
* Raster: `Line` is the code's, since the places in it are; six lines have a first, a
  last and blank and drawn ones between. The heights are none, two that are drawn, that
  of the frame and one more. The theorems hold for any number.

Fairness: `threads` assumes weak fairness of the clock, of the engine thread, of the
render loop and of the shutdown, i.e. that the operating system schedules both threads
and the audio device or the timer fires; nothing is assumed of the user. The render
loop is fair as a whole, because wait_event() blocks until there is a RENDER.
`downloads` assumes that the download thread runs (its socket calls have timeouts)
and that a join returns once the thread is gone. Nothing is assumed of the server: that
it ends its headers is the premise of `CancelReturns` (`HeadersEnd`). Without it the
property is WaitStaysShort of section 5, which TLC refutes under the same fairness: the
header loop does not look at the abort flag.
`machine` assumes that the machine is run, as it is 50 times a second, and that the
raster asks in a frame: `[]<><<MachineNext>>_machineVars`, which is weak fairness of
`MachineNext`, because a step that changes the state is always possible. In HLT the
only such step is the request. The other runs are safety only.

## 4. Proofs

`EmulatorThreadsProofs` (any clocks, any queue bound): type correctness,
LiveWhilePaused, PausedMeansStill and KickChainAlive. PausedMeansStill is not
inductive: nothing in the state says why no frame is running when the UI thread gets
to the board. The reason is a chain: wait_event() has emptied the RENDER queue before
the tick that opened the menu, that tick does not touch the machine, and the next tick
needs a RENDER newer than it. A frame that is still running has not posted its RENDER.
LiveWhilePaused says exactly that, and is inductive with the type invariant.
KickChainAlive says where the one token (EXECUTE_FRAME, running frame, RENDER, tick)
is; the queue lemmas at the head of the module carry it through appends and takes.

`FilesProofs` holds the two components whose state is files.
For `StateStore` (any slots, any machine states): type correctness, the four
invariants, and that StateStore implements SlotRegister. The invariant adds to the
properties where a save is: the temporary file holds the machine when it is renamed,
the slot holds it afterwards, and the old picture is gone while the new one is being
written. WindowTellsTheDisk and PictureOfTheSlot except the slots in `unread` and
`stale`, and nothing else: a save puts its slot right again. The refinement maps the rename to the register's write and every other step
of a save to stuttering.
For `DirectoryDisk` (any size of the image, any files, names and words of the heap):
type correctness, ClustersDisjoint, ReadBack and ShortByTwo. `StoredInv` says where the
clusters and the records of each whole file are: its extents are numbered without a gap,
they are the first entries of its name, and their chains are the clusters it was given,
in their order. That is what read_file() looks for, and a later save_file() does not
disturb it, because it only takes entries and clusters that are free: a file whose name
is the same on the disk gets entries behind those of the first, which read_file() does
not reach. `NamesInv` is about the
names: there are at most as many as files, so that among the numbers save_file() tries
one is free, by counting (`NewName`). The order in which clusters are taken is a rank,
the number of smaller ones; the lemmas on `Ascending` take its properties from
the theorems on finite sets instead of an induction. ShortByTwo is a count: the
entries name no more clusters than they have slots (`FewClusters`), so the room the
check sees is too large by the directory's clusters at most.

`FloppyControllerProofs` (any disks, sector sizes, programs): type correctness,
EveryByteOnce, WrittenIsOnFile and WritesLandInTheirSector. None of them is inductive:
the bytes the program has moved say nothing of the byte that waits in the data
register, nor of where the disk stands. `Reading`, `Addressing` and `Writing` say it:
the offset is the number of bytes moved, plus one while a byte read is waiting, and
that byte is the next of the sector. `NothingForgotten` (what the file lacks is
dirty, or a write was refused) is what lets the last byte of a sector, when it changes
nothing, leave the file alone. That nothing is thrown within a sector is `InImage`.

`FrameProofs` holds the two components that live from frame to frame.
For `Raster` (any number of lines, heights and borders): FrameIsWhole, OneRequest,
Prompt and BitmapFilled. The properties speak of the end of a frame; what is inductive
is `BeamInv`, that at every instruction of the frame the cycles counted are the beam's
place (or that and the 16 of an acknowledge before the first instruction) and that the
request has been made exactly when its place is behind. At the edge this becomes: the
beam stands past the edge by the cycles carried over, at most 36, so that the next
frame's request still lies ahead. `DueInv` adds that nothing is held over in
irq_carry where execute_frame() clears it, and that a request owed is at the board
or held over. `DrawInv` says how far the bitmap is filled at each place of the beam;
the lemmas on `Drawn` say that the parts of a line add up to it. With a height of `Lines`
or more it says that the beam becomes visible nowhere. Lengths of
instructions are multiples of four cycles, at most 24.
For `SoundRing` (any number of buffers, of samples in them, and of samples a frame may
be early or late by): type correctness and InOrder. `CreditInv` is the count of the
ring: what is written and not heard, with what the frame begun will add, is no more
than the buffers whose frames are owed and begun are ahead by, and the samples the
frames are early. So as long as `peak` stays below the number of buffers there is
room for every sample. `BetweenInv` is the shape of the ring: while the callback runs,
the floats between the two indices are the unheard ones, and the first of them is where
the callback reads. When the ring is exactly full its indices are equal, as if it were
empty; the callback then plays silence but does not move, so nothing is lost by it.
`EngineInv` and `CallbackInv` say where each thread is when the resets of pause()
run. The two cases InOrder excepts, a reset that meets a callback and a ring lapped,
are those of section 5.

`GameCenterProofs` (any games, any number of redirects, header lines and chunks):
OneDownload, FinishedMeansOwnResult, AnnouncedIsOnDisk and NothingPartialAtRest. That
only one thread lives follows from nothing the slot looks at: begin() joins whatever
`th` names, so `OwnInv` says that a live thread is that one, and that `running` is true
while it lives. That the result is its own needs the order of the last two stores:
`ResultInv` has success stored by this thread once it is about to store running.
`PartialInv` says who writes each partial file, or that remove() refused it, and `BodyInv` ties what a thread
believes of its body (`wrote`, `done_ok`) to its file at each step of run().
`TargetInv` connects the window with the slot: the thread's file is that of
`fetch_kind` and the selected game, also over the join inside a begin(). Without it a
finished job could announce a game whose file it has not written.

`GuiTickProofs` (any keys, buttons and combinations held): type correctness,
FrozenHasWindow, PickerIsVisible, the action properties WindowsPressNothing and
FreshPressOnly, and that GuiTick implements GuiWindows. Eleven branches read flags that
others have left, so the invariant says which leftovers there can be: `OneWindow` (a
branch closes one window, and would resume over another), that `waiting` is left
behind by no closing of Map Keys, and `FreshInv`, that a window just opened was opened
by a button still held, so that its own previous pad cannot see it as a new press.
`FedInv` is what FreshPressOnly rests on: outside the windows and without the mute,
what the machine was fed last is the mapping of `gui_prev_held`. Its first tick after
a window feeds nothing, and so restores it. The lemmas on VirtualKeyboard say of each
of its operations which keys it may press and what it leaves visible. The refinement
maps each branch to the step of GuiWindows that its outcome is.

`Timer8253Proofs` (any size of a byte, any base of its decimal digits, any distance
between accesses that is at least four counts): type correctness, TerminalCount,
RateGenerator, SquareWave and LatchedRead. The accesses are the difficulty: a latch
makes a count ahead of the clock, a write holds the next three back. `Done` is the
number of counts made either way, and `PaceInv` says that delays and pending loads have
run out before the next access, which is the distance of IN and OUT that the unlocked
code rests on. `Mode0Inv` adds that an armed counter shows what is left and that an
unarmed one has been to its end or was given zero; `WaveInv` that a steady half
stands where its counts say, which is what its length at the next edge follows from;
`ReadInv` that the flip-flop and the latched value keep what the first byte showed.
`ValueInv` bounds the values from below, where a square wave of period one runs off by
at most one for a count; only the type needs it.

`MachineProofs` holds the memory and the processor.
For `KvazAccess` (any size of the address space, any bytes, ROMs and images of any
length): KvazAccess implements RamDisk. The arithmetic comes first: below eight address
spaces `tobank` is injective, and on the memories it stays in the array
(`BankInjective`, `BankInSpace`), so that a write changes the byte of one big address
and no other, and a big address has one page and one offset (`Parts`). Beyond, it
repeats itself every eight address spaces (`BankRepeats`), which is where a long file
comes round; `LastPlace` picks the byte that is written last. The invariant is `PagingInv`: a mode that is on has a page other than zero,
because control_write() sets both; with page zero the redirected stack would be the
main memory again. `SelectsPage` then says that bigram_select() goes where PageOf does,
and each action has its refinement lemma.
For `Machine` (any programs): type correctness and EiHolds. There is one lemma for
every operation of I8080, that it takes a state whose registers are words and bytes,
whose flags are bits and whose memory is whole to another such state in which a request
still implies INTE; opcodes are then a case split. EiHolds rests on how the delay is
counted: an EI leaves `iff` off with two to count, the end of the instruction counts one
of them, and only the end of the next instruction turns `iff` on. So after an EI it is
off, whatever was pending before, and check_interrupt() accepts nothing. Both theorems
have the hypothesis `WholeMemory`, that a program is the contents of the whole memory:
the array of the machine has all its bytes. The programs TLC runs list the cells they
use and no others, for speed; TLC would stop at an access to any other cell.

The only assumptions are those of the constants (`ThreadsAssumption`,
`StoreAssumption`, `FloppyAssumption`, `RasterAssumption`, `CenterAssumption`,
`TickAssumption`, `KeyboardAssumption`, `TimerAssumption`, `BlockAssumption`,
`AccessAssumption`, `RingAssumption`, `DirectoryAssumption`, `ProgramsAssumption`), and
every run evaluates its own; the two theorems on Machine add `WholeMemory`. Some theorems
state invariants that no run lists: LiveWhilePaused, SlotIsWhole and SavedMeansStored,
because a listed property follows from them or rests on them, and the types of SoundRing,
DirectoryDisk and Machine.

Model-checked only: all liveness (QuitJoins, PausedGuiTicks, ResumeRuns, CancelReturns,
Terminates), which is beyond this prover; and ProgramResult of Machine, which is about
what six concrete programs compute: a proof would run each of them step by step.

## 5. Findings

Where the code does something else than a comment says:
* `stuck_key`: a button let go in the tick that opens the menu is never released
  (NoStuckKey).

These definitions are kept in their modules, each with the comment it came from, and
no run checks them; stated in the module's cfg, as an INVARIANT or, WaitStaysShort, as a
PROPERTY, TLC refutes each.
* NoClockAfterTeardown (EmulatorThreads): pause_sound(1) of the teardown can be
  overtaken by the engine's own pause_sound(0) after its first event; the callback then
  outlives the queue.
* BoardStillDuringAccess (EmulatorThreads): F11/F12 reset the board on the engine
  thread while the UI thread serializes a paused machine.
* MenuIsPaused (GuiTick): START or B in the tick that loads a downloaded ROM opens the
  menu over a running machine.
* WaitStaysShort (GameCenter): netman.h says of the wait for a cancelled job that it
  "stays short". The thread looks at the abort flag between reads of the body only; a
  server that goes on sending header lines holds the UI thread.
* AvailableOffline (GameCenter): downloading a game again destroys the copy on disk at
  once.
* NoTruncatedScreenshot (StateStore): on a full card a torn PNG stays and counts as
  written.

Behaviour met while modelling that no comment denies, and that the models contain:
* Sound: each starved callback asks for a frame and so raises the number of buffers
  under way for good; the eighth laps the ring. Frozen frames lower it again. The
  resets of pause() may meet a callback. InOrder names both cases.
* Timer: mode 0 with a count of zero never reaches its terminal count; a square wave of
  period one runs below zero; modes 4 and 5 are taken for 0 and 1; the control word for
  counter 3 indexes past the counters.
* Downloads: the results of fclose() and remove() are not looked at. A card that loses
  the last block gives a short ROM that counts as downloaded; one that has gone
  read-only keeps a partial file.
* Save slots: a header that cannot be read shows a used slot as empty, until a save. A
  picture that can neither be opened nor removed stays beside the new state.
* Directory disk: two names that the cut leaves apart by a blank only ("BOULDER.ROM",
  "BOULDER 2.ROM") are one file on the disk, and the second is never found. A chain that
  is too short is read past its end, and the directory then names whatever clusters the
  heap held.
* Directory disk: a file whose last extent is full reads as empty; the check on the
  room forgets the directory's own clusters and, unsigned, wraps round when the
  directory is nearly full; a host file without an extension throws.
* Raster: a frame counts 16 cycles too many when its first instruction is preceded by
  an acknowledge. A picture as high as the frame (`--yres` of 312 or more) is never
  visible: no line is its first, and the bitmap stays empty.
* Memory: no loader checks the length of its file. From 0x80000 on a ROM or a RAM disk
  image comes round to the main memory and overwrites it, its own beginning included.
* Memory: a boot ROM of the user longer than 64K hides the first bytes of the RAM disk
  from reads, but not from writes.
* Board: a reset leaves IFF, EI's delay and INTE as they were, so that a program may be
  interrupted before its first instruction (Machine starts in each such state);
  `--pc` is undone by i8080_init(); a state file brings back the time between
  frames but not the place of the beam.
* CPU: CALL fetches its destination with a stack request, which matters with a page of
  the RAM disk as the stack; the debugger's register packets use the stale byte F.
* fill2() to fill4() are never reached: commit_time is not zero when they are chosen.

## 6. Plan

Done: all modules above, and a theorem for every safety property but
ProgramResult. Of what remains, in the order of its worth:
1. The packet loop of the GDB server, composed with the frames of the engine through
   the `debugged` flag that EmulatorThreads has already.
2. The state file: each chunk against the fields of its component, the machine after a
   restore equals the machine saved.

Not modelled, and why:
* GDB server: a debugging aid of the desktop build; only its effect on the frames is
  in EmulatorThreads.
* `.key` parser, keyboard matrix, tape, palette, joystick: tables and registers that
  one caller uses in one order; nothing to interleave.
* Filters, resampler, AY generators, colours, shaders and drawing: arithmetic on
  samples and pixels, no control.
* ChaiScript hooks: what they do is up to the script.
* The Android and Godot front ends: other entry points with other threads.
* Vendored code (ChaiScript, stb, tinydir) and generated data (boot ROM, logo), which
  are most of the lines of the repository; modelled as external where the program
  rests on them.
