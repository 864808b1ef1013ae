--------------------------- MODULE FloppyController ---------------------------
(***************************************************************************)
(* The FD1793 floppy controller and its disk images (fd1793.h), driven by  *)
(* a program of the emulated machine through ports 18h..1Ch (vio.h): any   *)
(* program, one port access at a time.                                     *)
(*                                                                         *)
(* Nothing here is timed.  A transfer moves when the program touches the   *)
(* controller: exec() runs on every access to the data port, and once, on  *)
(* the third status read after a command.  Port 1Ch cannot be read, so the *)
(* program sees BUSY and DRQ only.                                         *)
(*                                                                         *)
(* Left out: the NOTREADY, SEEKERR and INTRQ bits and the debugging state, *)
(* which nothing in the controller reads back; images of a directory; the  *)
(* option --nofdc.                                                         *)
(***************************************************************************)
EXTENDS Integers, Sequences, FiniteSets

CONSTANTS
  Drives,           \* the drives 0..3 that the program selects
  Formatted,        \* the bytes of the image of each drive, <<>> for no disk
  SectorsPerTrack,  \* 5 in parse_v06c()
  SectorSize,       \* 1024 in parse_v06c()
  EmptySectorSize,  \* 512 in init(), of a drive without a disk
  MaxTrack,         \* bound: STEP counts the track register no further
  MaxOrders,        \* bound: register writes and commands of the program
  GuestBytes,       \* bound: what the program writes to ports 18h..1Ah
  NullFclose        \* what fclose(nullptr) does: "dies" with glibc and bionic,
                    \* "returns" with msvcrt

ASSUME FloppyAssumption ==
  /\ Drives \subseteq 0..3 /\ 0 \in Drives
  /\ Formatted \in [Drives -> Seq(0..255)]
  /\ SectorsPerTrack \in Nat \ {0}
  /\ SectorSize \in Nat \ {0} /\ EmptySectorSize \in Nat \ {0}
  /\ MaxTrack \in 0..255 /\ MaxOrders \in Nat
  /\ GuestBytes \subseteq 0..255
  /\ NullFclose \subseteq {"dies", "returns"}

AddressLength == 6
Kinds == {"none", "read", "address", "write"}

VARIABLES
  image,      \* the bytes of the image in memory (FileDiskImage::_data)
  dirty,      \* FileDiskImage::dirty
  file,       \* the image file: as in memory, "old" or "torn"
  refused,    \* fopen(), fwrite() or rename() has failed for this drive
  fdisk,      \* FDisk of every drive: the head and the running transfer
  busy, drq,  \* ST_BUSY, ST_DRQ
  data, track, sector, stepdir, lingertime, dsksel, side,
  commandtr,  \* the kind of the running transfer
  alive,      \* the emulator runs: no exit, no exception, no crash
  orders,     \* how many registers the program has written, commands included
  clean,      \* the program has kept to the protocol since its last command
  moved       \* ... and has moved these bytes since

fileVars == <<dirty, file, refused>>
regVars == <<track, sector, stepdir, dsksel, side>>
hostVars == <<orders, clean, moved>>
vars == <<image, fileVars, fdisk, busy, drq, data, regVars, lingertime, commandtr,
          alive, hostVars>>

Positions(d) == 0..(Len(Formatted[d]) - 1)
Ready(d) == Formatted[d] # <<>>
LengthOn(d) == IF Ready(d) THEN SectorSize ELSE EmptySectorSize
Disk == fdisk[dsksel]

FDisks ==
  [position : Nat, track : 0..255, side : {0, 1}, sector : 0..255, readOffset : Nat,
   readLength : Nat, readSource : {"disk", "buffer"}, readBuffer : [1..AddressLength -> 0..255]]

WithinLength(f) ==
  /\ f.readOffset <= f.readLength
  /\ f.readSource = "buffer" => f.readLength = AddressLength

DisksOK ==
  /\ DOMAIN image = Drives /\ \A d \in Drives : image[d] \in [Positions(d) -> 0..255]
  /\ dirty \in [Drives -> BOOLEAN] /\ refused \in [Drives -> BOOLEAN]
  /\ file \in [Drives -> {"image", "old", "torn"}]
  /\ fdisk \in [Drives -> FDisks] /\ \A d \in Drives : WithinLength(fdisk[d])

PortsOK ==
  /\ busy \in BOOLEAN /\ drq \in BOOLEAN
  /\ data \in 0..255 /\ track \in 0..255 /\ sector \in 0..255
  /\ stepdir \in {-1, 1} /\ lingertime \in 0..3
  /\ dsksel \in Drives /\ side \in {0, 1}
  /\ commandtr \in Kinds
  /\ alive \in BOOLEAN

HostOK ==
  /\ orders \in 0..MaxOrders /\ clean \in BOOLEAN
  /\ moved \in Seq(0..255)

TypeOK == DisksOK /\ PortsOK /\ HostOK

Init ==
  /\ image = [d \in Drives |-> [p \in Positions(d) |-> Formatted[d][p + 1]]]
  /\ dirty = [d \in Drives |-> FALSE] /\ refused = [d \in Drives |-> FALSE]
  /\ file = [d \in Drives |-> "image"]
  /\ fdisk = [d \in Drives |-> [position |-> 0, track |-> 0, side |-> 0, sector |-> 0,
                                readOffset |-> 0, readLength |-> 0, readSource |-> "disk",
                                readBuffer |-> [i \in 1..AddressLength |-> 0]]]
  /\ busy = FALSE /\ drq = FALSE
  /\ data = 0 /\ track = 0 /\ sector = 0
  /\ stepdir = 1 /\ lingertime = 3 /\ dsksel = 0 /\ side = 0
  /\ commandtr = "none" /\ alive = TRUE
  /\ orders = 0 /\ clean = FALSE /\ moved = <<>>

-----------------------------------------------------------------------------
(* The disk: its head, its transfer, its file                              *)

Position(t, s, n) ==
  (t * 2 * SectorsPerTrack + s * SectorsPerTrack + (IF n = 0 THEN 0 ELSE n - 1)) * SectorSize

seek(f, t, s, n) ==
  IF Ready(dsksel) THEN [f EXCEPT !.position = Position(t, s, n), !.track = t, !.side = s]
  ELSE f

\* A mutant of Transfer: the offset continues where the last one stopped.
TransferGoesOn ==
  [seek(Disk, track, side, sector) EXCEPT !.sector = sector, !.readSource = "disk",
                                          !.readLength = LengthOn(dsksel)]

\* A mutant of Transfer: the head stays where it is.
TransferAtHead ==
  [Disk EXCEPT !.sector = sector, !.readSource = "disk",
               !.readOffset = 0, !.readLength = LengthOn(dsksel)]

(* What readSector() and writeSector() prepare, after the same seek.       *)
Transfer ==
  [seek(Disk, track, side, sector) EXCEPT !.sector = sector, !.readSource = "disk",
                                          !.readOffset = 0, !.readLength = LengthOn(dsksel)]

Address(f) == <<f.track, f.side, f.sector, IF Ready(dsksel) THEN 3 ELSE 2, 0, 0>>

readAddress ==
  [Disk EXCEPT !.readSource = "buffer", !.readOffset = 0, !.readLength = AddressLength,
               !.readBuffer = Address(Disk)]

Here == Disk.position + Disk.readOffset

\* A mutant of Over: one byte too many.
OverLate == Disk.readOffset > Disk.readLength
Over == Disk.readOffset = Disk.readLength
BoundaryError ==
  /\ commandtr = "write" \/ Disk.readSource = "disk"
  /\ Ready(dsksel) /\ Here \notin Positions(dsksel)
Advance == fdisk' = [fdisk EXCEPT ![dsksel].readOffset = @ + 1]

(* A whole new file is renamed over the old one, but nothing looks at what *)
(* fopen(), fwrite() and rename() return.  tmpname() comes first, and      *)
(* closes the null pointer it got for the free name it looked for.         *)
WriteBack(D, files) ==
  /\ "returns" \in NullFclose
  /\ dirty' = [d \in Drives |-> dirty[d] /\ d \notin D]
  /\ \E result \in [D -> {"done", "short", "failed"}] :
       /\ refused' = [d \in Drives |-> refused[d] \/ (d \in D /\ result[d] # "done")]
       /\ file' = [d \in Drives |-> IF d \notin D \/ result[d] = "failed" THEN files[d]
                                    ELSE IF result[d] = "done" THEN "image" ELSE "torn"]

Crash(files) ==
  /\ "dies" \in NullFclose
  /\ alive' = FALSE
  /\ file' = files
  /\ UNCHANGED <<dirty, refused>>

flush(d, files) ==
  \/ WriteBack({d}, files) /\ UNCHANGED alive
  \/ Crash(files)

-----------------------------------------------------------------------------
(* exec(): one byte of the running transfer, the data register holding     *)
(* byte and the data request being request when it is called               *)

Nothing(byte, request) ==
  /\ data' = byte /\ drq' = request
  /\ UNCHANGED <<image, fileVars, fdisk, alive>>

FetchByte ==
  /\ Advance
  /\ data' = IF Disk.readSource = "buffer" THEN Disk.readBuffer[Disk.readOffset + 1]
             ELSE IF Ready(dsksel) THEN image[dsksel][Here] ELSE 0
  /\ drq' = TRUE
  /\ UNCHANGED <<image, fileVars, alive>>

\* A mutant of FlushNow: the last byte decides alone.
FlushOwnByte(changed) == changed /\ Disk.readOffset + 1 = Disk.readLength
FlushNow(changed) == (changed \/ dirty[dsksel]) /\ Disk.readOffset + 1 = Disk.readLength

StoreByte(byte) ==
  LET changed == Ready(dsksel) /\ image[dsksel][Here] # byte
      files   == IF changed /\ file[dsksel] = "image"
                 THEN [file EXCEPT ![dsksel] = "old"] ELSE file
  IN /\ Advance
     /\ data' = byte /\ drq' = TRUE
     /\ image' = IF changed THEN [image EXCEPT ![dsksel][Here] = byte] ELSE image
     /\ IF FlushNow(changed) THEN flush(dsksel, files)
        ELSE /\ dirty' = [dirty EXCEPT ![dsksel] = @ \/ changed]
             /\ file' = files
             /\ UNCHANGED <<refused, alive>>

\* An access outside the image throws std::out_of_range, which nothing catches.
Throw(byte, request) ==
  /\ alive' = FALSE
  /\ data' = byte /\ drq' = request
  /\ UNCHANGED <<image, fileVars, fdisk, busy>>

exec(byte, request) ==
  \/ /\ commandtr = "none"
     /\ busy' = FALSE
     /\ Nothing(byte, request)
  \/ /\ commandtr # "none" /\ request
     /\ UNCHANGED busy
     /\ Nothing(byte, request)
  \/ /\ commandtr # "none" /\ ~request /\ Over
     /\ busy' = FALSE
     /\ Nothing(byte, request)
  \/ /\ commandtr # "none" /\ ~request /\ ~Over
     /\ IF BoundaryError THEN Throw(byte, request)
        ELSE /\ UNCHANGED busy
             /\ IF commandtr = "write" THEN StoreByte(byte) ELSE FetchByte

-----------------------------------------------------------------------------
(* The ports.  clean and moved follow a program that keeps to the          *)
(* protocol: it gives a command for a sector that exists when no data is   *)
(* requested, leaves registers and drive alone until the end, and moves a  *)
(* byte when one is requested.                                             *)

Order(legal) ==
  /\ orders < MaxOrders
  /\ orders' = orders + 1
  /\ clean' = legal /\ moved' = <<>>

Move(byte, allowed) ==
  /\ clean' = (clean /\ drq /\ allowed)
  /\ moved' = IF clean' THEN Append(moved, byte) ELSE <<>>
  /\ UNCHANGED orders

ReadStatus ==
  /\ alive /\ busy /\ lingertime < 3
  /\ lingertime' = lingertime + 1
  /\ IF lingertime = 2 THEN exec(data, drq)
     ELSE UNCHANGED <<image, fileVars, fdisk, busy, drq, data, alive>>
  /\ UNCHANGED <<regVars, commandtr, hostVars>>

ReadData ==
  /\ alive
  /\ exec(data, FALSE)
  /\ Move(data, commandtr # "write")
  /\ UNCHANGED <<regVars, lingertime, commandtr>>

WriteData(byte) ==
  /\ alive
  /\ exec(byte, FALSE)
  /\ Move(byte, commandtr = "write")
  /\ UNCHANGED <<regVars, lingertime, commandtr>>

WriteRegister(n) ==
  /\ alive
  /\ \/ track' = n /\ UNCHANGED sector
     \/ sector' = n /\ UNCHANGED track
  /\ drq' = FALSE
  /\ Order(FALSE)
  /\ UNCHANGED <<image, fileVars, fdisk, busy, data, stepdir, dsksel, side, lingertime,
                 commandtr, alive>>

\* The port 1Ch: the drive in bits 0 and 1, the side inverted in bit 2.
WriteControl(d, s) ==
  /\ alive
  /\ dsksel' = d /\ side' = s
  /\ Order(FALSE)
  /\ UNCHANGED <<image, fileVars, fdisk, busy, drq, data, track, sector, stepdir, lingertime,
                 commandtr, alive>>

-----------------------------------------------------------------------------
(* The commands                                                            *)

Command(kind, legal) ==
  /\ alive
  /\ Order(legal)
  /\ commandtr' = kind
  /\ UNCHANGED <<image, fileVars, data, sector, dsksel, side, alive>>

Linger == busy' = TRUE /\ lingertime' = 0
MoveHead(f) == fdisk' = [fdisk EXCEPT ![dsksel] = f]

restore ==
  /\ Command("none", FALSE)
  /\ track' = IF Ready(dsksel) THEN 0 ELSE track
  /\ MoveHead(seek(Disk, 0, side, 1))
  /\ UNCHANGED <<busy, drq, stepdir, lingertime>>

seekTrack ==
  /\ Command("none", FALSE) /\ Linger
  /\ track' = data
  /\ MoveHead(seek(Disk, data, side, sector))
  /\ UNCHANGED <<drq, stepdir>>

\* STEP, STEP IN and STEP OUT turn the register, not the head.
step(dir) ==
  /\ Command("none", FALSE) /\ Linger
  /\ track + dir <= MaxTrack
  /\ stepdir' = dir
  /\ track' = IF track + dir < 0 THEN 0 ELSE track + dir
  /\ UNCHANGED <<fdisk, drq>>

FirstByte == ((track * 2 + side) * SectorsPerTrack + sector - 1) * SectorSize
SectorExists ==
  /\ sector \in 1..SectorsPerTrack
  /\ FirstByte + SectorSize <= Len(Formatted[dsksel])

readSector ==
  /\ Command("read", ~drq /\ SectorExists) /\ Linger
  /\ MoveHead(Transfer)
  /\ UNCHANGED <<drq, track, stepdir>>

\* WRITE SECTOR asks for the first byte at once.
writeSector ==
  /\ Command("write", ~drq /\ SectorExists) /\ Linger
  /\ drq' = TRUE
  /\ MoveHead(Transfer)
  /\ UNCHANGED <<track, stepdir>>

readAddressCommand ==
  /\ Command("address", ~drq /\ Ready(dsksel)) /\ Linger
  /\ MoveHead(readAddress)
  /\ UNCHANGED <<drq, track, stepdir>>

\* FORCE INTERRUPT; READ TRACK and WRITE TRACK are not implemented.
ignored ==
  /\ Command("none", FALSE)
  /\ UNCHANGED <<fdisk, busy, drq, track, stepdir, lingertime>>

\* The images are destroyed with the emulator, and flush themselves.
Exit ==
  /\ alive /\ alive' = FALSE
  /\ LET D == {d \in Drives : dirty[d]}
     IN IF D = {} THEN UNCHANGED fileVars ELSE WriteBack(D, file) \/ Crash(file)
  /\ UNCHANGED <<image, fdisk, busy, drq, data, regVars, lingertime, commandtr, hostVars>>

Access ==
  \/ ReadStatus \/ ReadData
  \/ \E n \in GuestBytes : WriteData(n) \/ WriteRegister(n)
  \/ \E d \in Drives, s \in {0, 1} : WriteControl(d, s)

Commanded ==
  \/ restore \/ seekTrack \/ \E dir \in {stepdir, 1, -1} : step(dir)
  \/ readSector \/ writeSector \/ readAddressCommand \/ ignored

Next == Access \/ Commanded \/ Exit

Spec == Init /\ [][Next]_vars

-----------------------------------------------------------------------------
(* What a program that keeps to the protocol relies on                     *)

\* A byte of an image changes only as part of the sector, on the drive, that the
\* registers name, whatever the program did with this and other drives before.
WritesLandInTheirSector ==
  [][clean' => \A d \in Drives : \A p \in Positions(d) :
       image'[d][p] # image[d][p] =>
         d = dsksel /\ p \in FirstByte..(FirstByte + SectorSize - 1)]_vars

\* The n-th byte the program reads or writes is the n-th byte of the sector, or
\* of the address: none is lost, doubled or stale.  BUSY ends with the last one;
\* a write ends with one byte more, which goes nowhere.
EveryByteOnce ==
  clean =>
    /\ commandtr \in {"read", "write"} =>
         \A i \in 1..Len(moved) :
           i <= SectorSize => moved[i] = image[dsksel][FirstByte + i - 1]
    /\ commandtr = "address" =>
         \A i \in 1..Len(moved) : moved[i] = Address(Disk)[i]
    /\ ~busy => Len(moved) = CASE commandtr = "read"  -> SectorSize
                               [] commandtr = "write" -> SectorSize + 1
                               [] OTHER               -> AddressLength

\* When the last byte of a sector has been taken, the image file is the image,
\* unless the file system has refused some write of this drive.
WrittenIsOnFile ==
  clean /\ commandtr = "write" /\ Len(moved) >= SectorSize /\ alive /\ ~refused[dsksel]
    => file[dsksel] = "image"
=============================================================================
