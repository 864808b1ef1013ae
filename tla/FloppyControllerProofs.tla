----------------------- MODULE FloppyControllerProofs -----------------------
(***************************************************************************)
(* For any disks, any sector sizes and any program: the types, and what a  *)
(* program that keeps to the protocol relies on.                           *)
(*                                                                         *)
(* The properties are not inductive.  What is missing is where a transfer  *)
(* stands: how the offset of the disk, the data request and the bytes the  *)
(* program has moved go together (Reading, Addressing, Writing), and that  *)
(* whatever the file lacks is marked dirty (NothingForgotten).             *)
(***************************************************************************)
EXTENDS FloppyController, TLAPS

-----------------------------------------------------------------------------
(* Addresses                                                               *)

LEMMA Products == \A a, b \in Nat : a * b \in Nat
  BY SMT

\* The position the disk computes is a place in the image.
LEMMA PositionType ==
  ASSUME NEW t \in Nat, NEW s \in Nat, NEW n \in Nat
  PROVE  Position(t, s, n) \in Nat
<1>0. SectorsPerTrack \in Nat /\ SectorSize \in Nat
  BY FloppyAssumption
<1>1. t * 2 * SectorsPerTrack \in Nat /\ s * SectorsPerTrack \in Nat
  <2>1. t * 2 \in Nat
    OBVIOUS
  <2> QED BY <1>0, <2>1, Products
<1>2. (IF n = 0 THEN 0 ELSE n - 1) \in Nat
  OBVIOUS
<1> DEFINE S == t * 2 * SectorsPerTrack + s * SectorsPerTrack + (IF n = 0 THEN 0 ELSE n - 1)
<1>3. S \in Nat
  BY <1>1, <1>2
<1> QED BY <1>0, <1>3, Products DEF Position

\* For a sector that exists it is the first byte of the sector the registers name.
LEMMA PositionIsFirstByte ==
  ASSUME PortsOK, sector # 0
  PROVE  Position(track, side, sector) = FirstByte
<1>1. track \in Int /\ side \in Int /\ sector \in Int /\ SectorsPerTrack \in Int
  BY FloppyAssumption DEF PortsOK
<1>2. (track * 2 + side) * SectorsPerTrack
        = track * 2 * SectorsPerTrack + side * SectorsPerTrack
  BY <1>1
<1> QED BY <1>1, <1>2 DEF Position, FirstByte

-----------------------------------------------------------------------------
(* Types                                                                   *)

LEMMA SeekType ==
  ASSUME NEW f \in FDisks, NEW t \in 0..255, NEW s \in {0, 1}, NEW n \in 0..255
  PROVE  /\ seek(f, t, s, n) \in FDisks
         /\ seek(f, t, s, n).readOffset = f.readOffset
         /\ seek(f, t, s, n).readLength = f.readLength
         /\ WithinLength(f) => WithinLength(seek(f, t, s, n))
<1>1. Position(t, s, n) \in Nat
  <2>1. t \in Nat /\ s \in Nat /\ n \in Nat
    OBVIOUS
  <2> QED BY <2>1, PositionType
<1>2. /\ seek(f, t, s, n).readOffset = f.readOffset
      /\ seek(f, t, s, n).readLength = f.readLength
      /\ seek(f, t, s, n).readSource = f.readSource
  BY <1>1 DEF FDisks, seek
<1>3. seek(f, t, s, n) \in FDisks
  BY <1>1 DEF FDisks, seek
<1> QED BY <1>2, <1>3 DEF WithinLength

LEMMA FlushType ==
  ASSUME DisksOK, NEW d \in Drives, NEW files \in [Drives -> {"image", "old", "torn"}],
         alive \in BOOLEAN, flush(d, files)
  PROVE  /\ dirty' \in [Drives -> BOOLEAN] /\ refused' \in [Drives -> BOOLEAN]
         /\ file' \in [Drives -> {"image", "old", "torn"}]
         /\ alive' \in BOOLEAN
<1>1. CASE WriteBack({d}, files) /\ UNCHANGED alive
  BY <1>1 DEF WriteBack, DisksOK
<1>2. CASE Crash(files)
  BY <1>2 DEF Crash, DisksOK
<1> QED BY <1>1, <1>2 DEF flush

LEMMA ExecType ==
  ASSUME DisksOK, PortsOK, NEW byte \in 0..255, NEW request \in BOOLEAN,
         exec(byte, request)
  PROVE  /\ DisksOK'
         /\ busy' \in BOOLEAN /\ drq' \in BOOLEAN /\ data' \in 0..255 /\ alive' \in BOOLEAN
<1> USE DEF PortsOK
<1>1. CASE Nothing(byte, request) /\ busy' \in BOOLEAN
  BY <1>1 DEF Nothing, DisksOK, fileVars
<1>2. CASE Throw(byte, request)
  BY <1>2 DEF Throw, DisksOK, fileVars
<1>3. CASE /\ ~Over /\ ~BoundaryError /\ UNCHANGED busy /\ Advance
           /\ (commandtr # "write" /\ FetchByte) \/ (commandtr = "write" /\ StoreByte(byte))
  <2>1. Disk \in FDisks /\ WithinLength(Disk)
    BY DEF DisksOK, Disk
  <2>2. Disk.readOffset + 1 \in Nat /\ Disk.readOffset + 1 <= Disk.readLength
    BY <1>3, <2>1 DEF FDisks, Over, WithinLength
  <2>3. fdisk' \in [Drives -> FDisks]
    BY <1>3, <2>1, <2>2 DEF Advance, DisksOK, FDisks, Disk
  <2>4. \A d \in Drives : WithinLength(fdisk'[d])
    BY <1>3, <2>1, <2>2 DEF Advance, DisksOK, FDisks, Disk, WithinLength
  <2>5. CASE commandtr # "write" /\ FetchByte
    <3>1. data' \in 0..255
      <4>1. CASE Disk.readSource = "buffer"
        <5>1. Disk.readOffset + 1 \in 1..AddressLength
          BY <1>3, <2>1, <4>1 DEF FDisks, Over, WithinLength, AddressLength
        <5>2. Disk.readBuffer[Disk.readOffset + 1] \in 0..255
          BY <2>1, <5>1 DEF FDisks
        <5> QED BY <2>5, <4>1, <5>2 DEF FetchByte
      <4>2. CASE Disk.readSource = "disk" /\ Ready(dsksel)
        <5>1. Here \in Positions(dsksel)
          BY <1>3, <2>5, <4>2 DEF BoundaryError
        <5>2. image[dsksel][Here] \in 0..255
          BY <5>1 DEF DisksOK
        <5> QED BY <2>5, <4>2, <5>2 DEF FetchByte
      <4>3. CASE Disk.readSource = "disk" /\ ~Ready(dsksel)
        BY <2>5, <4>3 DEF FetchByte
      <4> QED BY <2>1, <4>1, <4>2, <4>3 DEF FDisks
    <3> QED BY <1>3, <2>3, <2>4, <2>5, <3>1 DEF FetchByte, DisksOK, fileVars
  <2>6. CASE commandtr = "write" /\ StoreByte(byte)
    <3> DEFINE changed == Ready(dsksel) /\ image[dsksel][Here] # byte
               files   == IF changed /\ file[dsksel] = "image"
                          THEN [file EXCEPT ![dsksel] = "old"] ELSE file
    <3>1. changed => Here \in Positions(dsksel)
      BY <1>3, <2>6 DEF BoundaryError
    <3>2. DOMAIN image' = Drives /\ \A d \in Drives : image'[d] \in [Positions(d) -> 0..255]
      BY <2>6, <3>1 DEF StoreByte, DisksOK
    <3>3. files \in [Drives -> {"image", "old", "torn"}]
      BY DEF DisksOK
    <3>4. CASE flush(dsksel, files)
      BY <1>3, <2>3, <2>4, <2>6, <3>2, <3>3, <3>4, FlushType DEF StoreByte, DisksOK
    <3>5. CASE /\ dirty' = [dirty EXCEPT ![dsksel] = @ \/ changed]
               /\ file' = files
               /\ UNCHANGED <<refused, alive>>
      <4>1. dirty' \in [Drives -> BOOLEAN]
        BY <3>5 DEF DisksOK
      <4> QED BY <1>3, <2>3, <2>4, <2>6, <3>2, <3>3, <3>5, <4>1 DEF StoreByte, DisksOK
    <3> QED BY <2>6, <3>4, <3>5 DEF StoreByte
  <2> QED BY <1>3, <2>5, <2>6
<1>4. CASE UNCHANGED busy /\ Nothing(byte, request)
  BY <1>1, <1>4
<1>5. CASE busy' = FALSE /\ Nothing(byte, request)
  BY <1>1, <1>5
<1>6. CASE ~Over /\ ~BoundaryError /\ UNCHANGED busy /\ commandtr # "write" /\ FetchByte
  BY <1>3, <1>6 DEF FetchByte
<1>7. CASE ~Over /\ ~BoundaryError /\ UNCHANGED busy /\ commandtr = "write" /\ StoreByte(byte)
  BY <1>3, <1>7 DEF StoreByte
<1> QED BY <1>2, <1>4, <1>5, <1>6, <1>7 DEF exec

\* A transfer or an address the controller prepares fits into the disk's record.
LEMMA TransferType ==
  ASSUME DisksOK, PortsOK, NEW f \in {Transfer, readAddress}
  PROVE  f \in FDisks /\ WithinLength(f)
<1>1. Disk \in FDisks /\ WithinLength(Disk)
  BY DEF DisksOK, PortsOK, Disk
<1>2. seek(Disk, track, side, sector) \in FDisks
  BY <1>1, SeekType DEF PortsOK
<1>3. LengthOn(dsksel) \in Nat
  BY FloppyAssumption DEF LengthOn
<1>4. CASE f = Transfer
  <2> DEFINE g == seek(Disk, track, side, sector)
  <2>1. Transfer = [g EXCEPT !.sector = sector, !.readSource = "disk",
                             !.readOffset = 0, !.readLength = LengthOn(dsksel)]
    BY DEF Transfer
  <2>2. sector \in 0..255 /\ g \in FDisks
    BY <1>2 DEF PortsOK
  <2> HIDE DEF g
  <2>3. Transfer \in FDisks
    BY <1>3, <2>1, <2>2 DEF FDisks
  <2>4. Transfer.readOffset = 0 /\ Transfer.readLength = LengthOn(dsksel)
          /\ Transfer.readSource = "disk"
    BY <2>1, <2>2 DEF FDisks
  <2> QED BY <1>3, <1>4, <2>3, <2>4 DEF WithinLength
<1>5. CASE f = readAddress
  <2>1. Address(Disk) \in [1..AddressLength -> 0..255]
    <3>1. Disk.track \in 0..255 /\ Disk.side \in 0..255 /\ Disk.sector \in 0..255
      BY <1>1 DEF FDisks
    <3> QED BY <3>1 DEF Address, AddressLength
  <2>2. readAddress \in FDisks
    BY <1>1, <2>1 DEF readAddress, FDisks, AddressLength
  <2>3. readAddress.readOffset = 0 /\ readAddress.readLength = AddressLength
    BY <1>1 DEF readAddress, FDisks
  <2> QED BY <1>5, <2>2, <2>3 DEF WithinLength, AddressLength
<1> QED BY <1>4, <1>5

LEMMA HeadType ==
  ASSUME DisksOK, PortsOK, NEW f \in FDisks, WithinLength(f), MoveHead(f)
  PROVE  fdisk' \in [Drives -> FDisks] /\ \A d \in Drives : WithinLength(fdisk'[d])
BY DEF MoveHead, DisksOK, PortsOK

LEMMA Element ==
  ASSUME NEW S, NEW s \in Seq(S), NEW i \in 1..Len(s)
  PROVE  s[i] \in S
  OBVIOUS

LEMMA TypeInit == Init => TypeOK
<1> SUFFICES ASSUME Init PROVE TypeOK
  OBVIOUS
<1>1. \A d \in Drives : image[d] \in [Positions(d) -> 0..255]
  <2> TAKE d \in Drives
  <2>1. Formatted[d] \in Seq(0..255)
    BY FloppyAssumption
  <2>2. \A p \in Positions(d) : p + 1 \in 1..Len(Formatted[d])
    BY <2>1 DEF Positions
  <2>3. \A p \in Positions(d) : Formatted[d][p + 1] \in 0..255
    BY <2>1, <2>2, Element
  <2> QED BY <2>3 DEF Init
<1>2. \A d \in Drives : fdisk[d] \in FDisks /\ WithinLength(fdisk[d])
  BY DEF Init, FDisks, WithinLength
<1>3. DisksOK
  BY <1>1, <1>2 DEF Init, DisksOK
<1>4. PortsOK
  <2>1. 0 \in Drives
    BY FloppyAssumption
  <2>2. /\ busy = FALSE /\ drq = FALSE /\ data = 0 /\ track = 0 /\ sector = 0
        /\ stepdir = 1 /\ lingertime = 3 /\ dsksel = 0 /\ side = 0
        /\ commandtr = "none" /\ alive = TRUE
    BY DEF Init
  <2>3. 0 \in 0..255 /\ 0 \in {0, 1} /\ 1 \in {-1, 1} /\ 3 \in 0..3
    OBVIOUS
  <2> QED BY <2>1, <2>2, <2>3, Zenon DEF PortsOK, Kinds
<1>5. HostOK
  <2>1. MaxOrders \in Nat
    BY FloppyAssumption
  <2>2. <<>> \in Seq(0..255)
    OBVIOUS
  <2>3. orders = 0 /\ clean = FALSE /\ moved = <<>>
    BY DEF Init
  <2>4. 0 \in 0..MaxOrders /\ FALSE \in BOOLEAN
    BY <2>1
  <2> QED BY <2>2, <2>3, <2>4, Zenon DEF HostOK
<1> QED BY <1>3, <1>4, <1>5 DEF TypeOK

\* Every access, command and exit keeps the types.
LEMMA TypeStep == TypeOK /\ [Next]_vars => TypeOK'
<1> SUFFICES ASSUME TypeOK, [Next]_vars PROVE TypeOK'
  OBVIOUS
<1> USE DEF TypeOK
<1>1. CASE UNCHANGED vars
  BY <1>1 DEF vars, fileVars, regVars, hostVars, DisksOK, PortsOK, HostOK
<1>2. ASSUME ReadStatus PROVE TypeOK'
  <2>1. DisksOK' /\ busy' \in BOOLEAN /\ drq' \in BOOLEAN /\ data' \in 0..255 /\ alive' \in BOOLEAN
    <3>1. CASE lingertime = 2 /\ exec(data, drq)
      BY <3>1, ExecType DEF PortsOK
    <3>2. CASE UNCHANGED <<image, fileVars, fdisk, busy, drq, data, alive>>
      BY <3>2 DEF DisksOK, PortsOK, fileVars
    <3> QED BY <1>2, <3>1, <3>2 DEF ReadStatus
  <2>2. lingertime' \in 0..3
    BY <1>2 DEF ReadStatus, PortsOK
  <2>3. UNCHANGED <<track, sector, stepdir, dsksel, side, commandtr, orders, clean, moved>>
    BY <1>2 DEF ReadStatus, regVars, hostVars
  <2> QED BY <2>1, <2>2, <2>3 DEF PortsOK, HostOK
<1>3. ASSUME NEW byte \in 0..255, NEW allowed \in BOOLEAN, Move(byte, allowed)
      PROVE  HostOK'
  <2>1. clean' \in BOOLEAN
    BY <1>3 DEF Move, HostOK, PortsOK
  <2>2. moved' \in Seq(0..255)
    <3>1. moved \in Seq(0..255)
      BY DEF HostOK
    <3>2. moved' = Append(moved, byte) \/ moved' = <<>>
      BY <1>3 DEF Move
    <3>3. Append(moved, byte) \in Seq(0..255) /\ <<>> \in Seq(0..255)
      BY <1>3, <3>1
    <3> QED BY <3>2, <3>3
  <2> QED BY <1>3, <2>1, <2>2 DEF Move, HostOK
<1>4. ASSUME ReadData PROVE TypeOK'
  <2>1. HostOK'
    BY <1>3, <1>4 DEF ReadData, PortsOK
  <2> QED BY <1>4, <2>1, ExecType DEF ReadData, PortsOK, regVars
<1>5. ASSUME NEW byte \in GuestBytes, WriteData(byte) PROVE TypeOK'
  <2>1. byte \in 0..255
    BY FloppyAssumption
  <2>2. HostOK'
    BY <1>3, <1>5, <2>1 DEF WriteData, PortsOK
  <2> QED BY <1>5, <2>1, <2>2, ExecType DEF WriteData, PortsOK, regVars
<1>6. ASSUME NEW legal \in BOOLEAN, Order(legal) PROVE HostOK'
  <2>1. moved' \in Seq(0..255)
    BY <1>6 DEF Order
  <2>2. orders' \in 0..MaxOrders
    BY <1>6, FloppyAssumption DEF Order, HostOK
  <2> QED BY <1>6, <2>1, <2>2 DEF Order, HostOK
<1>7. ASSUME NEW n \in GuestBytes, WriteRegister(n) PROVE TypeOK'
  <2>1. n \in 0..255
    BY FloppyAssumption
  <2>2. DisksOK'
    BY <1>7 DEF WriteRegister, DisksOK, fileVars
  <2>3. track' \in 0..255 /\ sector' \in 0..255
    BY <1>7, <2>1 DEF WriteRegister, PortsOK
  <2>4. HostOK'
    BY <1>6, <1>7 DEF WriteRegister
  <2>5. drq' \in BOOLEAN
        /\ UNCHANGED <<busy, data, stepdir, dsksel, side, lingertime, commandtr, alive>>
    BY <1>7 DEF WriteRegister
  <2> QED BY <2>2, <2>3, <2>4, <2>5 DEF PortsOK
<1>8. ASSUME NEW d \in Drives, NEW s \in {0, 1}, WriteControl(d, s) PROVE TypeOK'
  BY <1>6, <1>8 DEF WriteControl, DisksOK, PortsOK, fileVars
<1> DEFINE Rest == /\ busy' \in BOOLEAN /\ drq' \in BOOLEAN /\ track' \in 0..255
                   /\ stepdir' \in {-1, 1} /\ lingertime' \in 0..3
                   /\ fdisk' \in [Drives -> FDisks] /\ \A d \in Drives : WithinLength(fdisk'[d])
<1>9. ASSUME NEW kind \in Kinds, NEW legal \in BOOLEAN, Command(kind, legal), Rest
      PROVE  TypeOK'
  BY <1>6, <1>9 DEF Command, DisksOK, PortsOK, fileVars
<1>10. ASSUME restore PROVE TypeOK'
  <2>1. Disk \in FDisks /\ WithinLength(Disk)
    BY DEF DisksOK, PortsOK, Disk
  <2>2. seek(Disk, 0, side, 1) \in FDisks /\ WithinLength(seek(Disk, 0, side, 1))
    <3>1. 0 \in 0..255 /\ side \in {0, 1} /\ 1 \in 0..255
      BY DEF PortsOK
    <3> QED BY <2>1, <3>1, SeekType
  <2>3. Rest
    BY <1>10, <2>2, HeadType DEF restore, PortsOK
  <2> QED BY <1>9, <1>10, <2>3 DEF restore, Kinds
<1>11. ASSUME seekTrack PROVE TypeOK'
  <2>1. Disk \in FDisks /\ WithinLength(Disk)
    BY DEF DisksOK, PortsOK, Disk
  <2>2. seek(Disk, data, side, sector) \in FDisks /\ WithinLength(seek(Disk, data, side, sector))
    <3>1. data \in 0..255 /\ side \in {0, 1} /\ sector \in 0..255
      BY DEF PortsOK
    <3> QED BY <2>1, <3>1, SeekType
  <2>3. Rest
    BY <1>11, <2>2, HeadType DEF seekTrack, Linger, PortsOK
  <2> QED BY <1>9, <1>11, <2>3 DEF seekTrack, Kinds
<1>12. ASSUME NEW dir \in {stepdir, 1, -1}, step(dir) PROVE TypeOK'
  <2>1. Rest
    <3>1. track' \in 0..255
      BY <1>12, FloppyAssumption DEF step, PortsOK
    <3>2. stepdir' \in {-1, 1}
      BY <1>12 DEF step, PortsOK
    <3>3. busy' \in BOOLEAN /\ lingertime' \in 0..3
      BY <1>12 DEF step, Linger
    <3>4. UNCHANGED <<fdisk, drq>>
      BY <1>12 DEF step
    <3> QED BY <3>1, <3>2, <3>3, <3>4 DEF PortsOK, DisksOK
  <2> QED BY <1>9, <1>12, <2>1 DEF step, Kinds
<1>13. ASSUME readSector \/ writeSector \/ readAddressCommand PROVE TypeOK'
  <2>1. Rest
    <3>1. PICK f \in {Transfer, readAddress} : MoveHead(f)
      BY <1>13 DEF readSector, writeSector, readAddressCommand
    <3>2. fdisk' \in [Drives -> FDisks] /\ \A d \in Drives : WithinLength(fdisk'[d])
      BY <3>1, TransferType, HeadType
    <3>3. busy' \in BOOLEAN /\ drq' \in BOOLEAN /\ track' \in 0..255
      BY <1>13 DEF readSector, writeSector, readAddressCommand, Linger, PortsOK
    <3>4. stepdir' \in {-1, 1} /\ lingertime' \in 0..3
      BY <1>13 DEF readSector, writeSector, readAddressCommand, Linger, PortsOK
    <3> QED BY <3>2, <3>3, <3>4
  <2>2. \E kind \in Kinds, legal \in BOOLEAN : Command(kind, legal)
    BY <1>13 DEF readSector, writeSector, readAddressCommand, Kinds
  <2> QED BY <1>9, <2>1, <2>2
<1>14. ASSUME ignored PROVE TypeOK'
  <2>1. Rest
    BY <1>14 DEF ignored, DisksOK, PortsOK
  <2> QED BY <1>9, <1>14, <2>1 DEF ignored, Kinds
<1>15. ASSUME Exit PROVE TypeOK'
  <2>1. /\ dirty' \in [Drives -> BOOLEAN] /\ refused' \in [Drives -> BOOLEAN]
        /\ file' \in [Drives -> {"image", "old", "torn"}]
    BY <1>15 DEF Exit, WriteBack, Crash, DisksOK, fileVars
  <2> QED BY <1>15, <2>1 DEF Exit, DisksOK, PortsOK, HostOK, regVars, hostVars
<1> QED
  BY <1>1, <1>2, <1>4, <1>5, <1>7, <1>8, <1>10, <1>11, <1>12, <1>13, <1>14, <1>15
  DEF Next, Access, Commanded

\* No access and no command ever leaves its types, nor moves the offset of a disk
\* beyond the length of its transfer.
THEOREM TypeCorrect == Spec => []TypeOK
BY TypeInit, TypeStep, PTL DEF Spec
-----------------------------------------------------------------------------
(* Where the transfer of a program that keeps to the protocol stands       *)

OnSector ==
  /\ SectorExists
  /\ Disk.readSource = "disk" /\ Disk.readLength = SectorSize
  /\ Disk.position = FirstByte

AsOnDisk ==
  \A i \in 1..Len(moved) : i <= SectorSize => moved[i] = image[dsksel][FirstByte + i - 1]

Reading ==
  clean /\ commandtr = "read" =>
    /\ OnSector /\ AsOnDisk
    /\ Disk.readOffset = Len(moved) + (IF drq THEN 1 ELSE 0)
    /\ drq => data = image[dsksel][FirstByte + Len(moved)]
    /\ ~busy => ~drq /\ Len(moved) = SectorSize

Addressing ==
  clean /\ commandtr = "address" =>
    /\ Disk.readSource = "buffer" /\ Disk.readBuffer = Address(Disk)
    /\ \A i \in 1..Len(moved) : moved[i] = Address(Disk)[i]
    /\ Disk.readOffset = Len(moved) + (IF drq THEN 1 ELSE 0)
    /\ drq => data = Address(Disk)[Len(moved) + 1]
    /\ ~busy => ~drq /\ Len(moved) = AddressLength

Writing ==
  clean /\ commandtr = "write" =>
    /\ OnSector /\ AsOnDisk
    /\ drq => busy /\ Disk.readOffset = Len(moved)
    /\ ~drq => ~busy /\ Disk.readOffset = SectorSize /\ Len(moved) = SectorSize + 1
    /\ Disk.readOffset = SectorSize /\ alive /\ ~refused[dsksel] => file[dsksel] = "image"

NothingForgotten ==
  alive => \A d \in Drives : file[d] = "image" \/ dirty[d] \/ refused[d]

IInv ==
  /\ TypeOK
  /\ clean => commandtr # "none"
  /\ Reading /\ Addressing /\ Writing /\ NothingForgotten
\* Inside the sector an access is inside the image: nothing is thrown.
LEMMA InImage ==
  ASSUME TypeOK, OnSector, Disk.readOffset < SectorSize
  PROVE  /\ Ready(dsksel) /\ ~BoundaryError
         /\ Here \in Positions(dsksel) /\ Here = FirstByte + Disk.readOffset
<1>1. FirstByte \in Nat
  <2>1. track \in Nat /\ side \in Nat /\ sector \in Nat /\ sector # 0
    BY DEF TypeOK, PortsOK, OnSector, SectorExists
  <2> QED BY <2>1, PositionType, PositionIsFirstByte DEF TypeOK
<1>2. Disk.readOffset \in Nat
  BY DEF TypeOK, DisksOK, PortsOK, FDisks, Disk
<1>3. SectorSize \in Nat
  BY FloppyAssumption
<1>4. Here = FirstByte + Disk.readOffset
  BY DEF Here, OnSector
<1>5. dsksel \in Drives
  BY DEF TypeOK, PortsOK
<1>6. Len(Formatted[dsksel]) \in Nat /\ Formatted[dsksel] # <<>>
  <2>1. Formatted[dsksel] \in Seq(0..255)
    BY <1>5, FloppyAssumption
  <2>2. Len(Formatted[dsksel]) \in Nat
    BY <2>1
  <2>3. Len(Formatted[dsksel]) # 0
    BY <1>1, <1>2, <1>3, <2>2 DEF OnSector, SectorExists
  <2> QED BY <2>1, <2>2, <2>3
<1>7. Here \in Positions(dsksel)
  BY <1>1, <1>2, <1>3, <1>4, <1>6 DEF OnSector, SectorExists, Positions
<1> QED BY <1>4, <1>6, <1>7 DEF Ready, BoundaryError

\* One byte further, the disk is the same but for the offset.
LEMMA DiskAdvances ==
  ASSUME TypeOK, UNCHANGED dsksel, Advance
  PROVE  /\ Disk'.readOffset = Disk.readOffset + 1
         /\ Disk'.readLength = Disk.readLength /\ Disk'.readSource = Disk.readSource
         /\ Disk'.position = Disk.position /\ Disk'.readBuffer = Disk.readBuffer
         /\ Disk'.track = Disk.track /\ Disk'.side = Disk.side /\ Disk'.sector = Disk.sector
<1>1. Disk \in FDisks /\ dsksel \in Drives /\ fdisk \in [Drives -> FDisks]
  BY DEF TypeOK, DisksOK, PortsOK, Disk
<1>2. Disk' = [Disk EXCEPT !.readOffset = @ + 1]
  BY <1>1 DEF Advance, Disk
<1> QED BY <1>1, <1>2 DEF FDisks

\* What exec() may do for a program that keeps to the protocol.
Rests(byte, request) == UNCHANGED busy /\ Nothing(byte, request)
Ends(byte, request) == Over /\ busy' = FALSE /\ Nothing(byte, request)

LEMMA ExecSplit ==
  ASSUME IInv, clean, NEW byte, NEW request \in BOOLEAN, exec(byte, request)
  PROVE  \/ request /\ Rests(byte, request)
         \/ ~request /\ Ends(byte, request)
         \/ ~request /\ ~Over /\ UNCHANGED busy /\ commandtr # "write" /\ FetchByte
         \/ ~request /\ ~Over /\ UNCHANGED busy /\ commandtr = "write" /\ StoreByte(byte)
<1>1. ~Over => ~BoundaryError
  <2> SUFFICES ASSUME ~Over PROVE ~BoundaryError
    OBVIOUS
  <2>1. CASE commandtr = "address"
    BY <2>1 DEF IInv, Addressing, BoundaryError
  <2>2. CASE commandtr \in {"read", "write"}
    <3>1. OnSector
      BY <2>2 DEF IInv, Reading, Writing
    <3>2. WithinLength(Disk) /\ Disk \in FDisks
      BY DEF IInv, TypeOK, DisksOK, PortsOK, Disk
    <3>3. Disk.readOffset < SectorSize
      BY <3>1, <3>2, FloppyAssumption DEF Over, OnSector, WithinLength, FDisks
    <3> QED BY <3>1, <3>3, InImage DEF IInv
  <2> QED BY <2>1, <2>2 DEF IInv, TypeOK, PortsOK, Kinds
<1> QED BY <1>1 DEF exec, IInv, Rests, Ends
\* A byte the program takes is the one it was asked to take: with it, what it has
\* moved is what the disk has given out.
Takes ==
  \/ drq /\ moved' = Append(moved, data)
  \/ ~drq /\ moved' = moved

LEMMA TakesRead ==
  ASSUME IInv, clean, commandtr = "read", Takes
  PROVE  /\ Len(moved') = Disk.readOffset
         /\ \A i \in 1..Len(moved') :
              i <= SectorSize => moved'[i] = image[dsksel][FirstByte + i - 1]
<1>1. moved \in Seq(0..255) /\ data \in 0..255 /\ Len(moved) \in Nat
  BY DEF IInv, TypeOK, HostOK, PortsOK
<1>2. /\ AsOnDisk
      /\ Disk.readOffset = Len(moved) + (IF drq THEN 1 ELSE 0)
      /\ drq => data = image[dsksel][FirstByte + Len(moved)]
  BY DEF IInv, Reading
<1>3. CASE ~drq
  BY <1>1, <1>2, <1>3 DEF Takes, AsOnDisk
<1>4. CASE drq
  <2>1. moved' = Append(moved, data) /\ Len(moved') = Len(moved) + 1
    BY <1>1, <1>4 DEF Takes
  <2>2. ASSUME NEW i \in 1..Len(moved'), i <= SectorSize
        PROVE  moved'[i] = image[dsksel][FirstByte + i - 1]
    <3>1. CASE i \in 1..Len(moved)
      <4>1. moved'[i] = moved[i]
        BY <1>1, <2>1, <3>1
      <4> QED BY <1>2, <2>2, <3>1, <4>1 DEF AsOnDisk
    <3>2. CASE i = Len(moved) + 1
      <4>1. moved'[i] = data
        BY <1>1, <2>1, <3>2
      <4>2. FirstByte \in Int
        BY FloppyAssumption DEF FirstByte, IInv, TypeOK, PortsOK
      <4>3. FirstByte + i - 1 = FirstByte + Len(moved)
        BY <1>1, <3>2, <4>2
      <4> QED BY <1>2, <1>4, <4>1, <4>3
    <3> QED BY <1>1, <2>1, <2>2, <3>1, <3>2
  <2> QED BY <1>1, <1>2, <1>4, <2>1, <2>2
<1> QED BY <1>3, <1>4

LEMMA TakesAddress ==
  ASSUME IInv, clean, commandtr = "address", Takes
  PROVE  /\ Len(moved') = Disk.readOffset
         /\ \A i \in 1..Len(moved') : moved'[i] = Address(Disk)[i]
<1>1. moved \in Seq(0..255) /\ data \in 0..255 /\ Len(moved) \in Nat
  BY DEF IInv, TypeOK, HostOK, PortsOK
<1>2. /\ \A i \in 1..Len(moved) : moved[i] = Address(Disk)[i]
      /\ Disk.readOffset = Len(moved) + (IF drq THEN 1 ELSE 0)
      /\ drq => data = Address(Disk)[Len(moved) + 1]
  BY DEF IInv, Addressing
<1>3. CASE ~drq
  BY <1>1, <1>2, <1>3 DEF Takes
<1>4. CASE drq
  <2>1. moved' = Append(moved, data) /\ Len(moved') = Len(moved) + 1
    BY <1>1, <1>4 DEF Takes
  <2>2. ASSUME NEW i \in 1..Len(moved') PROVE moved'[i] = Address(Disk)[i]
    <3>1. CASE i \in 1..Len(moved)
      <4>1. moved'[i] = moved[i]
        BY <1>1, <2>1, <3>1
      <4> QED BY <1>2, <3>1, <4>1
    <3>2. CASE i = Len(moved) + 1
      BY <1>1, <1>2, <1>4, <2>1, <3>2
    <3> QED BY <1>1, <2>1, <2>2, <3>1, <3>2
  <2> QED BY <1>1, <1>2, <1>4, <2>1, <2>2
<1> QED BY <1>3, <1>4

Fixed == UNCHANGED <<track, sector, stepdir, dsksel, side, commandtr>>

LEMMA SectorStays ==
  ASSUME Fixed, OnSector,
         Disk'.readSource = Disk.readSource /\ Disk'.readLength = Disk.readLength,
         Disk'.position = Disk.position
  PROVE  OnSector' /\ FirstByte' = FirstByte
<1>1. FirstByte' = FirstByte
  BY DEF Fixed, FirstByte
<1>2. SectorExists'
  BY <1>1 DEF Fixed, OnSector, SectorExists
<1> QED BY <1>1, <1>2 DEF OnSector

\* The end of reading, and one byte more of it.
LEMMA ReadStep ==
  ASSUME IInv, clean, Fixed, clean', commandtr # "write", busy, Takes,
         \/ Ends(data, FALSE)
         \/ ~Over /\ UNCHANGED busy /\ FetchByte
  PROVE  Reading' /\ Addressing'
<1>0. Disk \in FDisks /\ WithinLength(Disk) /\ moved \in Seq(0..255)
  BY DEF IInv, TypeOK, DisksOK, PortsOK, HostOK, Disk
<1>1. CASE Ends(data, FALSE)
  <2>1. /\ Disk' = Disk /\ image' = image /\ drq' = FALSE /\ busy' = FALSE
        /\ Disk.readOffset = Disk.readLength
    BY <1>1 DEF Ends, Nothing, Over, Disk, Fixed
  <2>2. CASE commandtr = "read"
    <3>1. OnSector' /\ FirstByte' = FirstByte
      BY <2>1, <2>2, SectorStays DEF IInv, Reading
    <3>2. Disk.readLength = SectorSize
      BY <2>2 DEF IInv, Reading, OnSector
    <3>3. AsOnDisk'
      BY <2>1, <2>2, <3>1, TakesRead DEF AsOnDisk, Fixed
    <3>4. Len(moved') = SectorSize
      BY <2>1, <2>2, <3>2, TakesRead
    <3> QED BY <1>0, <2>1, <2>2, <3>1, <3>2, <3>3, <3>4 DEF Reading, Addressing, Fixed, FDisks
  <2>3. CASE commandtr = "address"
    <3>1. Disk.readSource = "buffer" /\ Disk.readBuffer = Address(Disk)
      BY <2>3 DEF IInv, Addressing
    <3>2. Address(Disk)' = Address(Disk)
      BY <2>1 DEF Address, Fixed
    <3>3. Len(moved') = AddressLength /\ Disk.readOffset = AddressLength
      BY <1>0, <2>1, <2>3, <3>1, TakesAddress DEF WithinLength
    <3> QED BY <2>1, <2>3, <3>1, <3>2, <3>3, TakesAddress
            DEF Reading, Addressing, Fixed, AddressLength
  <2> QED BY <2>2, <2>3 DEF IInv, TypeOK, PortsOK, Kinds
<1>2. CASE ~Over /\ UNCHANGED busy /\ FetchByte
  <2>1. /\ Disk'.readOffset = Disk.readOffset + 1
        /\ Disk'.readLength = Disk.readLength /\ Disk'.readSource = Disk.readSource
        /\ Disk'.position = Disk.position /\ Disk'.readBuffer = Disk.readBuffer
        /\ Disk'.track = Disk.track /\ Disk'.side = Disk.side /\ Disk'.sector = Disk.sector
    BY <1>2, DiskAdvances DEF FetchByte, Fixed, IInv
  <2>2. image' = image /\ drq' = TRUE /\ busy' = TRUE
    BY <1>2 DEF FetchByte, IInv, TypeOK, PortsOK
  <2>3. CASE commandtr = "read"
    <3>1. OnSector' /\ FirstByte' = FirstByte
      BY <2>1, <2>3, SectorStays DEF IInv, Reading
    <3>2. AsOnDisk'
      BY <2>2, <2>3, <3>1, TakesRead DEF AsOnDisk, Fixed
    <3>3. Disk.readOffset < SectorSize
      BY <1>0, <1>2, <2>3, FloppyAssumption
      DEF Over, OnSector, WithinLength, FDisks, IInv, Reading
    <3>4. data' = image[dsksel][FirstByte + Disk.readOffset]
      BY <1>2, <2>3, <3>3, InImage DEF FetchByte, IInv, Reading, OnSector
    <3>5. Len(moved') = Disk.readOffset
      BY <2>3, TakesRead
    <3> QED BY <2>1, <2>2, <2>3, <3>1, <3>2, <3>4, <3>5 DEF Reading, Addressing, Fixed
  <2>4. CASE commandtr = "address"
    <3>1. Disk.readSource = "buffer" /\ Disk.readBuffer = Address(Disk)
      BY <2>4 DEF IInv, Addressing
    <3>2. Address(Disk)' = Address(Disk)
      BY <2>1 DEF Address, Fixed
    <3>3. Len(moved') = Disk.readOffset
      BY <2>4, TakesAddress
    <3>4. data' = Address(Disk)[Len(moved') + 1]
      BY <1>2, <3>1, <3>3 DEF FetchByte
    <3> QED BY <2>1, <2>2, <2>4, <3>1, <3>2, <3>3, <3>4, TakesAddress
            DEF Reading, Addressing, Fixed
  <2> QED BY <2>3, <2>4 DEF IInv, TypeOK, PortsOK, Kinds
<1> QED BY <1>1, <1>2
\* A byte stored changes its own place of the image, and no other.
LEMMA Stored ==
  ASSUME IInv, clean, commandtr = "write", ~Over, NEW byte \in 0..255, StoreByte(byte)
  PROVE  /\ Here \in Positions(dsksel) /\ Here = FirstByte + Disk.readOffset
         /\ Disk.readOffset < SectorSize
         /\ image'[dsksel][Here] = byte
         /\ \A d \in Drives : \A p \in Positions(d) :
              d # dsksel \/ p # Here => image'[d][p] = image[d][p]
<1>1. OnSector /\ Disk \in FDisks /\ WithinLength(Disk)
  BY DEF IInv, Writing, TypeOK, DisksOK, PortsOK, Disk
<1>2. Disk.readOffset < SectorSize
  BY <1>1, FloppyAssumption DEF Over, OnSector, WithinLength, FDisks
<1>3. Ready(dsksel) /\ Here \in Positions(dsksel) /\ Here = FirstByte + Disk.readOffset
  BY <1>1, <1>2, InImage DEF IInv
<1>4. /\ dsksel \in Drives /\ DOMAIN image = Drives
      /\ \A d \in Drives : image[d] \in [Positions(d) -> 0..255]
  BY DEF IInv, TypeOK, DisksOK, PortsOK
<1> QED BY <1>2, <1>3, <1>4 DEF StoreByte
\* The last byte of a sector finds the file up to date, or brings it up to date.
LEMMA StoredOnFile ==
  ASSUME IInv, clean, Fixed, alive, commandtr = "write", NEW byte \in 0..255, StoreByte(byte),
         Disk.readOffset + 1 = Disk.readLength, alive', ~refused'[dsksel]
  PROVE  file'[dsksel] = "image"
<1> DEFINE changed == Ready(dsksel) /\ image[dsksel][Here] # byte
           files   == IF changed /\ file[dsksel] = "image"
                      THEN [file EXCEPT ![dsksel] = "old"] ELSE file
<1>1. dsksel \in Drives
  BY DEF IInv, TypeOK, PortsOK
<1>2. CASE FlushNow(changed) /\ WriteBack({dsksel}, files)
  <2>1. PICK result \in [{dsksel} -> {"done", "short", "failed"}] :
          /\ refused' = [d \in Drives |->
                           refused[d] \/ (d \in {dsksel} /\ result[d] # "done")]
          /\ file' = [d \in Drives |->
                        IF d \notin {dsksel} \/ result[d] = "failed" THEN files[d]
                        ELSE IF result[d] = "done" THEN "image" ELSE "torn"]
    BY <1>2 DEF WriteBack
  <2>2. result[dsksel] = "done"
    BY <1>1, <2>1
  <2> QED BY <1>1, <2>1, <2>2
<1>3. CASE FlushNow(changed) /\ Crash(files)
  BY <1>3 DEF Crash
<1>4. CASE ~FlushNow(changed)
  <2>1. ~changed /\ ~dirty[dsksel]
    BY <1>4 DEF FlushNow
  <2>2. file' = file /\ refused' = refused
    BY <1>4, <2>1 DEF StoreByte
  <2> QED BY <1>1, <2>1, <2>2 DEF IInv, NothingForgotten
<1> QED BY <1>2, <1>3, <1>4 DEF StoreByte, flush

\* The end of writing, and one byte more of it.
LEMMA WriteStep ==
  ASSUME IInv, clean, alive, Fixed, commandtr = "write", drq, NEW byte \in 0..255,
         moved' = Append(moved, byte),
         \/ Ends(byte, FALSE)
         \/ ~Over /\ UNCHANGED busy /\ StoreByte(byte)
  PROVE  Writing'
<1>0. /\ Disk \in FDisks /\ WithinLength(Disk) /\ moved \in Seq(0..255) /\ Len(moved) \in Nat
      /\ SectorSize \in Nat \ {0} /\ FirstByte \in Int
  BY FloppyAssumption DEF IInv, TypeOK, DisksOK, PortsOK, HostOK, Disk, FirstByte
<1>1. /\ OnSector /\ AsOnDisk /\ busy
      /\ Disk.readOffset = Len(moved) /\ Disk.readLength = SectorSize
      /\ Disk.readOffset = SectorSize /\ alive /\ ~refused[dsksel] => file[dsksel] = "image"
  BY DEF IInv, Writing, OnSector
<1>2. Len(moved') = Len(moved) + 1 /\ \A i \in 1..Len(moved) : moved'[i] = moved[i]
  BY <1>0
<1>3. CASE Ends(byte, FALSE)
  <2>1. /\ Disk' = Disk /\ image' = image /\ drq' = FALSE /\ busy' = FALSE
        /\ UNCHANGED <<alive, file, refused>> /\ Disk.readOffset = SectorSize
    BY <1>1, <1>3 DEF Ends, Nothing, Over, Disk, Fixed, fileVars
  <2>2. OnSector' /\ FirstByte' = FirstByte
    BY <1>1, <2>1, SectorStays
  <2>3. AsOnDisk'
    <3>1. \A i \in 1..Len(moved') : i <= SectorSize => i \in 1..Len(moved)
      BY <1>0, <1>1, <1>2, <2>1
    <3> QED BY <1>1, <1>2, <2>1, <2>2, <3>1 DEF AsOnDisk, Fixed
  <2> QED BY <1>1, <1>2, <2>1, <2>2, <2>3 DEF Writing, Fixed
<1>4. CASE ~Over /\ UNCHANGED busy /\ StoreByte(byte)
  <2>1. /\ Disk'.readOffset = Disk.readOffset + 1
        /\ Disk'.readLength = Disk.readLength /\ Disk'.readSource = Disk.readSource
        /\ Disk'.position = Disk.position
    BY <1>4, DiskAdvances DEF StoreByte, Fixed, IInv
  <2>2. drq' = TRUE /\ busy'
    BY <1>1, <1>4 DEF StoreByte
  <2>3. OnSector' /\ FirstByte' = FirstByte
    BY <1>1, <2>1, SectorStays
  <2>4. /\ Here = FirstByte + Disk.readOffset /\ Here \in Positions(dsksel)
        /\ image'[dsksel][Here] = byte
        /\ \A p \in Positions(dsksel) : p # Here => image'[dsksel][p] = image[dsksel][p]
    BY <1>4, Stored DEF IInv, TypeOK, PortsOK
  <2>5. AsOnDisk'
    <3>1. ASSUME NEW i \in 1..Len(moved'), i <= SectorSize
          PROVE  moved'[i] = image'[dsksel][FirstByte + i - 1]
      <4>1. CASE i \in 1..Len(moved)
        <5>1. FirstByte + i - 1 \in Positions(dsksel) /\ FirstByte + i - 1 # Here
          <6>1. FirstByte + i - 1 < Here
            BY <1>0, <1>1, <2>4, <4>1
          <6>2. FirstByte \in Nat
            <7>1. track \in Nat /\ side \in Nat /\ sector \in Nat /\ sector # 0
              BY <1>1 DEF IInv, TypeOK, PortsOK, OnSector, SectorExists
            <7> QED BY <7>1, PositionType, PositionIsFirstByte DEF IInv, TypeOK
          <6> QED BY <1>0, <2>4, <4>1, <6>1, <6>2 DEF Positions
        <5> QED BY <1>1, <1>2, <2>4, <3>1, <4>1, <5>1 DEF AsOnDisk
      <4>2. CASE i = Len(moved) + 1
        <5>1. moved'[i] = byte
          BY <1>0, <4>2
        <5>2. FirstByte + i - 1 = Here
          BY <1>0, <1>1, <2>4, <4>2
        <5> QED BY <2>4, <5>1, <5>2
      <4> QED BY <1>0, <1>2, <3>1, <4>1, <4>2
    <3> QED BY <2>3, <3>1 DEF AsOnDisk, Fixed
  <2>6. Disk'.readOffset = SectorSize /\ alive' /\ ~refused'[dsksel] => file'[dsksel] = "image"
    BY <1>1, <1>4, <2>1, StoredOnFile
  <2> QED BY <1>1, <1>2, <2>1, <2>2, <2>3, <2>5, <2>6 DEF Writing, Fixed
<1> QED BY <1>3, <1>4

\* What changes in memory is marked, and only a write of the file takes the mark.
LEMMA ExecForgetsNothing ==
  ASSUME IInv, alive, NEW byte, NEW request, exec(byte, request)
  PROVE  NothingForgotten'
<1>1. CASE Nothing(byte, request) \/ FetchByte
  BY <1>1 DEF IInv, NothingForgotten, Nothing, FetchByte, fileVars
<1>2. CASE Throw(byte, request)
  BY <1>2 DEF NothingForgotten, Throw
<1>3. CASE StoreByte(byte)
  <2> DEFINE changed == Ready(dsksel) /\ image[dsksel][Here] # byte
             files   == IF changed /\ file[dsksel] = "image"
                        THEN [file EXCEPT ![dsksel] = "old"] ELSE file
  <2>0. /\ dsksel \in Drives /\ dirty \in [Drives -> BOOLEAN]
        /\ file \in [Drives -> {"image", "old", "torn"}]
    BY DEF IInv, TypeOK, DisksOK, PortsOK
  <2>1. \A d \in Drives : d # dsksel => files[d] = file[d]
    BY <2>0
  <2>2. CASE WriteBack({dsksel}, files)
    <3>1. PICK result \in [{dsksel} -> {"done", "short", "failed"}] :
            /\ refused' = [d \in Drives |->
                             refused[d] \/ (d \in {dsksel} /\ result[d] # "done")]
            /\ file' = [d \in Drives |->
                          IF d \notin {dsksel} \/ result[d] = "failed" THEN files[d]
                          ELSE IF result[d] = "done" THEN "image" ELSE "torn"]
      BY <2>2 DEF WriteBack
    <3>2. dirty' = [d \in Drives |-> dirty[d] /\ d \notin {dsksel}]
      BY <2>2 DEF WriteBack
    <3>3. ASSUME NEW d \in Drives PROVE file'[d] = "image" \/ dirty'[d] \/ refused'[d]
      <4>1. CASE d = dsksel
        BY <2>0, <3>1, <4>1
      <4>2. CASE d # dsksel
        BY <2>1, <3>1, <3>2, <4>2 DEF IInv, NothingForgotten
      <4> QED BY <4>1, <4>2
    <3> QED BY <3>3 DEF NothingForgotten
  <2>3. CASE Crash(files)
    BY <2>3 DEF Crash, NothingForgotten
  <2>4. CASE /\ dirty' = [dirty EXCEPT ![dsksel] = @ \/ changed]
             /\ file' = files
             /\ UNCHANGED <<refused, alive>>
    <3>1. ASSUME NEW d \in Drives PROVE file'[d] = "image" \/ dirty'[d] \/ refused'[d]
      <4>1. CASE d = dsksel /\ changed
        BY <2>0, <2>4, <4>1
      <4>2. CASE d # dsksel \/ ~changed
        <5>1. file'[d] = file[d] /\ (dirty[d] => dirty'[d]) /\ refused'[d] = refused[d]
          BY <2>0, <2>4, <4>2
        <5> QED BY <5>1 DEF IInv, NothingForgotten
      <4> QED BY <4>1, <4>2
    <3> QED BY <3>1 DEF NothingForgotten
  <2> QED BY <1>3, <2>2, <2>3, <2>4 DEF StoreByte, flush
<1> QED BY <1>1, <1>2, <1>3 DEF exec
-----------------------------------------------------------------------------
(* The invariant                                                           *)

LEMMA InvInit == Init => IInv
<1> SUFFICES ASSUME Init PROVE IInv
  OBVIOUS
<1>1. clean = FALSE
  BY DEF Init
<1>2. NothingForgotten
  BY DEF Init, NothingForgotten
<1> QED BY <1>1, <1>2, TypeInit DEF IInv, Reading, Addressing, Writing

\* A transfer begins where it should.
LEMMA TransferBegins ==
  ASSUME IInv, readSector \/ writeSector, clean'
  PROVE  /\ OnSector' /\ AsOnDisk' /\ Disk'.readOffset = 0 /\ Len(moved') = 0
         /\ busy' = TRUE /\ (readSector => ~drq') /\ (writeSector => drq')
<1>1. SectorExists /\ ~drq
  BY DEF readSector, writeSector, Command, Order
<1>2. UNCHANGED <<track, sector, dsksel, side>> /\ fdisk' = [fdisk EXCEPT ![dsksel] = Transfer]
      /\ moved' = <<>> /\ busy' = TRUE
  BY DEF readSector, writeSector, Command, Order, MoveHead, Linger
<1>3. dsksel \in Drives /\ fdisk \in [Drives -> FDisks] /\ Disk \in FDisks
  BY DEF IInv, TypeOK, DisksOK, PortsOK, Disk
<1>4. Disk' = Transfer
  BY <1>2, <1>3 DEF Disk
<1>5. Ready(dsksel)
  <2>1. Formatted[dsksel] \in Seq(0..255)
    BY <1>3, FloppyAssumption
  <2>2. Position(track, side, sector) \in Nat /\ Position(track, side, sector) = FirstByte
    <3>1. track \in Nat /\ side \in Nat /\ sector \in Nat /\ sector # 0
      BY <1>1 DEF IInv, TypeOK, PortsOK, SectorExists
    <3> QED BY <3>1, PositionType, PositionIsFirstByte DEF IInv, TypeOK
  <2>3. Len(Formatted[dsksel]) # 0
    BY <1>1, <2>2, FloppyAssumption DEF SectorExists
  <2> QED BY <2>1, <2>3 DEF Ready
<1>6. seek(Disk, track, side, sector) \in FDisks
      /\ seek(Disk, track, side, sector).position = FirstByte
  <2>1. seek(Disk, track, side, sector) \in FDisks
    BY <1>3, SeekType DEF IInv, TypeOK, PortsOK
  <2>2. seek(Disk, track, side, sector).position = Position(track, side, sector)
    BY <1>3, <1>5 DEF seek, FDisks
  <2>3. sector # 0
    BY <1>1 DEF SectorExists
  <2> QED BY <2>1, <2>2, <2>3, PositionIsFirstByte DEF IInv, TypeOK
<1>7. /\ Transfer.readSource = "disk" /\ Transfer.readLength = SectorSize
      /\ Transfer.position = FirstByte /\ Transfer.readOffset = 0
  <2> DEFINE g == seek(Disk, track, side, sector)
  <2>1. Transfer = [g EXCEPT !.sector = sector, !.readSource = "disk",
                             !.readOffset = 0, !.readLength = SectorSize]
    BY <1>5 DEF Transfer, LengthOn
  <2> HIDE DEF g
  <2>2. g \in FDisks /\ g.position = FirstByte
    BY <1>6 DEF g
  <2> QED BY <2>1, <2>2 DEF FDisks
<1>8. SectorExists' /\ FirstByte' = FirstByte
  BY <1>1, <1>2 DEF SectorExists, FirstByte
<1>9. OnSector' /\ AsOnDisk'
  BY <1>2, <1>4, <1>7, <1>8 DEF OnSector, AsOnDisk
<1> QED BY <1>1, <1>2, <1>4, <1>7, <1>9 DEF readSector, writeSector

LEMMA AddressBegins ==
  ASSUME IInv, readAddressCommand, clean'
  PROVE  Addressing'
<1>1. /\ dsksel \in Drives /\ fdisk \in [Drives -> FDisks] /\ Disk \in FDisks
      /\ dsksel' = dsksel /\ fdisk' = [fdisk EXCEPT ![dsksel] = readAddress]
      /\ moved' = <<>> /\ busy' = TRUE /\ drq' = drq /\ ~drq
  BY DEF IInv, TypeOK, DisksOK, PortsOK, Disk, readAddressCommand, Command, Order, MoveHead, Linger
<1>2. Disk' = readAddress
  BY <1>1 DEF Disk
<1>3. /\ readAddress.readSource = "buffer" /\ readAddress.readBuffer = Address(Disk)
      /\ readAddress.readOffset = 0 /\ readAddress.track = Disk.track
      /\ readAddress.side = Disk.side /\ readAddress.sector = Disk.sector
  BY <1>1 DEF readAddress, FDisks
<1>4. Address(Disk)' = Address(Disk)
  BY <1>1, <1>2, <1>3 DEF Address
<1> QED BY <1>1, <1>2, <1>3, <1>4 DEF Addressing

LEMMA InvStep == IInv /\ [Next]_vars => IInv'
<1> SUFFICES ASSUME IInv, [Next]_vars PROVE IInv'
  OBVIOUS
<1>0. TypeOK'
  BY TypeStep DEF IInv
<1>1. CASE UNCHANGED vars
  <2>1. /\ UNCHANGED <<image, dirty, file, refused, fdisk, busy, drq, data, track, sector>>
        /\ UNCHANGED <<dsksel, side, commandtr, alive, clean, moved>>
    BY <1>1 DEF vars, fileVars, regVars, hostVars
  <2> QED BY <1>0, <2>1
          DEF IInv, Reading, Addressing, Writing, NothingForgotten, OnSector, AsOnDisk, SectorExists,
              FirstByte, Disk, Address
<1>2. ASSUME ReadStatus PROVE IInv'
  <2>1. Fixed /\ UNCHANGED <<clean, moved>> /\ alive /\ busy
    BY <1>2 DEF ReadStatus, Fixed, regVars, hostVars
  <2>2. CASE UNCHANGED <<image, fileVars, fdisk, busy, drq, data, alive>>
    BY <1>0, <2>1, <2>2
    DEF IInv, Reading, Addressing, Writing, NothingForgotten, OnSector, AsOnDisk, SectorExists,
        FirstByte, Disk, Address, Fixed, fileVars
  <2>3. CASE lingertime = 2 /\ exec(data, drq)
    <3>1. NothingForgotten'
      BY <2>1, <2>3, ExecForgetsNothing
    <3>2. CASE ~clean
      BY <1>0, <2>1, <3>1, <3>2 DEF IInv, Reading, Addressing, Writing
    <3>3. CASE clean /\ drq
      <4>1. UNCHANGED <<image, fileVars, fdisk, busy, drq, data, alive>>
        <5>1. drq \in BOOLEAN
          BY DEF IInv, TypeOK, PortsOK
        <5> QED BY <2>3, <3>3, <5>1, ExecSplit DEF Rests, Nothing
      <4> QED BY <2>2, <4>1
    <3>4. CASE clean /\ ~drq
      <4>1. commandtr # "write"
        BY <2>1, <3>4 DEF IInv, Writing
      <4>2. Takes
        BY <2>1, <3>4 DEF Takes
      <4>3. drq = FALSE
        BY <3>4 DEF IInv, TypeOK, PortsOK
      <4>4. Ends(data, FALSE) \/ (~Over /\ UNCHANGED busy /\ FetchByte)
        BY <2>3, <3>4, <4>1, <4>3, ExecSplit
      <4>5. Reading' /\ Addressing'
        BY <2>1, <3>4, <4>1, <4>2, <4>4, ReadStep
      <4>6. Writing' /\ (clean' => commandtr' # "none")
        BY <2>1, <4>1 DEF Writing, Fixed, IInv
      <4> QED BY <1>0, <3>1, <4>5, <4>6 DEF IInv
    <3> QED BY <3>2, <3>3, <3>4
  <2> QED BY <1>2, <2>2, <2>3 DEF ReadStatus
<1>3. ASSUME ReadData PROVE IInv'
  <2>1. Fixed /\ alive /\ exec(data, FALSE) /\ Move(data, commandtr # "write")
    BY <1>3 DEF ReadData, Fixed, regVars
  <2>2. NothingForgotten'
    BY <2>1, ExecForgetsNothing
  <2>3. CASE ~clean'
    BY <1>0, <2>2, <2>3 DEF IInv, Reading, Addressing, Writing
  <2>4. CASE clean'
    <3>1. clean /\ drq /\ commandtr # "write" /\ moved' = Append(moved, data)
      BY <2>1, <2>4 DEF Move
    <3>2. busy
      BY <3>1 DEF IInv, Reading, Addressing, TypeOK, PortsOK, Kinds
    <3>3. Ends(data, FALSE) \/ (~Over /\ UNCHANGED busy /\ FetchByte)
      BY <2>1, <3>1, ExecSplit
    <3>4. Reading' /\ Addressing'
      BY <2>1, <2>4, <3>1, <3>2, <3>3, ReadStep DEF Takes
    <3>5. Writing' /\ commandtr' # "none"
      BY <2>1, <3>1 DEF Writing, Fixed, IInv
    <3> QED BY <1>0, <2>2, <3>4, <3>5 DEF IInv
  <2> QED BY <2>3, <2>4
<1>4. ASSUME NEW byte \in GuestBytes, WriteData(byte) PROVE IInv'
  <2>1. Fixed /\ alive /\ exec(byte, FALSE) /\ Move(byte, commandtr = "write") /\ byte \in 0..255
    BY <1>4, FloppyAssumption DEF WriteData, Fixed, regVars
  <2>2. NothingForgotten'
    BY <2>1, ExecForgetsNothing
  <2>3. CASE ~clean'
    BY <1>0, <2>2, <2>3 DEF IInv, Reading, Addressing, Writing
  <2>4. CASE clean'
    <3>1. clean /\ drq /\ commandtr = "write" /\ moved' = Append(moved, byte)
      BY <2>1, <2>4 DEF Move
    <3>2. Ends(byte, FALSE) \/ (~Over /\ UNCHANGED busy /\ StoreByte(byte))
      BY <2>1, <3>1, ExecSplit
    <3>3. Writing'
      BY <2>1, <3>1, <3>2, WriteStep
    <3>4. Reading' /\ Addressing' /\ commandtr' # "none"
      BY <2>1, <3>1 DEF Reading, Addressing, Fixed
    <3> QED BY <1>0, <2>2, <3>3, <3>4 DEF IInv
  <2> QED BY <2>3, <2>4
<1>5. ASSUME ~clean', UNCHANGED <<fileVars, alive>> PROVE IInv'
  <2>1. NothingForgotten'
    BY <1>5 DEF IInv, NothingForgotten, fileVars
  <2> QED BY <1>0, <1>5, <2>1 DEF IInv, Reading, Addressing, Writing
<1>6. ASSUME NEW n \in GuestBytes, WriteRegister(n) PROVE IInv'
  BY <1>5, <1>6 DEF WriteRegister, Order
<1>7. ASSUME NEW d \in Drives, NEW s \in {0, 1}, WriteControl(d, s) PROVE IInv'
  BY <1>5, <1>7 DEF WriteControl, Order
<1>8. ASSUME restore \/ seekTrack \/ ignored \/ \E dir \in {stepdir, 1, -1} : step(dir)
      PROVE  IInv'
  BY <1>5, <1>8 DEF restore, seekTrack, ignored, step, Command, Order
<1>9. ASSUME readSector \/ writeSector \/ readAddressCommand PROVE IInv'
  <2>1. CASE ~clean'
    BY <1>5, <1>9, <2>1 DEF readSector, writeSector, readAddressCommand, Command
  <2>2. NothingForgotten'
    BY <1>9 DEF IInv, NothingForgotten, readSector, writeSector, readAddressCommand, Command,
                fileVars
  <2>3. CASE clean' /\ readSector
    <3>1. commandtr' = "read"
      BY <2>3 DEF readSector, Command
    <3>2. Reading'
      BY <2>3, TransferBegins DEF Reading
    <3> QED BY <1>0, <2>2, <3>1, <3>2 DEF IInv, Addressing, Writing
  <2>4. CASE clean' /\ writeSector
    <3>1. commandtr' = "write"
      BY <2>4 DEF writeSector, Command
    <3>2. Writing'
      BY <2>4, TransferBegins, FloppyAssumption DEF Writing
    <3> QED BY <1>0, <2>2, <3>1, <3>2 DEF IInv, Addressing, Reading
  <2>5. CASE clean' /\ readAddressCommand
    <3>1. commandtr' = "address"
      BY <2>5 DEF readAddressCommand, Command
    <3>2. Addressing'
      BY <2>5, AddressBegins
    <3> QED BY <1>0, <2>2, <3>1, <3>2 DEF IInv, Reading, Writing
  <2> QED BY <1>9, <2>1, <2>3, <2>4, <2>5
<1>10. ASSUME Exit PROVE IInv'
  <2>1. /\ ~alive' /\ Fixed /\ UNCHANGED <<image, fdisk, busy, drq, data, clean, moved>>
    BY <1>10 DEF Exit, Fixed, regVars, hostVars
  <2> QED BY <1>0, <2>1
          DEF IInv, Reading, Addressing, Writing, NothingForgotten, OnSector, AsOnDisk, SectorExists,
              FirstByte, Disk, Address, Fixed
<1> QED
  BY <1>1, <1>2, <1>3, <1>4, <1>6, <1>7, <1>8, <1>9, <1>10 DEF Next, Access, Commanded

LEMMA InvHolds == Spec => []IInv
BY InvInit, InvStep, PTL DEF Spec

-----------------------------------------------------------------------------
(* The theorems                                                            *)

\* Byte for byte, a program that keeps to the protocol reads and writes the sector
\* or the address it asked for.
THEOREM EveryByteOnceHolds == Spec => []EveryByteOnce
<1>1. IInv => EveryByteOnce
  BY DEF IInv, Reading, Addressing, Writing, AsOnDisk, EveryByteOnce, TypeOK, PortsOK, Kinds
<1> QED BY <1>1, InvHolds, PTL

\* A sector that has been written is in the file of its image.
THEOREM WrittenIsOnFileHolds == Spec => []WrittenIsOnFile
<1>1. IInv => WrittenIsOnFile
  <2> SUFFICES ASSUME IInv, clean, commandtr = "write", Len(moved) >= SectorSize, alive,
                      ~refused[dsksel]
               PROVE  file[dsksel] = "image"
    BY DEF WrittenIsOnFile
  <2>1. Disk \in FDisks /\ WithinLength(Disk)
    BY DEF IInv, TypeOK, DisksOK, PortsOK, Disk
  <2>2. Disk.readOffset = SectorSize
    BY <2>1, FloppyAssumption DEF IInv, Writing, OnSector, WithinLength, FDisks
  <2> QED BY <2>2 DEF IInv, Writing
<1> QED BY <1>1, InvHolds, PTL

\* Nothing outside the sector the registers name is written.
THEOREM WritesLandInTheirSectorHolds == Spec => WritesLandInTheirSector
<1> DEFINE Lands == clean' => \A d \in Drives : \A p \in Positions(d) :
                      image'[d][p] # image[d][p] =>
                        d = dsksel /\ p \in FirstByte..(FirstByte + SectorSize - 1)
<1>1. IInv /\ [Next]_vars => [Lands]_vars
  <2> SUFFICES ASSUME IInv, Next, clean' PROVE Lands
    OBVIOUS
  <2>1. CASE image' = image
    BY <2>1
  <2>2. ASSUME NEW byte \in 0..255, clean, commandtr = "write", ~Over, StoreByte(byte)
        PROVE  Lands
    <3>1. /\ Here = FirstByte + Disk.readOffset /\ Disk.readOffset < SectorSize
          /\ \A d \in Drives : \A p \in Positions(d) :
               d # dsksel \/ p # Here => image'[d][p] = image[d][p]
      BY <2>2, Stored
    <3>2. Disk.readOffset \in Nat /\ FirstByte \in Int /\ SectorSize \in Nat
      BY FloppyAssumption DEF IInv, TypeOK, DisksOK, PortsOK, FDisks, Disk, FirstByte
    <3>3. Here \in FirstByte..(FirstByte + SectorSize - 1)
      BY <3>1, <3>2
    <3> QED BY <3>1, <3>3
  <2>3. ASSUME NEW byte \in 0..255, NEW request \in BOOLEAN, clean, exec(byte, request)
        PROVE  Lands
    <3>1. CASE Rests(byte, request) \/ Ends(byte, request) \/ FetchByte
      BY <2>1, <3>1 DEF Rests, Ends, Nothing, FetchByte
    <3>2. CASE ~Over /\ commandtr = "write" /\ StoreByte(byte)
      BY <2>2, <2>3, <3>2
    <3> QED BY <2>3, <3>1, <3>2, ExecSplit
  <2>4. CASE ReadStatus
    <3>1. clean /\ data \in 0..255 /\ drq \in BOOLEAN
      BY <2>4 DEF ReadStatus, hostVars, IInv, TypeOK, PortsOK
    <3>2. exec(data, drq) \/ image' = image
      BY <2>4 DEF ReadStatus
    <3> QED BY <2>1, <2>3, <3>1, <3>2
  <2>5. CASE ReadData
    BY <2>3, <2>5 DEF ReadData, Move, IInv, TypeOK, PortsOK
  <2>6. CASE \E n \in GuestBytes : WriteData(n)
    BY <2>3, <2>6, FloppyAssumption DEF WriteData, Move
  <2>7. CASE Commanded
    BY <2>1, <2>7
    DEF Commanded, restore, seekTrack, step, readSector, writeSector, readAddressCommand, ignored,
        Command
  <2>8. CASE \/ \E n \in GuestBytes : WriteRegister(n)
             \/ \E d \in Drives, s \in {0, 1} : WriteControl(d, s)
             \/ Exit
    BY <2>1, <2>8 DEF WriteRegister, WriteControl, Exit
  <2> QED BY <2>4, <2>5, <2>6, <2>7, <2>8 DEF Next, Access
<1> QED BY <1>1, InvHolds, PTL DEF Spec, WritesLandInTheirSector
=============================================================================
