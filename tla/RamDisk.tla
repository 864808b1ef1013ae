------------------------------ MODULE RamDisk ------------------------------
(***************************************************************************)
(* What the memory of the machine promises to the CPU: five memories that  *)
(* have nothing to do with each other, the main one and the four pages of  *)
(* the Kvaz RAM disk.  While the stack is redirected, a stack access goes  *)
(* to the page chosen for the stack; while the window is open, an access   *)
(* to 0xa000-0xdfff goes to the page chosen for the window; every other    *)
(* access goes to the main memory.  The boot ROM hides the bytes under it  *)
(* from reads: those of the main memory, unless it is longer than that.    *)
(***************************************************************************)
EXTENDS Integers, Sequences

CONSTANTS Size, Window, Bytes, Controls, Images, Roms, Orgs, Boots

Addresses == 0..(Size - 1)

VARIABLES
  ram,        \* the main memory
  page,       \* page[p]: page p of the RAM disk
  stackPage,  \* the page of the stack, 0 when it is not redirected
  windowPage, \* the page seen through the window, 0 when it is closed
  boot,       \* the boot ROM, <<>> when it is detached
  last        \* the last access: its address, whether it was of the stack, its byte

ramDiskVars == <<ram, page, stackPage, windowPage, boot, last>>

(* Big address b is address b % Size of the main memory, or of page        *)
(* b \div Size.                                                            *)
Big(p, addr) == p * Size + addr
Byte(image, b, otherwise) == IF b + 1 \in DOMAIN image THEN image[b + 1] ELSE otherwise

(* A file loaded at org runs on from one memory into the next, and after   *)
(* three more that are not there from the start again, over its own bytes. *)
Filled(image, org, b, otherwise) ==
  LET places == {i \in DOMAIN image : (org + i - 1) % (8 * Size) = b} IN
  IF places = {} THEN otherwise
  ELSE image[CHOOSE i \in places : \A j \in places : j <= i]

(* The RAM disk starts empty or with an image of it, whose end is in the   *)
(* main memory if it is too long.                                          *)
RamDiskInit ==
  /\ \E image \in Images \union {<<>>} :
       /\ ram = [a \in Addresses |-> Filled(image, Size, a, 0)]
       /\ page = [p \in 1..4 |-> [a \in Addresses |-> Filled(image, Size, Big(p, a), 0)]]
  /\ stackPage = 0 /\ windowPage = 0 /\ boot = <<>> /\ last = <<0, FALSE, 0>>

(* The page an access goes to, 0 for the main memory.                      *)
PageOf(addr, stack) ==
  IF stack /\ stackPage # 0 THEN stackPage
  ELSE IF addr \in Window THEN windowPage
  ELSE 0

Control(w8) ==
  /\ stackPage' = IF (w8 \div 16) % 2 = 1 THEN 1 + ((w8 \div 4) % 4) ELSE 0
  /\ windowPage' = IF (w8 \div 32) % 2 = 1 THEN 1 + (w8 % 4) ELSE 0
  /\ UNCHANGED <<ram, page, boot, last>>

Get(addr, stack) ==
  /\ LET p == PageOf(addr, stack) IN
     last' = <<addr, stack, Byte(boot, Big(p, addr),
                                 IF p # 0 THEN page[p][addr] ELSE ram[addr])>>
  /\ UNCHANGED <<ram, page, stackPage, windowPage, boot>>

Put(addr, stack, byte) ==
  /\ last' = <<addr, stack, byte>>
  /\ UNCHANGED <<stackPage, windowPage, boot>>
  /\ LET p == PageOf(addr, stack) IN
     IF p # 0 THEN page' = [page EXCEPT ![p][addr] = byte] /\ ram' = ram
              ELSE ram' = [ram EXCEPT ![addr] = byte] /\ page' = page

Attach == \E rom \in Boots : boot' = rom /\ UNCHANGED <<ram, page, stackPage, windowPage, last>>
Detach == boot' = <<>> /\ UNCHANGED <<ram, page, stackPage, windowPage, last>>

(* A ROM starts with the main memory to itself, the RAM disk kept but for   *)
(* what a ROM too long for the main memory puts into it.                    *)
InstallRom(rom, org) ==
  /\ stackPage' = 0 /\ windowPage' = 0 /\ boot' = <<>> /\ last' = last
  /\ ram' = [a \in Addresses |-> Filled(rom, org, a, 0)]
  /\ page' = [p \in 1..4 |-> [a \in Addresses |-> Filled(rom, org, Big(p, a), page[p][a])]]

RamDiskNext ==
  \/ \E w8 \in Controls : Control(w8)
  \/ \E addr \in Addresses, stack \in BOOLEAN :
       Get(addr, stack) \/ \E byte \in Bytes : Put(addr, stack, byte)
  \/ Attach \/ Detach
  \/ \E rom \in Roms, org \in Orgs : InstallRom(rom, org)

RamDiskSpec == RamDiskInit /\ [][RamDiskNext]_ramDiskVars
=============================================================================
