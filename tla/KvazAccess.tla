----------------------------- MODULE KvazAccess -----------------------------
(***************************************************************************)
(* The memory under every access a program and the loaders make: reads and *)
(* writes of the CPU with and without a stack request, writes to port      *)
(* 0x10, the boot ROM attached and detached by resets, a ROM and an image  *)
(* of the RAM disk loaded.  RamDisk is what it promises.                   *)
(***************************************************************************)
EXTENDS KvazMemory

CONSTANTS
  Bytes,      \* the values written
  Controls,   \* the values written to port 0x10
  Images,     \* the contents of files with a RAM disk
  Roms,       \* of those with a ROM
  Orgs,       \* where ROMs are loaded
  Boots,      \* and of those with a boot ROM
  MaxWrites   \* bound: bytes a program writes

ASSUME AccessAssumption ==
  /\ 0 \in Bytes /\ Bytes \subseteq Nat
  /\ Controls \subseteq 0..255
  /\ \A file \in Images \union Roms \union Boots : file \in Seq(Bytes)
  /\ Orgs \subseteq Addresses /\ MaxWrites \in Nat

VARIABLES
  mem,
  last,       \* the last access: its address, whether it was of the stack, its byte
  writes

vars == <<mem, last, writes>>

PowerOn ==
  [bytes |-> [phys \in 0..(TotalMemory - 1) |-> 0], boot |-> <<>>,
   mode_stack |-> FALSE, mode_map |-> FALSE, page_map |-> 0, page_stack |-> 0]

(* Memory::Memory(), and main()'s load_edd() when an image is named.       *)
Init ==
  /\ \/ mem = PowerOn
     \/ \E image \in Images : mem = init_from_vector(PowerOn, image, AddressSpace)
  /\ last = <<0, FALSE, 0>> /\ writes = 0

Out10 ==
  /\ \E w8 \in Controls : mem' = control_write(mem, w8)
  /\ UNCHANGED <<last, writes>>

Read(addr, stackrq) ==
  /\ last' = <<addr, stackrq, read(mem, addr, stackrq)>>
  /\ UNCHANGED <<mem, writes>>

Write(addr, stackrq, w8) ==
  /\ writes < MaxWrites /\ writes' = writes + 1
  /\ mem' = write(mem, addr, w8, stackrq)
  /\ last' = <<addr, stackrq, w8>>

(* Board::reset() of F11 and F12, and the boot ROM's own BLKSBR.           *)
Blkvvod ==
  /\ \E boot \in Boots : mem' = attach_boot(mem, boot)
  /\ UNCHANGED <<last, writes>>
Blksbr == mem' = detach_boot(mem) /\ UNCHANGED <<last, writes>>

(* Emulator::load_rom(), and Board::reset(LOADROM) at its end.             *)
LoadedRom(rom, org) == detach_boot(init_from_vector(reset_paging(mem), rom, org))

LoadRom ==
  /\ \E rom \in Roms, org \in Orgs : mem' = LoadedRom(rom, org)
  /\ UNCHANGED <<last, writes>>

Next ==
  \/ Out10 \/ Blkvvod \/ Blksbr \/ LoadRom
  \/ \E addr \in Addresses, stackrq \in BOOLEAN :
       Read(addr, stackrq) \/ \E w8 \in Bytes : Write(addr, stackrq, w8)

Spec == Init /\ [][Next]_vars

(* The array keeps its length and the paging its ranges; a page number of  *)
(* zero never comes with a mode that would use it.                         *)
TypeOK ==
  /\ mem.bytes \in [0..(TotalMemory - 1) -> Bytes]
  /\ mem.mode_stack \in BOOLEAN /\ mem.mode_map \in BOOLEAN
  /\ mem.page_map \in 0..4 /\ mem.page_stack \in 0..4
  /\ mem.mode_stack => mem.page_stack # 0
  /\ mem.mode_map => mem.page_map # 0
  /\ mem.boot \in Boots \union {<<>>}
  /\ last \in Addresses \X BOOLEAN \X Bytes /\ writes \in 0..MaxWrites

(* The flat array with its bit planes, its page offsets and its order of   *)
(* tests behaves as five separate memories: no access of a program reaches *)
(* a byte of another page or another address, and a file of any length     *)
(* lands where RamDisk says it does.                                       *)
RD == INSTANCE RamDisk WITH
  Size <- AddressSpace, Window <- {a \in Addresses : InWindow(a)},
  ram <- [a \in Addresses |-> mem.bytes[tobank(a)]],
  page <- [p \in KvazPages |-> [a \in Addresses |-> mem.bytes[tobank(p * AddressSpace + a)]]],
  stackPage <- IF mem.mode_stack THEN mem.page_stack ELSE 0,
  windowPage <- IF mem.mode_map THEN mem.page_map ELSE 0,
  boot <- mem.boot

ImplementsRamDisk == RD!RamDiskSpec
=============================================================================
