----------------------------- MODULE KvazMemory -----------------------------
(***************************************************************************)
(* The memory of the machine (Memory): 64K of main memory and the four 64K *)
(* pages of the Kvaz RAM disk in one flat array, the paging that port 0x10 *)
(* sets, and the boot ROM over the bottom of the main memory.              *)
(*                                                                         *)
(* These are operators on a memory value, a record of the class's fields,  *)
(* so that the modules of the CPU and of the board can use them.  Pages    *)
(* are counted in address spaces instead of being shifted by 16 bits.      *)
(***************************************************************************)
EXTENDS Integers, Sequences

CONSTANT Block    \* an eighth of the address space: 8192 in the machine

ASSUME BlockAssumption == Block \in Nat \ {0}

AddressSpace == 8 * Block
Addresses == 0..(AddressSpace - 1)
KvazPages == 1..4
TotalMemory == 5 * AddressSpace

control_write(m, w8) ==
  [m EXCEPT !.mode_stack = (w8 \div 16) % 2 = 1,
            !.mode_map   = (w8 \div 32) % 2 = 1,
            !.page_map   = (w8 % 4) + 1,
            !.page_stack = ((w8 \div 4) % 4) + 1]

reset_paging(m) ==
  [m EXCEPT !.mode_stack = FALSE, !.mode_map = FALSE, !.page_map = 0, !.page_stack = 0]

(* The window of the RAM disk is 0xa000 up to, not including, 0xe000.      *)
InWindow(addr) == addr >= 5 * Block /\ addr < 7 * Block

(* A mutant of bigram_select: the stack has its page only outside the       *)
(* window, as if the window came first.                                     *)
WindowFirst(m, addr, stackrq) ==
  IF m.mode_map /\ InWindow(addr) THEN addr + m.page_map * AddressSpace
  ELSE IF m.mode_stack /\ stackrq THEN addr + m.page_stack * AddressSpace
  ELSE addr

bigram_select(m, addr, stackrq) ==
  IF m.mode_stack /\ stackrq THEN addr + m.page_stack * AddressSpace
  ELSE IF m.mode_map /\ InWindow(addr) THEN addr + m.page_map * AddressSpace
  ELSE addr

(* A mutant of tobank: the mask of the halves is left out.                 *)
Unmasked(a) ==
  LET half == 4 * Block IN
  (half * (a \div half)) + (4 * (a % Block)) + ((a \div Block) % 4)

(* The bytes of a 32K half are stored so that the four bit planes of a     *)
(* column of pixels are neighbours: the top two bits of the offset in the  *)
(* half become the bottom two.  The mask 0x78000 keeps sixteen halves:     *)
(* past eight address spaces an address comes round to the first.          *)
tobank(a) ==
  LET half == 4 * Block IN
  (half * ((a \div half) % 16)) + (4 * (a % Block)) + ((a \div Block) % 4)

physical(m, addr, stackrq) == tobank(bigram_select(m, addr % AddressSpace, stackrq))

read(m, addr, stackrq) ==
  LET bigaddr == bigram_select(m, addr % AddressSpace, stackrq) IN
  IF bigaddr < Len(m.boot) THEN m.boot[bigaddr + 1] ELSE m.bytes[tobank(bigaddr)]

write(m, addr, w8, stackrq) == [m EXCEPT !.bytes[physical(m, addr, stackrq)] = w8]

(* Everything from start's page to the end is cleared for an image of the  *)
(* RAM disk; a ROM clears the main memory and leaves the RAM disk alone.   *)
(* No length is checked: what falls past the array is dropped, and a later *)
(* byte that comes round overwrites an earlier one.                        *)
init_from_vector(m, from, start) ==
  LET cleared(phys) == IF start < AddressSpace THEN phys < AddressSpace ELSE phys >= start
      addr == [i \in DOMAIN from |-> tobank(start + i - 1)]
  IN [m EXCEPT !.bytes = [phys \in DOMAIN m.bytes |->
        LET places == {i \in DOMAIN from : addr[i] = phys} IN
        IF places # {} THEN from[CHOOSE i \in places : \A j \in places : j <= i]
        ELSE IF cleared(phys) THEN 0 ELSE m.bytes[phys]]]

attach_boot(m, boot) == [m EXCEPT !.boot = boot]
detach_boot(m) == [m EXCEPT !.boot = <<>>]
=============================================================================
