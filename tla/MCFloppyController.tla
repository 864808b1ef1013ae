------------------------ MODULE MCFloppyController ------------------------
(***************************************************************************)
(* A disk of three sectors in drive 0 and of one in drive 1, every byte    *)
(* different from every other and from what the program writes.            *)
(***************************************************************************)
EXTENDS FloppyController

MCFormatted == <<10, 11, 12, 13, 14, 15>>
MCDisks == [d \in Drives |-> SubSeq(MCFormatted, 1 + 2 * d, 6 - 2 * d)]
=============================================================================
