---- MODULE MCKvazAccess ----
(* Eight addresses to a page, so that every boundary of the window and of  *)
(* the halves is an address of its own.  The modes are none, the stack     *)
(* alone, the window alone, and both at once on different pages; the short *)
(* file runs on from the main memory into the RAM disk, the long one round *)
(* all eight address spaces and over its own first bytes.                  *)
EXTENDS KvazAccess
MCBytes == 0..1
MCControls == {0, 28, 32, 16 + 32 + 4 + 2}
ShortImage == <<1, 1>>
LongImage == [i \in 1..67 |-> IF i % 3 = 0 THEN 1 ELSE 0]
MCImages == {LongImage}
MCRoms == {ShortImage}
MCBoots == {ShortImage}
MCOrgs == {7}
====
