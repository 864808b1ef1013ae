---- MODULE MCDirectoryDisk ----
(* A name is a stem, the blanks at its end and its number.  Two stems meet *)
(* often enough, one of them with and without a blank at its end; the      *)
(* lengths are those around a cluster and an extent, one of three extents, *)
(* and that of an image of the disk, which an earlier mount leaves in the  *)
(* directory.  A word of the heap names no cluster of the disk.            *)
EXTENDS DirectoryDisk
MCNames == {<<"game", 0, 0>>, <<"game", 1, 0>>, <<"demo", 0, 0>>, <<"readme", 0, 0>>}
MCBare == {<<"readme", 0, 0>>}
MCLengths == {1, 3, 4, 5, 9, 22}
MCHeap == {65535}
MCNumbered(host, n) == <<host[1], 0, n>>
MCOnDisk(name) == <<name[1], 0, name[3]>>
====
