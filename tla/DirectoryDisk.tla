--------------------------- MODULE DirectoryDisk ---------------------------
(***************************************************************************)
(* A host directory mounted as a floppy disk (FilesystemImage): each of    *)
(* its files is saved into a blank image the way MicroDOS stores files, as *)
(* extents in a directory that name the clusters of their data.            *)
(*                                                                         *)
(* Files are counted in records of 128 bytes; a record is its file and its *)
(* number.  A name stands for a stem and an extension in upper case, cut   *)
(* to eight and three characters: the cut may leave blanks at their ends,  *)
(* which taken_names sees and the disk, padded with blanks, does not.      *)
(***************************************************************************)
EXTENDS Integers, Sequences, SequencesExt, FiniteSetsExt

CONSTANTS
  Entries,    \* entries of the directory: 128
  FatSlots,   \* clusters an entry names: 8
  Records,    \* records in a cluster: 16
  Clusters,   \* clusters of the image: 390
  Names,      \* names of host files, cut to what the disk can hold
  Bare,       \* those of them that have no extension
  Lengths,    \* their lengths
  Heap,       \* what 16 bits of the memory behind a chain may hold
  MaxFiles,   \* bound: the files of the host directory
  Numbered(_, _), \* the name that is tried with a number: STEM.EXT, STEM@1.EXT
  OnDisk(_)       \* what name() and ext() read of a name: no blanks at the end

ASSUME DirectoryAssumption ==
  /\ {Entries, FatSlots, Records} \subseteq Nat \ {0} /\ Clusters \in Nat /\ Clusters > 2
  /\ Bare \subseteq Names /\ Lengths \subseteq Nat \ {0} /\ MaxFiles \in Nat
  /\ Heap \subseteq Nat /\ Heap # {}
  /\ \A host \in Names, m, n \in 1..(MaxFiles + 1) :
       Numbered(host, m) = Numbered(host, n) => m = n

VARIABLES
  dir,     \* the directory
  data,    \* the records of each cluster
  taken,   \* taken_names
  saved,   \* the saves that returned ok, and whether all of the file was placed
  short,   \* how many clusters the last file lacked when it was placed
  thrown   \* the exception that ends the mount, and the program with it

mountVars == <<dir, data, taken, saved, short, thrown>>

Directory == 2   \* clusters 0 and 1 hold the directory
Full == FatSlots * Records
Free == [name |-> <<>>, extent |-> 0, records |-> 0, fat |-> <<>>]
Blank == [r \in 1..Records |-> <<0, 0>>]

UsedEntries == {e \in 1..Entries : dir[e] # Free}
UsedSlots == FatSlots * Cardinality(UsedEntries)
UsedClusters == {dir[e].fat[i] : e \in UsedEntries, i \in 1..FatSlots}

(* The members of a set of numbers in the order a loop meets them.         *)
Ascending(S) == [k \in 1..Cardinality(S) |-> CHOOSE x \in S : Cardinality({y \in S : y < x}) = k - 1]
Index(x, seq) == CHOOSE k \in DOMAIN seq : seq[k] = x

CeilDiv(a, b) == (a + b - 1) \div b

(* The check counts eight slots for each entry, the empty ones too, against *)
(* all clusters, in unsigned arithmetic; the chain itself is what is free.  *)
(* A mutant of Refused: the directory's clusters are counted a second time  *)
(* as free ones.                                                            *)
RefusedLate(length) == UsedSlots <= Clusters /\ Clusters + Directory - UsedSlots < length
Refused(length) == UsedSlots <= Clusters /\ Clusters - UsedSlots < length

(* A mutant of build_available_chain: it starts at the directory.           *)
FromTheFirst(length) ==
  LET free == Ascending((0..(Clusters - 1)) \ UsedClusters)
  IN IF Refused(length) THEN <<>> ELSE SubSeq(free, 1, Min({length, Len(free)}))
build_available_chain(length) ==
  LET free == Ascending((Directory..(Clusters - 1)) \ UsedClusters)
  IN IF Refused(length) THEN <<>> ELSE SubSeq(free, 1, Min({length, Len(free)}))

(* A mutant of unique_cpm_filename: a cut name is taken as it is.           *)
CutName(host) == host
unique_cpm_filename(host) ==
  IF host \notin taken THEN host
  ELSE Numbered(host, Min({n \in 1..(MaxFiles + 1) : Numbered(host, n) \notin taken}))

(* What entry number j of a file names.  An index past the end of the chain *)
(* reads whatever lies there.                                               *)
Extent(name, length, j, chain, garbage) ==
  [name |-> name, extent |-> j,
   records |-> Min({Full, length - (j * Full)}),
   fat |-> [i \in 1..FatSlots |->
             LET x == (j * FatSlots) + i IN
             IF x > CeilDiv(length, Records) THEN 0
             ELSE IF x <= Len(chain) THEN chain[x] ELSE garbage[x]]]

allocate_file(name, length, chain, garbage) ==
  LET free == Ascending((1..Entries) \ UsedEntries)
      placed == SubSeq(free, 1, Min({CeilDiv(length, Full), Len(free)}))
  IN [e \in 1..Entries |->
       IF Contains(placed, e)
       THEN Extent(OnDisk(name), length, Index(e, placed) - 1, chain, garbage)
       ELSE dir[e]]

Content(id, length) == [r \in 1..length |-> <<id, r>>]

(* The records of piece x of a file, the last one filled up.               *)
Piece(id, length, x) ==
  [r \in 1..Records |-> LET n == ((x - 1) * Records) + r
                        IN IF n <= length THEN <<id, n>> ELSE <<0, 0>>]

write_data(id, length, chain) ==
  [c \in 0..(Clusters - 1) |->
     IF Contains(chain, c) THEN Piece(id, length, Index(c, chain)) ELSE data[c]]

(* save_file() of a host file that has an extension.  After an index past  *)
(* the chain nothing more is saved here: the directory then holds what lay *)
(* on the heap.                                                            *)
save_file(host, length) ==
  LET size == CeilDiv(length, Records)
      chain == build_available_chain(size)
      name == unique_cpm_filename(host)
      id == Cardinality(saved) + 1
      extents == CeilDiv(length, Full)
  IN /\ chain # <<>> /\ host \notin Bare
     /\ \E garbage \in [(Len(chain) + 1)..size -> Heap] :
          dir' = allocate_file(name, length, chain, garbage)
     /\ data' = write_data(id, length, chain)
     /\ taken' = taken \union {name}
     /\ short' = size - Len(chain)
     /\ saved' = saved \union {[id |-> id, name |-> name, length |-> length,
          whole |-> Len(chain) = size /\ extents <= Entries - Cardinality(UsedEntries)]}
     /\ thrown' = thrown

MountInit ==
  /\ dir = [e \in 1..Entries |-> Free]
  /\ data = [c \in 0..(Clusters - 1) |-> Blank]
  /\ taken = {} /\ saved = {} /\ short = 0 /\ thrown = FALSE

MountFile ==
  /\ ~thrown /\ short = 0 /\ Cardinality(saved) < MaxFiles
  /\ \E host \in Names, length \in Lengths : save_file(host, length)

(* The name of a file without an extension is cut behind its end; a file   *)
(* that does not fit has been refused before that.                         *)
NameThrows ==
  /\ ~thrown /\ short = 0 /\ Bare # {}
  /\ \E length \in Lengths : build_available_chain(CeilDiv(length, Records)) # <<>>
  /\ thrown' = TRUE
  /\ UNCHANGED <<dir, data, taken, saved, short>>

MountNext == MountFile \/ NameThrows

MountSpec == MountInit /\ [][MountNext]_mountVars

-----------------------------------------------------------------------------
(* load_dirent() and read_bytes().                                         *)
EntriesOf(name) == Ascending({e \in UsedEntries : dir[e].name = OnDisk(name)})

(* The extents are read up to the first that is not full; only that one    *)
(* sets the size.                                                          *)
LastOf(entries) ==
  LET partial == {k \in DOMAIN entries : dir[entries[k]].records # Full}
  IN IF partial = {} THEN 0 ELSE Min(partial)

(* Every extent adds FatSlots clusters to the chain of the file.            *)
ClusterAt(entries, x) ==
  dir[entries[((x - 1) \div FatSlots) + 1]].fat[((x - 1) % FatSlots) + 1]

RecordAt(entries, r) ==
  data[ClusterAt(entries, CeilDiv(r, Records))][((r - 1) % Records) + 1]

read_file(name) ==
  LET entries == EntriesOf(name)
      last == LastOf(entries)
      size == (dir[entries[last]].extent * Full) + dir[entries[last]].records
  IN IF last = 0 THEN <<>> ELSE [r \in 1..size |-> RecordAt(entries, r)]

(* The entries name clusters of the disk, as long as no chain was too      *)
(* short, and no entry is numbered beyond its file.                        *)
MountTypeOK ==
  /\ DOMAIN dir = 1..Entries
  /\ \A e \in UsedEntries :
       /\ dir[e].extent \in 0..(Entries - 1) /\ dir[e].records \in 1..Full
       /\ dir[e].fat \in [1..FatSlots -> (0..(Clusters - 1)) \union Heap]
       /\ short = 0 => dir[e].fat \in [1..FatSlots -> 0..(Clusters - 1)]
  /\ DOMAIN data = 0..(Clusters - 1)
  /\ short \in Nat /\ thrown \in BOOLEAN

(* No cluster belongs to two files or twice to one, and none is the        *)
(* directory's, as long as no chain was too short.                         *)
ClustersDisjoint ==
  short = 0 =>
    \A e, f \in UsedEntries, i, j \in 1..FatSlots :
      /\ dir[e].fat[i] = dir[f].fat[j] /\ dir[e].fat[i] # 0 => e = f /\ i = j
      /\ dir[e].fat[i] # 0 => dir[e].fat[i] >= Directory

(* Two names that differ only in the blanks at their ends are one name on  *)
(* the disk: of the files that have them only the first is found.          *)
Blurred(s) ==
  \E t \in saved : t.id < s.id /\ t.name # s.name /\ OnDisk(t.name) = OnDisk(s.name)

(* A file that found its clusters and its entries reads back as it was     *)
(* saved, under the name it was given, whatever was saved after it, unless *)
(* its last extent is full, so that nothing ends it, or an earlier file    *)
(* hides it.                                                               *)
ReadBack ==
  \A s \in saved :
    s.whole /\ ~Blurred(s) /\ s.length % Full # 0
      => read_file(s.name) = Content(s.id, s.length)

(* While the slots of the directory are not more than the clusters, a file *)
(* that is let in lacks no more than the clusters of the directory, which  *)
(* the check forgets.                                                      *)
ShortByTwo == [][short' > Directory => UsedSlots > Clusters]_mountVars
=============================================================================
