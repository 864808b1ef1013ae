SPECIFICATION MountSpec
CONSTANTS
  Entries = 6
  FatSlots = 2
  Records = 2
  Clusters = 9
  Names <- MCNames
  Bare <- MCBare
  Lengths <- MCLengths
  Heap <- MCHeap
  MaxFiles = 6
  Numbered <- MCNumbered
  OnDisk <- MCOnDisk
INVARIANTS ClustersDisjoint ReadBack
PROPERTY ShortByTwo
CHECK_DEADLOCK FALSE
