CONSTANTS
    Drives = {0, 1}
    Formatted <- MCDisks
    SectorsPerTrack = 2
    SectorSize = 2
    EmptySectorSize = 1
    MaxTrack = 1
    MaxOrders = 4
    GuestBytes = {1, 2}
    NullFclose = {"dies", "returns"}

SPECIFICATION Spec

\* The emulator may end.
CHECK_DEADLOCK FALSE

INVARIANTS
    TypeOK
    EveryByteOnce
    WrittenIsOnFile

PROPERTY
    WritesLandInTheirSector
