\* One game: a second one would never be downloaded at the same time, and a
\* download of one does not touch the files of the other.
CONSTANTS
  Entries = {g1}
  MaxRedirects = 2
  MaxBytes = 2
SPECIFICATION FairSpec
INVARIANTS OneDownload FinishedMeansOwnResult AnnouncedIsOnDisk NothingPartialAtRest
PROPERTIES CancelReturns
\* The program ends.
CHECK_DEADLOCK FALSE
