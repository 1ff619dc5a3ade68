\* Two uploads (any mix of FTP and browser, same or different content), two
\* workers, one attempt, one fault.
CONSTANTS
  Photo = {p1, p2}
  Content = {c1, c2}
  Worker = {w1, w2}
  NoWorker = NoWorker
  NoJob = NoJob
  Attempts = 1
  MaxStalls = 1
  MaxReprocess = 0
  SweepTake = 2
  MaxFaults = 1
  MarkCanFail = TRUE
SPECIFICATION Spec
SYMMETRY Symmetry
INVARIANTS
  TypeOK
  SafeBeforeQueued
  ProcessedIsGalleryReady
  OneRowPerContent
  DuplicatesAreCovered
  CompletedHasVerdict
PROPERTY ImplementsAlbum
CHECK_DEADLOCK FALSE
