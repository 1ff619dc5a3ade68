\* Liveness of one FTP upload and its reprocess with the deployed worker and
\* three attempts, two faults; a photo can always be marked.
CONSTANTS
  Photo = {p1}
  Content = {c1}
  Worker = {w1}
  NoWorker = NoWorker
  NoJob = NoJob
  Attempts = 3
  MaxStalls = 1
  MaxReprocess = 1
  SweepTake = 1
  MaxFaults = 2
  MarkCanFail = FALSE
SPECIFICATION FtpFairSpec
PROPERTIES
  ImplementsAlbum
  EveryRowSettles
  EveryJobEnds
CHECK_DEADLOCK FALSE
