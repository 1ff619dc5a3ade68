\* One upload with the deployed three attempts, no reprocess; every failure can
\* be marked.
CONSTANTS
  Photo = {p1}
  Content = {c1}
  Worker = {w1}
  NoWorker = NoWorker
  NoJob = NoJob
  Attempts = 3
  MaxStalls = 1
  MaxReprocess = 0
  SweepTake = 1
  MaxFaults = 1
  MarkCanFail = FALSE
SPECIFICATION FtpFairSpec
PROPERTY RetriesAreSafe
CHECK_DEADLOCK FALSE
