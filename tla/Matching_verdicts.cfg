\* No photos: a participant uploads three selfies, the last of which is refused;
\* uploads die half way, jobs are retried, the worker crashes twice.
CONSTANTS
  p1 = p1
  f1 = f1
  f2 = f2
  a1 = a1
  Photo = {p1}
  Face = {f1}
  PhotoOf <- OnePhoto
  Participant = {a1}
  Selfie = {1, 2, 3}
  Owner <- ThreeByOne
  Usable = {1, 2}
  Score <- AllAuto
  Identity = {1, 2, 3, 4, 5, 6}
  NoSelfie = NoSelfie
  NoPhoto = NoPhoto
  Attempts = 2
  MaxStalls = 1
  MaxRuns = 0
  MaxHides = 0
  MaxFaults = 2
  PostCanFail = TRUE
  MarkCanFail = FALSE
SPECIFICATION FairSpec
 
PROPERTY EnrollmentReports
CHECK_DEADLOCK FALSE
