\* Nothing fails: a selfie and a photo are handled at the same time.
CONSTANTS
  p1 = p1
  f1 = f1
  f2 = f2
  a1 = a1
  Photo = {p1}
  Face = {f1}
  PhotoOf <- OnePhoto
  Participant = {a1}
  Selfie = {1, 2}
  Owner <- OneOwner
  Usable = {1, 2}
  Score <- AllAuto
  Identity = {1, 2}
  NoSelfie = NoSelfie
  NoPhoto = NoPhoto
  Attempts = 1
  MaxStalls = 1
  MaxRuns = 1
  MaxHides = 0
  MaxFaults = 0
  PostCanFail = FALSE
  MarkCanFail = FALSE
SPECIFICATION Spec
INVARIANT EveryPhotoTheyAppearIn
CHECK_DEADLOCK FALSE
