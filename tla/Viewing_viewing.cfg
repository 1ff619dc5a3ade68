\* One photo, three requests, two changes of its match.
CONSTANTS
  Photo = {p1}
  Visitor = Visitor
  Manager = Manager
  Request = {r1, r2, r3}
  NoPhoto = NoPhoto
  MaxMatches = 2
SPECIFICATION Spec
SYMMETRY Symmetry
INVARIANTS
  TypeOK
  EveryOriginalIsLogged
  HiddenFromEveryone
  OnlyByMatch
  AuditExplained
CHECK_DEADLOCK FALSE
