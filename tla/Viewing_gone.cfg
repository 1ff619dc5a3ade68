\* One photo and two requests: an event is deleted, then somebody looks.
CONSTANTS
  Photo = {p1}
  Visitor = Visitor
  Manager = Manager
  Request = {r1, r2}
  NoPhoto = NoPhoto
  MaxMatches = 1
SPECIFICATION Spec
SYMMETRY Symmetry
INVARIANT DeletedGivesNothing
CHECK_DEADLOCK FALSE
