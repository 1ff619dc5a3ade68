\* Two cameras, two credentials, four calls of the dashboard, a file.
CONSTANTS
  owner = owner
  hired = hired
  guest = guest
  Cred = {c1, c2}
  Connection = {k1, k2}
  Request = {r1, r2, r3, r4}
  Upload = {u1}
  User = {owner, hired, guest}
  RoleOf <- Team
  NoCred = NoCred
  NoOp = NoOp
  MaxPassword = 3
SPECIFICATION Spec
SYMMETRY Symmetry
INVARIANTS
  TypeOK
  NoEntryBehindAShutDoor
  DeletionRevokesLogins
PROPERTY SealedForGood
CHECK_DEADLOCK FALSE
