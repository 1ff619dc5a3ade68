\* Three requests to set up; two logins, two polls and two calls on their way,
\* three clicks and changes by others, one fetch that fails, a log of two entries.
CONSTANTS
  Page = {r1, r2, r3}
  NoOrg = NoOrg
  Plain = Plain
  Login = {c1, c2}
  NoLogin = NoLogin
  NoAnswer = NoAnswer
  Limit = 2
  MaxAnswers = 2
  MaxEdits = 3
  MaxLost = 1
SPECIFICATION Spec
INVARIANTS
  TypeOK
  OneStudioOneCode
  ShownPasswordWorks
PROPERTY PanelsCatchUp
CHECK_DEADLOCK FALSE
