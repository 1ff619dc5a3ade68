\* Two tabs of one browser, two anonymous users and an account, two selfies with
\* two answers on their way, one fault or switch of the session.
CONSTANTS
  Page = {r1}
  NoOrg = NoOrg
  Plain = Plain
  Tab = {t1, t2}
  MaxGuests = 2
  Account = Account
  Nobody = Nobody
  NoAnswer = NoAnswer
  MaxSelfies = 2
  MaxAnswers = 2
  MaxMishaps = 1
SPECIFICATION FairSpec
INVARIANTS
  TypeOK
  ConsentWithParticipation
  OnePersonPerBrowser
PROPERTIES
  JoiningAgainWorks
  NobodyWaitsForEver
CHECK_DEADLOCK FALSE
