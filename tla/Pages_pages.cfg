\* Three photos in pages of one, two polls on their way, two changes and clicks,
\* one fetch that fails.
CONSTANTS
  MaxPhoto = 3
  PageSize = 1
  NoAnswer = NoAnswer
  MaxAnswers = 2
  MaxChanges = 2
  MaxLost = 1
SPECIFICATION Spec
INVARIANTS
  TypeOK
  ArchiveInOrder
  ThatsEverything
  HiddenMeansHidden
  CountsAreTrue
PROPERTY PagesCatchUp
CHECK_DEADLOCK FALSE
