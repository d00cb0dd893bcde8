SPECIFICATION FairSpec
CONSTANTS
  Programs <- MCPrograms
  Buffer_size = 10
  Number_of_packets = 15
  MaxRounds = 6
INVARIANTS
  OneForOne
  LettersInOrder
  AtMostOneMissed
  StuckOnlyAtStart
PROPERTIES
  EndsOrGoesOn
CHECK_DEADLOCK FALSE
