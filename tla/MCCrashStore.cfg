SPECIFICATION Spec
CONSTANTS
  Campaigns = {1, 2}
  Texts <- MCTexts
  Types = {"executionerror"}
  Lower <- MCLower
  Absent = Absent
  Empty = Empty
  Garbled = Garbled
  MaxRound = 2
  MaxRestarts = 1
  MaxCrashes = 4
INVARIANTS
  AckedStands
PROPERTIES
  SavesAreAtomic
CHECK_DEADLOCK FALSE
