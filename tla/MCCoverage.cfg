SPECIFICATION Spec
CONSTANTS
  Bitmaps = {"round", "global"}
  Transitions <- MCTransitions
  Size = 4
  MaxHits = 2
  BitXor <- MCBitXor
INVARIANTS
  RemembersWhatItSaw CountNeverTooHigh NothingNewIsMissed
