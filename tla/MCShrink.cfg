SPECIFICATION Spec
CONSTANTS
  Original <- SomeActions
  DataLengths = {8, 9, 10, 20}
  Detectors <- ReasonDetectors
INVARIANTS
  StillCrashes ParamsMinimal SweepSuffices
PROPERTIES
  Terminates
CHECK_DEADLOCK FALSE
