CONSTANTS
  MaxGroups = 2
  MaxEntries = 2
  MaxRepeat = 2
  Patterns <- BoundedPatterns
SPECIFICATION Spec
INVARIANTS
  PositionFits
  LabelsAgree
  GroupBarsAgree
PROPERTY ImplementsCursor
CHECK_DEADLOCK FALSE
