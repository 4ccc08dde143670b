CONSTANTS
  Width = 3
  Mantissa = 12
  Switches <- MCSwitches
  MaxDrags = 3
  Churn = FALSE
SPECIFICATION Spec
INVARIANT TableMatchesLastDrag
CHECK_DEADLOCK FALSE
