CONSTANTS
  Width = 3
  Mantissa = 9
  Switches <- MCSwitches
  MaxDrags = 3
  Churn = TRUE
SPECIFICATION Spec
PROPERTY ShowsRequestedSwitch
