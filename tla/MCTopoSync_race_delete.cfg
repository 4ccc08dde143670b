\* Changes while the page loads: a delete event for something the page never saw.
CONSTANTS
  DPIDS <- MCDPIDS
  MaxChanges = 2
  ChangesDuringStartup = TRUE
  UnknownMethods = {}
SPECIFICATION Spec
PROPERTY RemovesOnlyNamed
CHECK_DEADLOCK FALSE
