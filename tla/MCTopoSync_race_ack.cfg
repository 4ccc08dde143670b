\* Changes while the page loads: a link event for a switch the page does not know yet.
CONSTANTS
  DPIDS <- MCDPIDS
  MaxChanges = 2
  ChangesDuringStartup = TRUE
  UnknownMethods = {}
SPECIFICATION Spec
INVARIANT EveryEventAcknowledged
CHECK_DEADLOCK FALSE
