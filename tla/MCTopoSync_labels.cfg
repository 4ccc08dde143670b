\* Live events: node labels after a switch that is not the last one leaves.
CONSTANTS
  DPIDS <- MCDPIDS
  MaxChanges = 2
  ChangesDuringStartup = FALSE
  UnknownMethods = {}
SPECIFICATION Spec
INVARIANT NodeLabelsFaithful
CHECK_DEADLOCK FALSE
