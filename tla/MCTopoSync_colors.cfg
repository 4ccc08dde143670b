\* Live events: route colours after a link that is not the last one is deleted.
CONSTANTS
  DPIDS <- MCDPIDS
  MaxChanges = 3
  ChangesDuringStartup = FALSE
  UnknownMethods = {}
SPECIFICATION Spec
INVARIANT RouteColorsFaithful
CHECK_DEADLOCK FALSE
