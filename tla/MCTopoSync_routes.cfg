\* Live events: links on the primary and the secondary route.
CONSTANTS
  DPIDS <- MCDPIDS
  MaxChanges = 3
  ChangesDuringStartup = FALSE
  UnknownMethods = {}
SPECIFICATION Spec
INVARIANT RouteColorsAsSpecified
CHECK_DEADLOCK FALSE
