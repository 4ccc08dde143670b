\* Changes while the page loads: snapshot and event stream are not reconciled.
CONSTANTS
  DPIDS <- MCDPIDS
  MaxChanges = 2
  ChangesDuringStartup = TRUE
  UnknownMethods = {}
SPECIFICATION Spec
INVARIANT MirrorsController
CHECK_DEADLOCK FALSE
