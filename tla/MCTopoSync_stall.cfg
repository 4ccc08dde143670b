\* Changes after startup, one of which may be an event of a method rpc lacks.
CONSTANTS
  DPIDS <- MCDPIDS
  MaxChanges = 2
  ChangesDuringStartup = FALSE
  UnknownMethods = {"event_host_add"}
SPECIFICATION FairSpec
PROPERTY Converges
CHECK_DEADLOCK FALSE
