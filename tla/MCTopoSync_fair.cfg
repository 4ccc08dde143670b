CONSTANTS
  DPIDS <- MCDPIDS
  MaxChanges = 2
  ChangesDuringStartup = FALSE
  UnknownMethods = {"event_host_add"}
SPECIFICATION FairSpec
PROPERTY ImplementsView 
CHECK_DEADLOCK FALSE
