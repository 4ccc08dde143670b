\* Changes only after the page has loaded: the live event stream alone.
CONSTANTS
  DPIDS <- MCDPIDS
  MaxChanges = 3
  ChangesDuringStartup = FALSE
  UnknownMethods = {}
SPECIFICATION Spec
INVARIANT TypeOK
INVARIANT MirrorsController
INVARIANT LinkEndsLive
INVARIANT EveryEventAcknowledged
INVARIANT PortsOnOwnLinks
PROPERTY RemovesOnlyNamed
\* The page idles once every event is handled and the controller is done.
CHECK_DEADLOCK FALSE
