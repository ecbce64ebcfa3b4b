\* Plugging, suspending, resets and requests in any order.
SPECIFICATION Spec
CONSTANTS
  None = None
  Requests = {"address", "configure", "unconfigure", "write", "store", "read", "query", "unknown"}
  MAXNEST = 2
INVARIANTS
  ConfiguredHasPower
  EndpointsReady
PROPERTIES
  MainRuns
