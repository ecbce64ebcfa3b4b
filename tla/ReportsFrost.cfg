\* Is current data always reported?
SPECIFICATION Spec
CONSTANTS
  None = None
  INTERVAL = 1
  CYCLE = 2
  MAXAGE = 1
  TIMEOUT = 1
  MAXMISSED = 1
  MayFail = {"pressure", "dust"}
  MaySilence = {"pressure", "dust"}
  MayRestart = TRUE
  Climates = {"warm", "frost"}
PROPERTIES
  CurrentClimatePosted
