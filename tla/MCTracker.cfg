SPECIFICATION FairSpec
CONSTANTS
  SLEEP_TIMEOUT = 3
  SLEEP_DELAY = 2
  SLEEP_WAKEUP = 3
  Postpone = 1
  StartMode = {"KEY", "SHOCK"}
INVARIANTS
  GpsOnWhileTracking
  TracksClosed
PROPERTIES
  GpsSleeps
  StopEndsTrack
