CONSTANTS
  Syncs = {beat, rest}
  BeatSyncs = {beat}
  SyncLimit = 2
  MaxMail = 3
  MaxCrashes = 0
  AlwaysClassify = FALSE
CHECK_DEADLOCK FALSE
SPECIFICATION MCSpec
PROPERTIES EveryMailStored StopEnds StaleRowReleased SaturationClears
