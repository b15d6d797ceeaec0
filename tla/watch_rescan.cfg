SPECIFICATION FairWatchSpec
CONSTANTS
  Worker = {w1, w2}
  LOCK_TTL = 2
  LOCK_REFRESH = 1
  Faults = {"redis", "stall"}
  Watch = {a1}
  Version <- Versions
  NoDigest = "none"
  DROP = 5
  ALERTS = 2
INVARIANTS
  WatchTypeOK
  OneRescan
  OneAlertPerChange
  OneWorkerUnlessDisturbed
  LeaderKeepsLock
PROPERTIES
  OrphanedLockExpires
