SPECIFICATION FairSpec
CONSTANTS
  Sub = {s1, s2}
  Request = {r1}
  Worker = worker
  EventType = {e1}
  THRESHOLD = 2
  MAX_RETRIES = 2
  MAX_ACTIVE = 2
  MAX_PUBLISHED = 2
  MAX_FAILED = 1
INVARIANTS
  TypeOK
  CounterBacked
PROPERTIES
  DropNeedsFailures
  OffStaysOff
  EventsAreWorkedOff
