SPECIFICATION AdminFairSpec
CHECK_DEADLOCK FALSE
CONSTANTS
  Txn = {t1}
  Session = {s1, s2}
  Price = 2
  Dashboard = FALSE
PROPERTIES
  DisputeGetsDecided
