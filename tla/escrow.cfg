SPECIFICATION FairSpec
CHECK_DEADLOCK FALSE
CONSTANTS
  Txn = {t1}
  Session = {s1, s2}
  Price = 2
  Dashboard = TRUE
INVARIANTS
  TypeOK
  SettledAtStripe
  AmountRecorded
  ResolutionMatchesStripe
  DisputeWaitsForBuyer
PROPERTIES
  DecidedOnce
  Settles
  MoneyMovedIsNoticed
