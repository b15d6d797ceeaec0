SPECIFICATION TryingSpec
CONSTANTS
  Token = {t1, t2}
  Request = {r1}
  ACCESS = 1
  REFRESH = 2
  SUSPENSION = 2
PROPERTIES
  SuspensionEnds
