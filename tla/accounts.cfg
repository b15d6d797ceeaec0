SPECIFICATION Spec
CONSTANTS
  Token = {t1, t2}
  Request = {r1, r2}
  ACCESS = 1
  REFRESH = 2
  SUSPENSION = 2
SYMMETRY Interchangeable
INVARIANTS
  TypeOK
  RevokedStaysOut
  EndedStaysOut
