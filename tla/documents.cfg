SPECIFICATION Spec
CONSTANTS
  Entity = {e1, e2}
  Request = {r1, r2}
  INITIAL_BALANCE = 2
  MIN_TRANSFER = 1
  MAX_TRANSFER = 2
  MIN_STAKE = 1
  Amount = {1}
  CopiedKey = {"import_source"}
  AliasedKey = {"import_source"}
  MAX_REWARDS = 1
  MAX_BALANCE = 3
SYMMETRY Interchangeable
INVARIANTS
  TypeOK
  NeverOverdrawn
  
