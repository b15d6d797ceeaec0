SPECIFICATION Spec
CONSTANTS
  Entity = {ann, bob, cy}
  Request = {r1, r2}
  Founder = ann
SYMMETRY Interchangeable
INVARIANTS
  TypeOK
  
  
  OwnerIsCreator
