SPECIFICATION AgentSpec
CONSTANTS
  Key = {k1, k2, k3}
  Session = {q1}
SYMMETRY Symmetry
INVARIANTS
  AgentTypeOK
  
  
CHECK_DEADLOCK FALSE
