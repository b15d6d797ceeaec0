SPECIFICATION AgentSpec
CONSTANTS
  Key = {k1, k2, k3}
  Session = {q1}
SYMMETRY Symmetry
INVARIANTS
  SuspendedAgentSurvives
CHECK_DEADLOCK FALSE
