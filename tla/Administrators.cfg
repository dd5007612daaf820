SPECIFICATION Spec
CONSTANTS
  Agents = {a1, a2, a3}
  MaxOps = 7
SYMMETRY AgentSymmetry
CONSTRAINT NoOverlap
INVARIANTS
  TypeOK
  ListMatchesAgents
  AdministratorRemains
CHECK_DEADLOCK FALSE
