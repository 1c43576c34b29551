CONSTANTS
  BLOCK_BUFFER_SIZE = 4
  Lengths = {1, 3}
  NominalSpeeds = {2, 4}
  JunctionSpeeds = {3}
SPECIFICATION Spec
INVARIANTS
  TypeOK
  PlannedInRange
  PlanFeasible
  PlanOptimal
  ProfileMatchesPlan
