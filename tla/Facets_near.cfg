SPECIFICATION Spec
CONSTANTS
  r1 = r1
  r2 = r2
  r3 = r3
  Null = Null
  Records = {r1, r2, r3}
  Rows <- NearRows
  Definitions <- NearDefinitions
  Parameters <- NearParameters
  Horizon = 12
  Saturates = FALSE
  Errors <- NearErrors
  Slack = 1
  MaxWrites = 1
SYMMETRY Symmetry
INVARIANTS
  BucketsHoldTheirValues
  CountsAddUp
