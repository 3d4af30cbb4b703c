SPECIFICATION Spec
CONSTANTS
  Nil = Nil
  Micro = 2
  Day = 8
  Horizon = 23
  Bodies <- MCBodies
  Patches <- MCPatches
  Queries <- MCQueries
  Relations = {"self", "profile", "about"}
  Classes = {"core", "records profile", ""}
INVARIANT OtherFieldsMutable
