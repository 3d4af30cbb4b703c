SPECIFICATION Spec
CONSTANTS
  lt = lt
  lp = lp
  first = first
  second = second
  third = third
  Nil = Nil
  Runs = {first, second, third}
  Options <- MCOptions
  Catalogs = {lt, lp}
  Transactional = lt
  Temporal = lp
  MaximumCount = 3
INVARIANTS
  LoadsDoNotMix
  SuccessIsComplete
