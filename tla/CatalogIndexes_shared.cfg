SPECIFICATION FairSpec
CONSTANTS
  s1 = s1
  s2 = s2
  s3 = s3
  A = A
  B = B
  date = date
  string = string
  asDate = asDate
  asText = asText
  day = day
  word = word
  Nil = Nil
  Catalogs = {A, B}
  Sessions = {s1, s2, s3}
  Docs = {day, word}
  Shapes = {date, string}
  Defs = {asDate, asText}
  Valid <- MCValid
  Casts <- MCCasts
  MayCall <- SharedMayCall
  Budget <- SharedBudget
INVARIANTS
  TypeOK
  BindingsAreDesired
  IndexesAreTheBound
  IndexesCoverRows
  DeadlockNeedsMutex
PROPERTIES
  EveryCallEnds
