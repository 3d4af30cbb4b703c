SPECIFICATION FairSpec
CONSTANTS
  s1 = s1
  s2 = s2
  s3 = s3
  a = a
  b = b
  d1 = d1
  d2 = d2
  d3 = d3
  sc1 = sc1
  sc2 = sc2
  t1 = t1
  t2 = t2
  x1 = x1
  x2 = x2
  Nil = Nil
  Sessions = {s1, s2, s3}
  Ids = {a, b}
  Docs = {d1, d2, d3}
  Schemas = {sc1, sc2}
  Times = {t1, t2}
  ExternalIds = {x1, x2}
  Start <- MCStart
  Accepts <- MCAccepts
  Derived <- MCDerived
  MayCall <- WritersMayCall
  Budget <- WritersBudget
INVARIANTS
  TypeOK
  LocatorMatchesRow
  LinksMatchDocument
  WritesOverWhatItRead
PROPERTIES
  ReplacementCounts
  EveryCallEnds
