SPECIFICATION FairSpec
CONSTANTS
  c1 = c1
  c2 = c2
  a = a
  n = n
  d1 = d1
  d2 = d2
  z = z
  u = u
  p = p
  sc1 = sc1
  sc2 = sc2
  Nil = Nil
  Ids = {a, n}
  Minted <- MCMinted
  Docs = {d1, d2, z, u}
  Schemas = {sc1, sc2}
  Start <- MCStart
  Accepts <- MCAccepts
  Typed = {d1, d2, z}
  Malformed = {}
  Objects = {p}
  Sent <- MCSent
  Merged <- MCMerged
  Requests = {1, 2, 3, 4}
  Clients = {c1, c2}
  Client <- MCClient
  Calls <- MCCalls
  RetryOf <- MCRetryOf
  Found <- MCFound
  Configures <- MCConfigures
  MaxTroubles = 1
INVARIANTS
  TypeOK
  TagsIdentify
  ConditionsAreTrue
  RetriesApplyOnce
PROPERTIES
  DeniedChangesNothing
  EveryRequestEnds
