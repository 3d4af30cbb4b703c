SPECIFICATION FairSpec
CONSTANTS
  old = old
  new = new
  again = again
  None = None
  Runs = {old, new, again}
  Versions <- MCVersions
  Embedded <- MCEmbedded
  Needs <- MCNeeds
INVARIANTS
  TypeOK
  RecordedIsApplied
  AppliedInOrder
  FailuresAreOwn
  DoneMeansApplied
PROPERTIES
  EveryRunEnds
