SPECIFICATION ObjectSpec
CONSTANTS
  c1 = c1
  c2 = c2
  b1 = b1
  b2 = b2
  main = main
  Commits = {c1, c2}
  CommittedAt <- MCCommittedAt
  Branches = {main}
  ReleaseMajor <- MCReleaseMajor
  Discoveries <- MCDiscoveries
  LeaseTimeout = 1
  MaxRecoveries = 1
  Attempts = {a1, a2}
  Builds = {b1, b2}
  Origins = {o1}
  SourcePaths <- MCSourcePaths
  Succeeds <- MCSucceeds
  TooLarge = {c2}
  MaxFaults = 1
  MaxAbandoned = 1
  MaxFailures = 2
SYMMETRY Handlers
INVARIANTS
  ObjectTypeOK
  AdvertisedIsStored
  MarkedAgreesWithRegistry
  LeasesAreHeld
PROPERTIES
  PublishedIsFinal
  ObjectPublishes
