SPECIFICATION ObjectSpec
CONSTANTS
  c1 = c1
  c2 = c2
  b1 = b1
  b2 = b2
  main = main
  Commits = {c1}
  CommittedAt <- MCCommittedAt
  Branches = {main}
  ReleaseMajor <- MCReleaseMajor
  Discoveries <- MCDiscoveries
  LeaseTimeout = 2
  MaxRecoveries = 0
  Attempts = {a1, a2, a3}
  Builds = {b1}
  Origins = {o1}
  SourcePaths <- MCSourcePaths
  Succeeds <- MCSucceeds
  TooLarge = {}
  MaxFaults = 1
  MaxAbandoned = 1
  MaxFailures = 2
INVARIANT OneContainerPerLease
