SPECIFICATION RegistrySpec
CONSTANTS
  c1 = c1
  c2 = c2
  main = main
  v0 = v0
  v1 = v1
  Commits <- MCCommits
  CommittedAt <- MCCommittedAt
  Branches <- MCBranches
  ReleaseMajor <- MCReleaseMajor
  Discoveries <- ReleaseDiscoveries
  LeaseTimeout = 1
  MaxRecoveries = 1
INVARIANTS
  RegistryTypeOK
  JobsMatchRows
  AuditComplete
PROPERTIES
  PublishedIsFinal
  RegistryLedger
  DefaultStaysAboveReleases
