SPECIFICATION FairRequestSpec
CONSTANTS
  c1 = c1
  c2 = c2
  c3 = c3
  b1 = b1
  main = main
  Commits = {c1, c2, c3}
  CommittedAt <- MCCommittedAt
  Branches = {main}
  ReleaseMajor <- MCReleaseMajor
  Discoveries <- BranchDiscoveries
  LeaseTimeout = 1
  MaxRecoveries = 0
  Attempts = {r1, r2}
  Builds = {b1}
  Origins = {o1}
  SourcePaths <- MCSourcePaths
  Succeeds <- MCSucceeds
  TooLarge = {c1}
  MaxFaults = 1
  MaxAbandoned = 1
  MaxFailures = 1
  Branch = main
  History <- ThreeCommits
INVARIANTS
  RequestTypeOK
  AnswersStayTrue
PROPERTIES
  EveryRequestAnswered
  RequestsPublishCommits
