SPECIFICATION Spec
CONSTANTS
  c1 = c1
  c2 = c2
  c3 = c3
  Commits <- MCCommits
  CommittedAt <- MCCommittedAt
  Majors = {0, 1}
  MaxAttempt = 1
INVARIANTS
  TypeOK
  RehydrationFaithful
  LaterAttemptIsNewer
  VersionsUnique
PROPERTY
  LedgerSpec
