SPECIFICATION ServingSpec
CONSTANTS
  c1 = c1
  b1 = b1
  b2 = b2
  o1 = o1
  o2 = o2
  Attempts = {a1, a2}
  KeyPrefixes = {p1}
  Outcomes <- MCOutcomes
  Uploads <- MCUploads
  MarkerPath <- MCMarkerPath
  Readers = {r1}
  Asked <- MCAsked
  Encoded <- MCEncoded
INVARIANTS
  StoreTypeOK
  MarkerComplete
  SuccessMeansStored
  CopiesStayTrue
  ListedIsServed
PROPERTY
  WrittenOnce
