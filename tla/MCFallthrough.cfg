SPECIFICATION CacheSpec
CONSTANTS
  b1 = b1
  b2 = b2
  AtSegments = {"@acme", "@std"}
  Scopes = {"@acme", "@std"}
  Configured = {"@acme"}
  Names = {"ui", "fs"}
  VersionNumbers = {"1", "2"}
  MetadataFiles <- MCMetadataFiles
  Readers = {r1, r2}
  Paths <- MCPaths
  Modules <- MCModules
  Contents = {b1, b2}
  Mangled = mangled
  Nothing = nothing
  Slashed <- SecondSlashed
SYMMETRY Clients
INVARIANTS
  CacheTypeOK
  ServedIsGenuine
  ModulesFollowListing
