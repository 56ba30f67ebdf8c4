SPECIFICATION Spec
CONSTANTS
  None = None
  Kids <- MCKids
  Mints <- MCMints
  Collection = "here"
  Collections = {"here", "there"}
  Resources <- MCResources
  Version = 1
  Malformed = {}
  Corrupt <- MCCorrupt
  Unparsable = {}
  Reader = "me"
  Served <- MCHistory
  Cached = {0, 1}
  Modes <- MCAllModes
  Policies <- MCPolicies
  Calls <- MCCalls
  RequestsOf <- MCRequests
  Schemas <- MCSchemas
  Boot = "boot"
  Flaky = TRUE
  Overlapping = FALSE
INVARIANTS OpensWhereSealed RefreshesAreSound KeepsIndexSchema
PROPERTIES KeepsUp
