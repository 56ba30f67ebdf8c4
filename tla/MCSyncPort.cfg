SPECIFICATION Spec
CONSTANTS
  None = None
  Ids = {"note", "picture"}
  Records = {"meta"}
  Replicas <- MCReplicas
  Readers <- MCReaders
  Delegated = {"phone"}
  Allowed <- MCAllowed
  MapAuthErrors = {"phone"}
  Limit = 1
  MaxPages = 4
  Initial <- MCInitial
  MaxFaults = 1
  MaxOthers = 1
  Casts <- MCCasts
  Pushers <- MCPushers
  Target = "note"
  Script <- MCScript
  Restricted = {"p2"}
  MaxLosses = 1
INVARIANTS EditsKept
PROPERTIES CaughtUpIsCurrent Converges RevokedSurfaces
