SPECIFICATION Spec
CONSTANTS
  Kids <- MCKids
  Mints <- MCMints
  None = None
  Calls <- MCCalls
  RequestsOf <- MCRenamed
  Stores <- MCStores
  StoreOf <- MCShared
  Zcaps <- MCZcaps
  Confs <- MCConfs
  InitialObjects <- MCObjects
  Hosts <- MCCollection
  ServesEtag = TRUE
  Attempts = 2
  Past = Past
PROPERTIES
  ConfigurationKept
