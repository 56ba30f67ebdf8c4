SPECIFICATION Spec
CONSTANTS
  Kids <- MCKids
  Mints <- MCMints
  None = None
  Calls <- MCCalls
  RequestsOf <- MCRequests
  Stores <- MCStores
  StoreOf <- MCStoreOf
  Zcaps <- MCZcaps
  Confs <- MCConfs
  InitialObjects <- MCObjects
  Hosts <- MCHosts
  ServesEtag = TRUE
  Attempts = 2
  Past = Past
INVARIANTS
  HistoryReachable
  RemovalsHold
  FirstEpochAdopted
PROPERTIES
  KeysInCustody
