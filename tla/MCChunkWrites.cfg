SPECIFICATION Spec
CONSTANTS
  Calls <- MCCalls
  RequestsOf <- MCMixed
  Readers <- MCCalls
  MaxChunks = 2
  ReapConcurrency = 2
  ServesEtag = TRUE
  ListsEtags = TRUE
  None = None
  Past = Past
INVARIANTS
  WholeDocument
  UndisturbedRead
PROPERTIES
  NoLostUpdate
  CleanUpSparesOthers
  OutcomeMatchesStore
  ReplacedChunksReaped
