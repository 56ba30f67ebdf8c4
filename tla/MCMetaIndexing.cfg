SPECIFICATION Spec
CONSTANTS
  Confs <- MCConfs
  Texts <- MCTexts
  Attrs <- MCAttrs
  Handles <- MCHandles
  Calls <- MCCalls
  HandleOf <- MCHandleOf
  Readers <- MCHandles
  Keyholders <- MCHandles
  Requests <- MCIndexing
  InitialObjects <- MCEitherObject
  ServesEtag = TRUE
  Overlapping = FALSE
  Attempts = 2
INVARIANTS
  IndexesHold
PROPERTIES
  SchemaOnlyGrows
  AtomicRegister
