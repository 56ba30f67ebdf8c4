SPECIFICATION Spec
CONSTANTS
  Confs <- MCConfs
  Texts <- MCTexts
  Attrs <- MCAttrs
  Handles <- MCHandles
  Calls <- MCCalls
  HandleOf <- MCHandleOf
  Readers <- MCOneClient
  Keyholders <- MCOneClient
  Requests <- MCBaselines
  InitialObjects <- MCPlainObject
  ServesEtag = TRUE
  Overlapping = TRUE
  Attempts = 2
INVARIANTS
  TypeOK
  CodecNotOlderThanConfiguration
  AppliedOnce
PROPERTIES
  NoLostUpdate
