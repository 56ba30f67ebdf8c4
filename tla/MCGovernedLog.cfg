SPECIFICATION Spec
CONSTANTS
  None = None
  Calls <- MCCalls
  Kinds <- MCKinds
  Stores <- MCStores
  StoreOf <- MCStoreOf
  Starts <- MCStarts
  MaxTries = 1
  MaxViews = 2
  Lagging = TRUE
  Losses = 1
  Strangers = TRUE
  Sharing = FALSE
INVARIANTS NoUpdateLost NoFalseAlarm
PROPERTIES ExtendsTheLog ForeignUntouched
