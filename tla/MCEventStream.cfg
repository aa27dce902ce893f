SPECIFICATION Spec
CONSTANTS
  Hashes = {h1, h2}
  Ports = {layer, table}
  Upload = upload
  Declared = declared
  MaxAttempts = 2
  Budgets <- Worlds
INVARIANTS StreamTypeOK RowHasBlob OutputsAppearTogether ViewIsHistory
PROPERTIES ConfirmedIsGarbage NoTailLost WatcherSettles
CHECK_DEADLOCK FALSE
