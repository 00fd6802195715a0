SPECIFICATION ToolSpec
\* The program ends.
CHECK_DEADLOCK FALSE
CONSTANTS
  CHUNK_SIZE = 2
  MIN_FW_SIZE = 4
  MAX_FW_SIZE = 6
  FW_TABLE_SIG <- MCTable
  FW_TABLE_OFFSET = 1
  FW_VECTORS <- MCVectors
  Binary <- MCBinary
  Device = {1, 2, 3}
  Payload <- MCPayload
  MaxBlocks = 6
  UpdateId = {1, 2, 3}
  MaxRows = 4
  MAX_DIALOGS = 2
  Attempts <- MCAttempts
INVARIANTS
  ImageIsPlausible
