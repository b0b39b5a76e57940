\* Two clients, one call each, retries and unprocessed items.
CONSTANTS
  p = p
  q = q
  c1 = c1
  c2 = c2
  NoItem = NoItem
  NoCall = NoCall
  NoPk = NoPk
  Clients = {c1, c2}
  Pks = {p, q}
  Keys <- MCKeysP
  ChunkSize = 2
  BatchLimit = 2
  PageItems = 3
  Throttled = TRUE
  Tables <- MCTablesP
  SingleKeys <- MCSingles
  PutBatches <- MCPutsP
  DeleteBatches <- MCDeletesP
  MaxAttempts = 2
  MaxCalls = 1
SPECIFICATION Spec
INVARIANTS
  TypeOK
  ConfirmedDeleted
  OnlySentDeleted
  PutSticks
PROPERTY CallReturns
CHECK_DEADLOCK FALSE
