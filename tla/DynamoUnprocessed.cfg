\* batch_delete returns Ok with items left unprocessed.
CONSTANTS
  p = p
  q = q
  c1 = c1
  c2 = c2
  NoItem = NoItem
  NoCall = NoCall
  NoPk = NoPk
  Clients = {c1}
  Pks = {p, q}
  Keys <- MCKeys
  ChunkSize = 2
  BatchLimit = 2
  PageItems = 3
  Throttled = TRUE
  Tables <- MCTables
  SingleKeys <- MCSingles
  PutBatches <- MCPutBatches
  DeleteBatches <- MCDeleteBatches
  MaxAttempts = 2
  MaxCalls = 1
SPECIFICATION Spec
INVARIANT BatchDeleteDeletes
CHECK_DEADLOCK FALSE
