\* delete_by_pk deletes the first page of its partition only.
CONSTANTS
  p = p
  q = q
  c1 = c1
  c2 = c2
  NoItem = NoItem
  NoCall = NoCall
  NoPk = NoPk
  Clients = {c1}
  Pks = {p, q}
  Keys <- MCKeys
  ChunkSize = 2
  BatchLimit = 2
  PageItems = 2
  Throttled = FALSE
  Tables <- MCTables
  SingleKeys <- MCSingles
  PutBatches <- MCPutBatches
  DeleteBatches <- MCDeleteBatches
  MaxAttempts = 2
  MaxCalls = 1
SPECIFICATION Spec
INVARIANT DeleteByPkDeletesAll
CHECK_DEADLOCK FALSE
