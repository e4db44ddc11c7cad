SPECIFICATION Spec
CHECK_DEADLOCK FALSE
CONSTANTS
  Proc = {p1, p2}
  Db = {companies}
  d1 = d1
  d2 = d2
  Doc = {d1, d2}
  NoDoc = NoDoc
  Batches <- MCBatches
  MaxPolls = 1
  MaxAsks = 2
  MaxFaults = 2
INVARIANTS
  TypeOK
  ToldIsProcessed
  NoDoubleIngest
PROPERTIES
  CallsEnd
