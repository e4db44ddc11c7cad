SPECIFICATION Spec
CONSTANTS
  Proc = {p1, p2}
  NoProc = NoProc
  Key = {k1, k2}
  NoKey = NoKey
  MaxFaults = 2
INVARIANTS
  TypeOK
  RevokedStaysRevoked
  CreatedKeysSurvive
  StoreIsNeverTorn
PROPERTIES
  IsARegistry
  CallsEnd
