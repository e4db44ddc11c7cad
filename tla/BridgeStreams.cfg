SPECIFICATION Spec
CONSTANTS
  DetectWindow = 2
  Credentials = {{"proxy"}, {"direct"}}
  Overrides = {"none"}
  Retries = 1
  MaxBlocks = 2
  MaxNoise = 2
  MaxSwitches = 0
  MaxCrashes = 0
INVARIANTS
  CollectedIsMeant
  SameEitherWay
  SynthesizedIsRead
  ProxyErrorIsReported
