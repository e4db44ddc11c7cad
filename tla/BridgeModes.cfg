SPECIFICATION Spec
CONSTANTS
  DetectWindow = 2
  Credentials = {{"proxy"}, {"direct"}, {"proxy", "direct"}}
  Overrides = {"none", "proxy", "direct"}
  Retries = 2
  MaxBlocks = 0
  MaxNoise = 0
  MaxSwitches = 2
  MaxCrashes = 2
INVARIANTS
  TypeOK
  TransportIsConfigured
  ChosenModeStays
PROPERTIES
  RequestsEnd
