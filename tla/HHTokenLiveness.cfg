SPECIFICATION FairSpec
CONSTANTS
  Proc = {p1, p2}
  NoProc = NoProc
  Login = {l1}
  NoLogin = NoLogin
  MaxTokens = 2
  MaxFaults = 0
PROPERTIES
  CallsEnd
