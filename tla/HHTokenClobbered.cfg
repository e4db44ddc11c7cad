SPECIFICATION Spec
CONSTANTS
  Proc = {p1, p2}
  NoProc = NoProc
  Login = {l1}
  NoLogin = NoLogin
  MaxTokens = 3
  MaxFaults = 0
PROPERTIES
  HealSparesUserToken
