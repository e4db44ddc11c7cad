SPECIFICATION Spec
CONSTANTS
  Proc = {p1, p2}
  Runner = {p1, p2}
  NoProc = NoProc
  Session = {s1, s2}
  Dash = {d1, d2}
  NoDash = NoDash
  NoSession = NoSession
  Paper = {q1}
  NoPaper = NoPaper
  Upload = {u1}
  NoUpload = NoUpload
  MaxChats = 2
  MaxFaults = 1
SYMMETRY Symmetry
CHECK_DEADLOCK FALSE
INVARIANTS
  TypeOK
  ListedIsServed
  OwnDashboardIsTheAnswer
  
  ToldUploadsAreReadable
PROPERTIES
  RegisteredSurvive
