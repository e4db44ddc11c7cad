SPECIFICATION Spec
CONSTANTS
  Job = {j1, j2}
  Worker = {w1, w2}
  NoJob = NoJob
  Init1 = Init1
  MaxJobs = 1
  RecyclePids = FALSE
  MaxWorkerDeaths = 0
  MaxRestarts = 1
CHECK_DEADLOCK FALSE
SYMMETRY Symmetry
INVARIANTS
  TypeOK
  CoherenceInv
  LiveRunIsReported
  EndIsTheRunnersEnd
  PidsNameTheirRunner

  
  
  
