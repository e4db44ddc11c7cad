SPECIFICATION Spec
CONSTANTS
  Job = {j1}
  Worker = {w1, w2}
  NoJob = NoJob
  Init1 = Init1
  MaxJobs = 1
  RecyclePids = FALSE
  MaxWorkerDeaths = 0
  MaxRestarts = 0
CHECK_DEADLOCK FALSE
INVARIANTS
  AbortedRunFails
