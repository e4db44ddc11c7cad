SPECIFICATION PolledSpec
CONSTANTS
  Job = {j1}
  Worker = {w1, w2}
  NoJob = NoJob
  Init1 = Init1
  MaxJobs = 1
  RecyclePids = FALSE
  MaxWorkerDeaths = 1
  MaxRestarts = 1
CHECK_DEADLOCK FALSE
PROPERTIES
  GonePidIsHealed
