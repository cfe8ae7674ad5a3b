\* Two threads and three files of any severity, with and without --fail-fast.
CONSTANTS
  Nothing = Nothing
  Workers = {w1, w2}
  Files = {f1, f2, f3}
SPECIFICATION RunFairSpec
INVARIANTS CleanMeansAllLinted OneReportPerWorker ExitCodeIsTheVerdict
PROPERTY RunTerminates
CHECK_DEADLOCK FALSE
