SPECIFICATION Spec
CONSTANTS
  FillCount = 2
  Sizes = {0, 1, 2}
  Reconcilers = {worker, operator}
  Schedulers = {worker}
  Anomalies = {"stale", "identity", "partial"}
  worker = worker
  operator = operator
INVARIANTS
  BookedOnce
  FilledIsAccounted
  GuardClosedWhileUndecided
