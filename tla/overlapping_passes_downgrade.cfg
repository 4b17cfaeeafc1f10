SPECIFICATION Spec
CONSTANTS
  FillCount = 1
  Sizes = {1}
  Reconcilers = {worker, operator}
  Schedulers = {worker}
  Anomalies = {"stale"}
  worker = worker
  operator = operator
PROPERTIES
  FilledNeverDowngraded
