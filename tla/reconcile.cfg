SPECIFICATION FairSpec
CONSTANTS
  FillCount = 2
  Sizes = {3}
  Reconcilers = {worker}
  Schedulers = {worker}
  Anomalies = {"missing", "unknown", "conflict", "stale", "partial", "lost", "unproven", "uncorrelated"}
  worker = worker
INVARIANTS
  TypeOK
PROPERTIES
  FilledNeverDowngraded
  VerdictIsTrue
  DecidedOrderIsReleased
  ExecutedOrderIsCleared
