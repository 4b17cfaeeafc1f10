SPECIFICATION FairSpec
CHECK_DEADLOCK FALSE
CONSTANTS
  Units = 2
  OtherSales = 1
  MaxEvaluations = 3
INVARIANTS
  TypeOK
  SoldOnce
  SellIsSupervised
  ClosedIsSold
  CustodyFollowsBooks
PROPERTIES
  FilledExitReleasesScope
