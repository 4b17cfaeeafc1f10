SPECIFICATION FairSpec
CONSTANTS
  Packages = {b1, s1}
  Buys = {b1}
  Production = {b1}
  Historical = {}
  NoPackage = NoPackage
  Workers = {w1}
  Stresses = {"lag", "partial"}
  MaxCrashes = 1
  b1 = b1
  s1 = s1
  w1 = w1
INVARIANTS
  ReleasedMeansUncalledOrResolved
  PendingMeansSubmitted
PROPERTIES
  ResolvedOrderReleasesScope
  FilledBuyReachesCustody
  StartedClaimsMoveOn
