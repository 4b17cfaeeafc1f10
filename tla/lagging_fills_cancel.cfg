SPECIFICATION Spec
CONSTANTS
  Packages = {b1}
  Buys = {b1}
  Production = {b1}
  Historical = {}
  NoPackage = NoPackage
  Workers = {w1}
  Stresses = {"lag"}
  MaxCrashes = 0
  b1 = b1
  w1 = w1
INVARIANTS
  ClaimOutcomeIsTrue
