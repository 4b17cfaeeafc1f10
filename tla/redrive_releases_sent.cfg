SPECIFICATION Spec
CONSTANTS
  Packages = {b1, b2}
  Buys = {b1, b2}
  Production = {b1}
  Historical = {}
  NoPackage = NoPackage
  Workers = {w1}
  Stresses = {"redrive"}
  MaxCrashes = 0
  b1 = b1
  b2 = b2
  w1 = w1
INVARIANTS
  ReleasedMeansUncalledOrResolved
