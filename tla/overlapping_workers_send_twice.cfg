SPECIFICATION Spec
CONSTANTS
  Packages = {b1}
  Buys = {b1}
  Production = {b1}
  Historical = {}
  NoPackage = NoPackage
  Workers = {w1, w2}
  Stresses = {"redrive"}
  MaxCrashes = 0
  b1 = b1
  w1 = w1
  w2 = w2
INVARIANTS
  OneProviderCall
