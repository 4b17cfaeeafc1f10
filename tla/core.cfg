SPECIFICATION Spec
CONSTANTS
  Packages = {b1, b2, s1}
  Buys = {b1, b2}
  Production = {b1}
  Historical = {b2}
  NoPackage = NoPackage
  Workers = {w1}
  Stresses = {"redrive", "veto", "partial"}
  MaxCrashes = 1
  b1 = b1
  b2 = b2
  s1 = s1
  w1 = w1
INVARIANTS
  TypeOK
  OneScopeHolder
  OneProviderCall
  ExposureBound
  ClaimOutcomeIsTrue
  WithdrawnOrderNeverSent
PROPERTIES
  ReleasedIsFinal
  CallMatchesRecord
