CONSTANTS
  s1 = s1  s2 = s2
  Bundles <- FourBundles
  Provider = "aws"
  Slots = {s1, s2}
  MaxTouches = 1
  ConfigAnswers = {"managed", "fail"}
  MaxFails = 0
  MaxStops = 0
SPECIFICATION Spec
SYMMETRY Symmetry
INVARIANTS BundlesGetInstalled
CHECK_DEADLOCK FALSE
