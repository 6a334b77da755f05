CONSTANTS
  s1 = s1  s2 = s2
  Bundles <- FourBundles
  Provider = "aws"
  Slots = {s1, s2}
  MaxTouches = 1
  ConfigAnswers = {"managed", "fail"}
  MaxFails = 1
  MaxStops = 1
SPECIFICATION Spec
SYMMETRY Symmetry
INVARIANTS TypeOK InstalledWithoutTrouble ApplicationsHaveManagers ToldTokenIsKept CompletedIsUsable
PROPERTIES ImplementsReadiness
CHECK_DEADLOCK FALSE
