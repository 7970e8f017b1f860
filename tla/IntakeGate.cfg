SPECIFICATION Spec
CONSTANTS
  Objectives = {o1}
  Instances = {i1}
  StartupRetries = 2
  MaxTries = 1
  MaxFaults = 1
  MaxCrashes = 0
INVARIANTS
  AcceptedIsHeld
