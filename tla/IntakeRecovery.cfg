SPECIFICATION FairSpec
CONSTANTS
  Objectives = {o1}
  Instances = {i1, i2}
  StartupRetries = 8
  MaxTries = 3
  MaxFaults = 2
  MaxCrashes = 2
INVARIANTS
  TypeOK
  HoldThenTaskThenAccept
  AttemptsAreDistinct
PROPERTIES
  AcceptedIsFinal
  EverySubmissionResolves
