SPECIFICATION MCSpec
CONSTANTS
  Objectives = {o1, o2}
  Controllers = {c1}
  Cancellable = {o1}
  WorkerPhases = {"completed"}
  Tenants <- OneTenant
  Tenant <- SameTenant
  MaxGlobal = 2
  MaxPerTenant = 1
  MaxCrashes = 1
  MaxFaults = 1
  MaxStarts = 1
INVARIANT CapacityRespected
PROPERTIES EveryRunDrains EveryRequestIsAnswered
