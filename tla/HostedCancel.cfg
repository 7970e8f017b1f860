SPECIFICATION Spec
CONSTANTS
  Objectives = {o1}
  Controllers = {c1}
  Cancellable = {o1}
  WorkerPhases = {"completed"}
  Tenants <- OneTenant
  Tenant <- SameTenant
  MaxGlobal = 1
  MaxPerTenant = 1
  MaxCrashes = 1
  MaxFaults = 0
INVARIANT PrelaunchCancelHasNoWorker
