SPECIFICATION Spec
CONSTANTS
  Objectives = {o1}
  Controllers = {c1}
  Cancellable = {}
  WorkerPhases = {"completed"}
  Tenants <- OneTenant
  Tenant <- SameTenant
  MaxGlobal = 1
  MaxPerTenant = 1
  MaxCrashes = 1
  MaxFaults = 0
INVARIANT RetiredIsSettled
