SPECIFICATION Spec
SYMMETRY Symmetry
CONSTANTS
  Objectives = {o1}
  Controllers = {c1, c2}
  Cancellable = {o1}
  WorkerPhases = {"completed", "cancelled"}
  Tenants <- OneTenant
  Tenant <- SameTenant
  MaxGlobal = 1
  MaxPerTenant = 1
  MaxCrashes = 1
  MaxFaults = 1
INVARIANTS
  TypeOK
  RunningIsAccepted
  SettledByTerminalFact
PROPERTIES
  RetiredIsFinal
  
