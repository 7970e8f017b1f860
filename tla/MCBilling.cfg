SPECIFICATION Spec
SYMMETRY Symmetry
CONSTANTS
  Objectives = {o1, o2}
  Catalog <- MCCatalog
  DefaultPlan = "free"
  PackCredits = 2
  Rates <- MCRates
  Units <- MCUnits
  Usages <- MCUsages
  EventIds = {"terminal"}
  StripeEvents <- MCEvents
  Sessions <- MCSessions
  ClientKeys = {k1, k2}
  RefundAmounts = {4}
  GrantAmounts = {4}
  TicksPerMonth = 1
  MaxNow = 1
INVARIANTS
  TypeOK
  BalanceIsLedgerSum
  HeldIsOpenReservations
  ObjectiveNetsToCost
  OverdraftOnlyFromOverruns
  AccountReflectsNewestEvent
PROPERTIES
  GraceNeverExtended
  ImplementsCreditHold
