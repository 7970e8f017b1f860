SPECIFICATION SpendSpec
CONSTANTS
  Objectives = {o1, o2, o3}
  Catalog <- MCCatalog
  DefaultPlan = "free"
  PackCredits = 4
  Rates <- MCRates
  Units <- MCUnits
  Usages <- SpendUsages
  EventIds = {"terminal"}
  StripeEvents <- MCEvents
  Sessions <- MCSessions
  ClientKeys = {k1}
  RefundAmounts = {}
  GrantAmounts = {}
  TicksPerMonth = 1
  MaxNow = 1
INVARIANT HardMonthlySpend
