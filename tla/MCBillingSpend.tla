--------------------------- MODULE MCBillingSpend ---------------------------
(***************************************************************************)
(* Billing with a history variable: the measured cost settled since the    *)
(* included credits of the current period were granted, less the refunds.  *)
(***************************************************************************)
EXTENDS MCBilling, FiniteSetsExt

VARIABLE periodCost

(* Costs exactly the estimate of the pro plan.                             *)
SpendUsages == {[model |-> "m", input |-> 1, output |-> 0, compute |-> 1]}

NewEntries == ledger' \ ledger

(* What the step settled: the costs of the objectives that became settled. *)
SettledNow == {o \in Objectives : reservations[o].status # "settled" /\ reservations'[o].status = "settled"}

Meter ==
  IF \E e \in NewEntries : e.type = "included_grant"
  THEN periodCost' = 0
  ELSE periodCost' = periodCost + SumFunction([o \in SettledNow |-> reservations'[o].actual])
                                - Total({e \in NewEntries : e.type = "refund"})

SpendSpec == Init /\ periodCost = 0 /\ [][Next /\ Meter]_<<vars, periodCost>>

LargestLimit == Max({Catalog[p].limit : p \in DOMAIN Catalog})

(* "hard monthly spend and concurrency limits" of the catalog              *)
(* (docs/billing-and-credits.md): while no settlement over-ran its         *)
(* estimate, the cost of a period plus the open holds stays within the     *)
(* largest monthly limit of any plan.                                      *)
HardMonthlySpend ==
  (\A o \in Settled : Overrun(o) = 0) => periodCost + account.reserved <= LargestLimit
=============================================================================
