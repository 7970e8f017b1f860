----------------------------- MODULE MCBilling ------------------------------
(* A small catalog, one subscription and its webhook stream for TLC.       *)
EXTENDS Billing, TLC

MCCatalog ==
  [free |-> [kind |-> "free", included |-> 4, reserve |-> 2, limit |-> 4,
             concurrency |-> 1, grace |-> 0, execution |-> TRUE],
   pro  |-> [kind |-> "subscription", included |-> 6, reserve |-> 3, limit |-> 7,
             concurrency |-> 2, grace |-> 1, execution |-> TRUE]]

MCRates == [m |-> [input |-> 1, output |-> 2, compute |-> 3, margin |-> 5]]
MCUnits == [tokens |-> 2, hour |-> 4, bps |-> 10, micro |-> 1, usd |-> 1]

(* Costs 0 (no worker), 6 (an over-run of either plan's estimate), no rate.*)
MCUsages ==
  {[model |-> "m", input |-> 0, output |-> 0, compute |-> 0],
   [model |-> "m", input |-> 2, output |-> 1, compute |-> 2],
   [model |-> "unrated", input |-> 1, output |-> 0, compute |-> 0]}

Event(id, type, created, status, start) ==
  [id |-> id, type |-> type, created |-> created, status |-> status, start |-> start,
   subscription |-> "sub", plan |-> "pro", session |-> "cs"]

(* The stream of one subscription: created, paid, two failed renewals, a   *)
(* proration invoice of the same period, deletion; a credit pack; and one  *)
(* event of the legacy webhook, a copy of the creation or a checkout.      *)
MCEvents ==
  {Event("created", "subscription.updated", 1, "active", 0),
   Event("paid", "invoice.paid", 2, "none", 1),
   Event("failed", "invoice.payment_failed", 3, "none", 1),
   Event("dunning", "invoice.payment_failed", 4, "none", 1),
   Event("proration", "invoice.paid", 5, "none", 1),
   Event("deleted", "subscription.deleted", 6, "canceled", 0),
   Event("pack", "checkout.paid", 2, "none", 0),
   Event("legacy", "legacy.subscription", 1, "trialing", 0),
   Event("legacy", "legacy.checkout", 2, "none", 0)}

(* Objectives are interchangeable, and so are idempotency keys.            *)
Symmetry == Permutations(Objectives) \cup Permutations(ClientKeys)

MCSessions == {[id |-> "cs", kind |-> "credit_pack"]}
=============================================================================
