------------------------------ MODULE Billing -------------------------------
(***************************************************************************)
(* The credit ledger and the Stripe webhook processor of one account       *)
(* (gateway/app/billing.py).  Every operation is one serialized database   *)
(* transaction (BEGIN IMMEDIATE, or an advisory lock on PostgreSQL), so    *)
(* every operation is one action.  An operation that raises rolls back and *)
(* changes nothing: its error conditions are the negations of the guards.  *)
(*                                                                         *)
(* Amounts are microcredits.  Time is counted in ticks and a calendar      *)
(* month is TicksPerMonth of them.                                         *)
(***************************************************************************)
EXTENDS Integers, FiniteSets, Functions

CONSTANTS
  Objectives,     \* objectives the account may submit
  Catalog,        \* plan id -> plan record of the billing catalog
  DefaultPlan,    \* catalog.default_plan
  PackCredits,    \* microcredits of the credit pack
  Rates,          \* model -> [input, output, compute, margin]
  Units,          \* [tokens, hour, bps, micro, usd]: the divisors of measured_cost
  Usages,         \* measured usage records terminal events may carry
  EventIds,       \* terminal execution event ids
  StripeEvents,   \* the webhook events Stripe may deliver, in any order
  Sessions,       \* checkout sessions, [id, kind]
  ClientKeys,     \* idempotency keys of refunds and manual grants
  RefundAmounts,  \* amounts a reviewed refund may have
  GrantAmounts,   \* amounts a manual grant may have
  TicksPerMonth,  \* ticks in a calendar month
  MaxNow          \* bound on the clock

(* The catalog loader validates these (BillingCatalog._validate_plan).     *)
ASSUME CatalogAssumption ==
  /\ DefaultPlan \in DOMAIN Catalog
  /\ "free" \in DOMAIN Catalog
  /\ \A p \in DOMAIN Catalog :
        /\ Catalog[p].kind \in {"free", "demo", "subscription"}
        /\ Catalog[p].included \in Nat
        /\ Catalog[p].reserve \in Nat
        /\ Catalog[p].limit \in Nat
        /\ Catalog[p].concurrency \in Nat
        /\ Catalog[p].grace \in Nat
        /\ Catalog[p].execution \in BOOLEAN
  /\ PackCredits \in Nat

ASSUME ClockAssumption == TicksPerMonth \in Nat \ {0} /\ MaxNow \in Nat

ASSUME RefundAssumption == RefundAmounts \subseteq Nat \ {0} /\ GrantAmounts \subseteq Nat \ {0}

ASSUME RateAssumption ==
  /\ Units.tokens \in Nat \ {0} /\ Units.hour \in Nat \ {0} /\ Units.bps \in Nat \ {0}
  /\ Units.micro \in Nat \ {0} /\ Units.usd \in Nat \ {0}
  /\ \A m \in DOMAIN Rates :
        /\ Rates[m].input \in Nat /\ Rates[m].output \in Nat
        /\ Rates[m].compute \in Nat /\ Rates[m].margin \in Nat
  /\ \A u \in Usages : u.input \in Nat /\ u.output \in Nat /\ u.compute \in Nat

(* An objective id is never NULL, the objective_id of a grant.             *)
Null == "null"
ASSUME ObjectiveAssumption == Null \notin Objectives

SubscriptionTypes == {"subscription.updated", "subscription.deleted"}
InvoiceTypes == {"invoice.paid", "invoice.payment_failed"}
LegacyTypes == {"legacy.subscription", "legacy.checkout"}
Statuses == {"active", "trialing", "past_due", "unpaid", "canceled", "pending", "none"}

(* Stripe's subscription statuses are never "none" nor "pending": those    *)
(* are the gateway's own.                                                  *)
ASSUME EventAssumption ==
  \A e \in StripeEvents :
     /\ e.type \in SubscriptionTypes \cup InvoiceTypes \cup LegacyTypes \cup {"checkout.paid"}
     /\ e.created \in Nat \ {0}
     /\ e.start \in Nat
     /\ e.status \in Statuses
     /\ e.type \in SubscriptionTypes =>
           /\ e.plan \in DOMAIN Catalog /\ Catalog[e.plan].kind = "subscription"
           /\ e.status \notin {"none", "pending"}

VARIABLES
  account,        \* the billing_accounts row
  reservations,   \* the credit_reservations row of each objective
  ledger,         \* the credit_ledger rows
  processed,      \* the billing_webhook_events rows
  sessions,       \* the billing_checkout_sessions rows
  now             \* the clock

vars == <<account, reservations, ledger, processed, sessions, now>>

NoPeriod == <<"none", 0>>
Month == <<"month", now \div TicksPerMonth>>

NoAccount ==
  [open |-> FALSE, plan |-> DefaultPlan, status |-> "active", available |-> 0,
   reserved |-> 0, spend |-> 0, period |-> NoPeriod, customer |-> FALSE,
   subscription |-> Null, grace |-> -1, eventCreated |-> 0]

NoReservation == [status |-> "none", estimate |-> 0, actual |-> 0]

Entry(key, type, amount, o) == [key |-> key, type |-> type, amount |-> amount, objective |-> o]
HasKey(l, key) == \E e \in l : e.key = key

(* INSERT OR IGNORE on (owner, idempotency_key).                           *)
InsertLedger(l, e) == IF HasKey(l, e.key) THEN l ELSE l \cup {e}

Total(entries) == SumFunction([e \in entries |-> e.amount])
Refunds(o) == {e \in ledger : e.type = "refund" /\ e.objective = o}

-----------------------------------------------------------------------------
(* _account: open the account on first use and, on a free or demo plan,    *)
(* grant the calendar month's included credits once.                       *)
Existing == [account EXCEPT !.open = TRUE]

CalendarGrant ==
  Entry(<<"included", Existing.plan, Month>>, "included_grant", Catalog[Existing.plan].included, Null)

CalendarGrantDue ==
  /\ Catalog[Existing.plan].kind \in {"free", "demo"}
  /\ Existing.period # Month
  /\ ~HasKey(ledger, CalendarGrant.key)

OpenedAccount ==
  IF CalendarGrantDue
  THEN [Existing EXCEPT !.available = @ + CalendarGrant.amount, !.spend = 0, !.period = Month]
  ELSE Existing

OpenedLedger == IF CalendarGrantDue THEN InsertLedger(ledger, CalendarGrant) ELSE ledger

(* GET /billing/summary, and the first transaction of _customer.           *)
Summary ==
  /\ account' = OpenedAccount
  /\ ledger' = OpenedLedger
  /\ UNCHANGED <<reservations, processed, sessions, now>>

(* The second transaction of _customer, after Stripe has answered.         *)
BindCustomer ==
  /\ account.open
  /\ account' = [OpenedAccount EXCEPT !.customer = TRUE]
  /\ ledger' = OpenedLedger
  /\ UNCHANGED <<reservations, processed, sessions, now>>

(* checkout: the session row written once Stripe has created the session.  *)
(* The top-up entitlement is checked transactions earlier, against a plan  *)
(* that may have changed since, and every plan of the catalog has it.      *)
Checkout(s) ==
  /\ account.customer
  /\ sessions' = sessions \cup {s}
  /\ UNCHANGED <<account, reservations, ledger, processed, now>>
-----------------------------------------------------------------------------
(* reserve_objective.  Both callers pass the key objective:{id}, so the    *)
(* existing row is the objective's own: a repeated call returns it, in     *)
(* whatever state it is, and changes nothing but the calendar grant.       *)
InGrace(a) == a.status = "past_due" /\ a.grace > now

Entitled(a) ==
  /\ Catalog[a.plan].execution
  /\ a.status \in {"active", "trialing"} \/ InGrace(a)

Active == {o \in Objectives : reservations[o].status = "reserved"}

ReserveAgain(o) ==
  /\ reservations[o].status # "none"
  /\ account' = OpenedAccount
  /\ ledger' = OpenedLedger
  /\ UNCHANGED <<reservations, processed, sessions, now>>

(* Mutant: the balance is not checked. *)
MayReserveUnfunded(a) ==
  LET plan == Catalog[a.plan] IN
  /\ Entitled(a)
  /\ Cardinality(Active) < plan.concurrency
  /\ a.spend + a.reserved + plan.reserve <= plan.limit

MayReserve(a) ==
  LET plan == Catalog[a.plan] IN
  /\ Entitled(a)
  /\ Cardinality(Active) < plan.concurrency
  /\ a.available >= plan.reserve
  /\ a.spend + a.reserved + plan.reserve <= plan.limit

ReserveObjective(o) ==
  LET a == OpenedAccount
      estimate == Catalog[a.plan].reserve IN
  /\ reservations[o].status = "none"
  /\ MayReserve(a)
  /\ reservations' = [reservations EXCEPT ![o] =
        [NoReservation EXCEPT !.status = "reserved", !.estimate = estimate]]
  /\ account' = [a EXCEPT !.available = @ - estimate, !.reserved = @ + estimate]
  /\ ledger' = InsertLedger(OpenedLedger, Entry(<<"reserve", o>>, "reservation", -estimate, o))
  /\ UNCHANGED <<processed, sessions, now>>

(* Mutant: the hold stays counted. *)
HeldStill(a, r) == a.reserved

HeldWithout(a, r) == a.reserved - r.estimate

(* release_objective: a no-op unless the hold is still reserved.           *)
ReleaseObjective(o) ==
  LET r == reservations[o] IN
  /\ r.status = "reserved"
  /\ reservations' = [reservations EXCEPT ![o].status = "released"]
  /\ account' = [account EXCEPT !.available = @ + r.estimate, !.reserved = HeldWithout(account, r)]
  /\ ledger' = InsertLedger(ledger, Entry(<<"release", o>>, "release", r.estimate, o))
  /\ UNCHANGED <<processed, sessions, now>>

(* measured_cost: every quotient rounds up; a model without a rate raises. *)
CeilDiv(a, b) == (a + b - 1) \div b

MeasuredCost(u) ==
  LET rate == Rates[u.model]
      tokens == CeilDiv(u.input * rate.input + u.output * rate.output, Units.tokens)
      compute == CeilDiv(u.compute * rate.compute, Units.hour)
      billable == CeilDiv((tokens + compute) * (Units.bps + rate.margin), Units.bps)
  IN CeilDiv(billable * Units.micro, Units.usd)

(* Mutant: a released hold settles. *)
SettleableTwice(r) == r.status \in {"reserved", "released"}

Settleable(r) == r.status = "reserved"

(* settle_objective.  A settled hold returns (same facts) or raises; a     *)
(* released or missing one raises: in all these cases nothing changes.     *)
SettleObjective(o, u, ev) ==
  LET r == reservations[o]
      actual == MeasuredCost(u) IN
  /\ u.model \in DOMAIN Rates
  /\ Settleable(r)
  /\ reservations' = [reservations EXCEPT ![o] =
        [@ EXCEPT !.status = "settled", !.actual = actual]]
  /\ account' = [account EXCEPT !.available = @ + r.estimate - actual,
                                !.reserved = HeldWithout(account, r), !.spend = @ + actual]
  /\ ledger' = InsertLedger(ledger, Entry(<<"settle", ev>>, "settlement", r.estimate - actual, o))
  /\ UNCHANGED <<processed, sessions, now>>

(* Mutant: earlier refunds are not counted. *)
RefundEachWithinCost(o, k, amount) == amount <= reservations[o].actual

(* The bound refund_objective checks: this refund and all earlier ones     *)
(* together stay within the settled cost.                                  *)
RefundWithinCost(o, k, amount) == Total(Refunds(o)) + amount <= reservations[o].actual

(* Mutant: the spend meter is not clamped. *)
SpendBelowZero(a, amount) == a.spend - amount

SpendAfterRefund(a, amount) == IF a.spend > amount THEN a.spend - amount ELSE 0

(* refund_objective: a key already in the ledger returns or raises.        *)
RefundObjective(o, k, amount) ==
  /\ reservations[o].status = "settled"
  /\ ~HasKey(ledger, <<"client", k>>)
  /\ RefundWithinCost(o, k, amount)
  /\ ledger' = InsertLedger(ledger, Entry(<<"client", k>>, "refund", amount, o))
  /\ account' = [account EXCEPT !.available = @ + amount,
                                !.spend = SpendAfterRefund(account, amount)]
  /\ UNCHANGED <<reservations, processed, sessions, now>>

(* add_credits: a repeated key only opens the account (first disjunct).    *)
AddCredits(k, amount) ==
  /\ \/ /\ HasKey(ledger, <<"client", k>>)
        /\ \E e \in ledger : e.key = <<"client", k>> /\ e.type = "topup" /\ e.amount = amount
        /\ account' = OpenedAccount
        /\ ledger' = OpenedLedger
     \/ /\ ~HasKey(ledger, <<"client", k>>)
        /\ account' = [OpenedAccount EXCEPT !.available = @ + amount]
        /\ ledger' = InsertLedger(OpenedLedger, Entry(<<"client", k>>, "topup", amount, Null))
  /\ UNCHANGED <<reservations, processed, sessions, now>>
-----------------------------------------------------------------------------
(* StripeWebhookProcessor.process: an event id is recorded in the same     *)
(* transaction as its effect; a recorded id is answered as a duplicate, or *)
(* refused when its bytes have changed.                                    *)
Record(e) == /\ \A f \in processed : f.id # e.id
             /\ processed' = processed \cup {e}
             /\ UNCHANGED <<reservations, sessions, now>>

(* A paid credit pack must be a checkout this server recorded.             *)
PackPaid(e) ==
  /\ e.type = "checkout.paid"
  /\ Record(e)
  /\ [id |-> e.session, kind |-> "credit_pack"] \in sessions
  /\ account' = [OpenedAccount EXCEPT !.available = @ + PackCredits]
  /\ ledger' = InsertLedger(OpenedLedger, Entry(<<"stripe", e.id>>, "topup", PackCredits, Null))

(* Mutant: events apply in the order they arrive. *)
NeverStale(a, e) == FALSE

Stale(a, e) == a.eventCreated # 0 /\ a.eventCreated > e.created

(* Mutant: every failure restarts the grace period. *)
FreshGraceEnd(a, plan) == now + Catalog[plan].grace

GraceEnd(a, plan) == IF a.grace # -1 THEN a.grace ELSE now + Catalog[plan].grace

Ends(e) == e.type = "subscription.deleted" \/ e.status = "canceled"

(* _subscription: the customer must be this account's.  A canceled or      *)
(* deleted subscription returns the account to the default plan.           *)
Subscription(e) ==
  LET a == OpenedAccount IN
  /\ e.type \in SubscriptionTypes
  /\ account.customer
  /\ Record(e)
  /\ ledger' = OpenedLedger
  /\ account' =
       IF Stale(a, e) THEN a
       ELSE [a EXCEPT
              !.plan = IF Ends(e) THEN DefaultPlan ELSE e.plan,
              !.status = IF Ends(e) THEN "active" ELSE e.status,
              !.subscription = IF Ends(e) THEN Null ELSE e.subscription,
              !.grace = IF ~Ends(e) /\ e.status \in {"past_due", "unpaid"}
                        THEN GraceEnd(a, e.plan) ELSE -1,
              !.eventCreated = e.created]

(* _invoice: invoices are matched by the account's current subscription.   *)
IncludedGrant(e) ==
  Entry(<<"included", e.subscription, e.start>>, "included_grant", Catalog[account.plan].included, Null)

InvoiceIgnored(e) ==
  /\ Stale(account, e)
  /\ UNCHANGED <<account, ledger>>

InvoiceFailed(e) ==
  /\ e.type = "invoice.payment_failed"
  /\ ~Stale(account, e)
  /\ Catalog[account.plan].kind = "subscription"
  /\ account' = [account EXCEPT !.status = "past_due",
                                !.grace = GraceEnd(account, account.plan),
                                !.eventCreated = e.created]
  /\ UNCHANGED ledger

(* Mutant: every paid invoice of a period grants. *)
GrantedAgain(e) == IncludedGrant(e).amount

Granted(e) == IF HasKey(ledger, IncludedGrant(e).key) THEN 0 ELSE IncludedGrant(e).amount

InvoicePaid(e) ==
  /\ e.type = "invoice.paid"
  /\ ~Stale(account, e)
  /\ Catalog[account.plan].kind = "subscription"
  /\ ledger' = InsertLedger(ledger, IncludedGrant(e))
  /\ account' = [account EXCEPT
        !.status = "active", !.grace = -1, !.period = <<"stripe", e.start>>, !.spend = 0,
        !.available = @ + Granted(e),
        !.eventCreated = e.created]

Invoice(e) ==
  /\ e.type \in InvoiceTypes
  /\ account.open /\ account.subscription = e.subscription
  /\ Record(e)
  /\ InvoiceIgnored(e) \/ InvoiceFailed(e) \/ InvoicePaid(e)

(* accept_webhook: the pre-catalog webhook.  It may create the account row *)
(* on the free plan, sets the status and never grants credits.             *)
LegacyApplies(e) ==
  \/ e.type = "legacy.subscription" /\ ~Stale(account, e)
  \/ e.type = "legacy.checkout" /\ (~account.open \/ account.status \in {"none", "pending"})

Latest(a, b) == IF a > b THEN a ELSE b

LegacyWebhook(e) ==
  LET row == IF account.open THEN account ELSE [NoAccount EXCEPT !.open = TRUE, !.plan = "free"] IN
  /\ e.type \in LegacyTypes
  /\ Record(e)
  /\ account' =
       IF ~LegacyApplies(e) THEN account
       ELSE [row EXCEPT !.customer = TRUE,
                        !.subscription = IF e.subscription = Null THEN @ ELSE e.subscription,
                        !.status = IF e.type = "legacy.checkout" THEN "pending" ELSE e.status,
                        !.eventCreated = Latest(@, e.created)]
  /\ UNCHANGED ledger

Webhook(e) == PackPaid(e) \/ Subscription(e) \/ Invoice(e) \/ LegacyWebhook(e)

Tick == /\ now < MaxNow
        /\ now' = now + 1
        /\ UNCHANGED <<account, reservations, ledger, processed, sessions>>
-----------------------------------------------------------------------------
Init ==
  /\ account = NoAccount
  /\ reservations = [o \in Objectives |-> NoReservation]
  /\ ledger = {}
  /\ processed = {}
  /\ sessions = {}
  /\ now = 0

Next ==
  \/ Summary \/ BindCustomer \/ Tick
  \/ \E s \in Sessions : Checkout(s)
  \/ \E o \in Objectives : ReserveObjective(o) \/ ReserveAgain(o) \/ ReleaseObjective(o)
  \/ \E o \in Objectives, u \in Usages, ev \in EventIds : SettleObjective(o, u, <<o, ev>>)
  \/ \E o \in Objectives, k \in ClientKeys, n \in RefundAmounts : RefundObjective(o, k, n)
  \/ \E k \in ClientKeys, n \in GrantAmounts : AddCredits(k, n)
  \/ \E e \in StripeEvents : Webhook(e)

Spec == Init /\ [][Next]_vars
-----------------------------------------------------------------------------
Accounts ==
  [open : BOOLEAN, plan : DOMAIN Catalog, status : Statuses, available : Int, reserved : Int,
   spend : Nat, period : {"none", "month", "stripe"} \X Nat, customer : BOOLEAN,
   subscription : {Null} \cup {e.subscription : e \in StripeEvents},
   grace : Nat \cup {-1}, eventCreated : Nat]

Reservations == [status : {"none", "reserved", "released", "settled"}, estimate : Nat, actual : Nat]

TypeOK ==
  /\ account \in Accounts
  /\ reservations \in [Objectives -> Reservations]
  /\ \A e \in ledger : e.amount \in Int
  /\ processed \subseteq StripeEvents /\ sessions \subseteq Sessions
  /\ now \in Nat

(* billing_accounts is "the transactionally updated balance projection":   *)
(* whatever was granted, held, settled, refunded, replayed or ignored, the *)
(* available balance is the sum of the ledger.                             *)
BalanceIsLedgerSum == account.available = Total(ledger)

(* The account's reserved amount is exactly the estimates of its open      *)
(* reservations, although releases, settlements and plan changes intervene.*)
HeldIsOpenReservations == account.reserved = SumFunction([o \in Active |-> reservations[o].estimate])

(* Every objective's ledger entries net to what it owes: nothing if it     *)
(* never started or was released, its estimate while held, its measured    *)
(* cost less bounded refunds once settled.                                 *)
ObjectiveNetsToCost ==
  \A o \in Objectives :
    LET r == reservations[o]
        net == Total({e \in ledger : e.objective = o})
        refunded == Total(Refunds(o))
    IN /\ refunded <= r.actual
       /\ net = CASE r.status = "reserved" -> -r.estimate
                  [] r.status = "settled"  -> refunded - r.actual
                  [] OTHER                 -> 0

Settled == {o \in Objectives : reservations[o].status = "settled"}
Overrun(o) ==
  LET r == reservations[o] IN IF r.actual > r.estimate THEN r.actual - r.estimate ELSE 0

(* "Over-runs create a truthful negative adjustment": the balance goes     *)
(* below zero only by measured over-runs, never because too many           *)
(* objectives were started.                                                *)
OverdraftOnlyFromOverruns == account.available + SumFunction([o \in Settled |-> Overrun(o)]) >= 0

ProviderEvents == {e \in processed : e.type \in SubscriptionTypes \cup InvoiceTypes \cup {"legacy.subscription"}}

(* Webhooks arrive in any order and more than once.  Whatever the order,   *)
(* the account reflects the newest processed provider event (a legacy      *)
(* checkout counts as one: it moves provider_event_created).               *)
AccountReflectsNewestEvent ==
  \A e \in ProviderEvents :
    (\A f \in processed \ {e} : f.type # "checkout.paid" => f.created < e.created) =>
      CASE e.type = "invoice.payment_failed" -> account.status = "past_due" /\ account.grace # -1
        [] e.type = "invoice.paid" -> account.status = "active" /\ account.grace = -1
        [] e.type = "legacy.subscription" -> account.status \in {e.status, "pending"}
        [] e.type \in SubscriptionTypes /\ Ends(e) -> account.plan = DefaultPlan /\ account.subscription = Null
        [] OTHER -> account.plan = e.plan /\ account.status = e.status

(* Dunning retries report the same failure again and again; they must not  *)
(* push the end of the grace period out.                                   *)
GraceNeverExtended ==
  [][account.grace # -1 /\ account'.grace # -1 => account'.grace = account.grace]_vars

(* The ledger keeps what the execution path relies on (CreditHold).        *)
Hold == [o \in Objectives |-> reservations[o].status]
Charge == [o \in Objectives |-> reservations[o].actual]
HoldSpec == INSTANCE CreditHold WITH hold <- Hold, charge <- Charge
ImplementsCreditHold == HoldSpec!Spec
=============================================================================
