---------------------------- MODULE BillingProofs ---------------------------
(***************************************************************************)
(* Proofs about Billing for every catalog, rate card, webhook stream,      *)
(* clock and number of objectives.                                         *)
(***************************************************************************)
EXTENDS Billing, LedgerFacts, TLAPS

-----------------------------------------------------------------------------
(* Events that move provider_event_created: all but a paid credit pack.    *)
Moving == {e \in processed : e.type # "checkout.paid"}

(* What the account says once the newest event e has been applied.         *)
Reflects(e) ==
  CASE e.type = "invoice.payment_failed" -> account.status = "past_due" /\ account.grace # -1
    [] e.type = "invoice.paid" -> account.status = "active" /\ account.grace = -1
    [] e.type = "legacy.subscription" -> account.status \in {e.status, "pending"}
    [] e.type \in SubscriptionTypes /\ Ends(e) ->
         account.plan = DefaultPlan /\ account.subscription = Null /\ account.status = "active"
    [] OTHER -> account.plan = e.plan /\ account.status = e.status

Newest(e) == \A f \in Moving \ {e} : f.created < e.created

(* The inductive invariant.  Beside the types: an objective without a hold *)
(* has no charge; the account's event time is that of a processed event,   *)
(* so the newest event is never taken for a stale one; and once applied,   *)
(* the newest event is what the account's event time names.                *)
ClockInv == account.eventCreated = 0 \/ \E f \in Moving : account.eventCreated = f.created

NewestInv ==
  \A e \in ProviderEvents :
    Newest(e) => account.open /\ account.eventCreated = e.created /\ Reflects(e)

HoldInv == \A o \in Objectives : reservations[o].status = "none" => reservations[o].actual = 0

IInv == /\ TypeOK
        /\ HoldInv
        /\ ClockInv
        /\ NewestInv
-----------------------------------------------------------------------------
(* The roundings of measured_cost stay natural numbers.                    *)
LEMMA CeilDivType ==
  ASSUME NEW a \in Nat, NEW b \in Nat \ {0}
  PROVE  CeilDiv(a, b) \in Nat
BY DEF CeilDiv

(* A product of natural numbers is one.                                    *)
LEMMA ProductType == \A a, b \in Nat : a * b \in Nat
OBVIOUS

(* measured_cost of a rated usage is a natural number.                     *)
LEMMA MeasuredCostType ==
  ASSUME NEW u \in Usages, u.model \in DOMAIN Rates
  PROVE  MeasuredCost(u) \in Nat
<1> DEFINE rate == Rates[u.model]
           tokens == CeilDiv(u.input * rate.input + u.output * rate.output, Units.tokens)
           compute == CeilDiv(u.compute * rate.compute, Units.hour)
           billable == CeilDiv((tokens + compute) * (Units.bps + rate.margin), Units.bps)
<1>1. /\ u.input \in Nat /\ u.output \in Nat /\ u.compute \in Nat
      /\ rate.input \in Nat /\ rate.output \in Nat /\ rate.compute \in Nat /\ rate.margin \in Nat
      /\ Units.tokens \in Nat \ {0} /\ Units.hour \in Nat \ {0} /\ Units.bps \in Nat \ {0}
      /\ Units.micro \in Nat \ {0} /\ Units.usd \in Nat \ {0}
  BY RateAssumption
<1>2. u.input * rate.input + u.output * rate.output \in Nat
  <2>1. u.input * rate.input \in Nat /\ u.output * rate.output \in Nat
    BY <1>1, ProductType
  <2> QED
    BY <2>1
<1>3. tokens \in Nat
  BY <1>1, <1>2, CeilDivType
<1>4. compute \in Nat
  <2>1. u.compute * rate.compute \in Nat
    BY <1>1, ProductType
  <2> QED
    BY <1>1, <2>1, CeilDivType
<1>5. billable \in Nat
  <2>1. tokens + compute \in Nat /\ Units.bps + rate.margin \in Nat
    BY <1>1, <1>3, <1>4
  <2>2. (tokens + compute) * (Units.bps + rate.margin) \in Nat
    BY <2>1, ProductType
  <2> QED
    BY <1>1, <2>2, CeilDivType
<1>6. billable * Units.micro \in Nat
  BY <1>1, <1>5, ProductType
<1>7. CeilDiv(billable * Units.micro, Units.usd) \in Nat
  BY <1>1, <1>6, CeilDivType
<1> QED
  BY <1>7 DEF MeasuredCost

(* The calendar month names a period.                                      *)
LEMMA MonthType ==
  ASSUME now \in Nat
  PROVE  Month \in {"none", "month", "stripe"} \X Nat
<1>1. now \div TicksPerMonth \in Nat
  BY ClockAssumption
<1> QED
  BY <1>1 DEF Month

(* An insert keeps the ledger's amounts integers.                          *)
LEMMA InsertType ==
  ASSUME NEW l, \A e \in l : e.amount \in Int, NEW r, r.amount \in Int
  PROVE  \A e \in InsertLedger(l, r) : e.amount \in Int
BY DEF InsertLedger

(* _account opens the row and may grant; it leaves alone everything the    *)
(* provider's events decide.                                               *)
LEMMA Opened ==
  ASSUME TypeOK
  PROVE  /\ OpenedAccount \in Accounts
         /\ OpenedAccount.open
         /\ OpenedAccount.plan = account.plan
         /\ OpenedAccount.status = account.status
         /\ OpenedAccount.subscription = account.subscription
         /\ OpenedAccount.grace = account.grace
         /\ OpenedAccount.eventCreated = account.eventCreated
         /\ \A e \in OpenedLedger : e.amount \in Int
<1>1. account \in Accounts /\ now \in Nat /\ \A e \in ledger : e.amount \in Int
  BY DEF TypeOK
<1>2. Existing \in Accounts /\ Existing.open
  BY <1>1 DEF Existing, Accounts
<1>3. /\ Existing.plan = account.plan /\ Existing.status = account.status
      /\ Existing.subscription = account.subscription /\ Existing.grace = account.grace
      /\ Existing.eventCreated = account.eventCreated
  BY <1>1 DEF Existing, Accounts
<1>4. CalendarGrant.amount \in Nat
  BY <1>2, CatalogAssumption DEF CalendarGrant, Entry, Accounts
<1>5. CASE ~CalendarGrantDue
  BY <1>1, <1>2, <1>3, <1>5 DEF OpenedAccount, OpenedLedger
<1>6. CASE CalendarGrantDue
  <2>1. OpenedAccount =
          [Existing EXCEPT !.available = @ + CalendarGrant.amount, !.spend = 0, !.period = Month]
    BY <1>6 DEF OpenedAccount
  <2>2. OpenedLedger = InsertLedger(ledger, CalendarGrant)
    BY <1>6 DEF OpenedLedger
  <2>3. Month \in {"none", "month", "stripe"} \X Nat
    BY <1>1, MonthType
  <2>4. Existing.available + CalendarGrant.amount \in Int
    BY <1>2, <1>4 DEF Accounts
  <2>5. OpenedAccount \in Accounts
    BY <1>2, <2>1, <2>3, <2>4 DEF Accounts
  <2>6. /\ OpenedAccount.open = Existing.open /\ OpenedAccount.plan = Existing.plan
        /\ OpenedAccount.status = Existing.status /\ OpenedAccount.grace = Existing.grace
        /\ OpenedAccount.subscription = Existing.subscription
        /\ OpenedAccount.eventCreated = Existing.eventCreated
    BY <1>2, <2>1 DEF Accounts
  <2>7. \A e \in OpenedLedger : e.amount \in Int
    BY <1>1, <1>4, <2>2, InsertType
  <2> QED
    BY <1>2, <1>3, <2>5, <2>6, <2>7
<1> QED
  BY <1>5, <1>6
-----------------------------------------------------------------------------
(* Steps that no webhook takes.  They may open the account, but they leave *)
(* alone what the provider's events decide.                                *)
Quiet == /\ processed' = processed
         /\ account.open => account'.open
         /\ account'.plan = account.plan
         /\ account'.status = account.status
         /\ account'.subscription = account.subscription
         /\ account'.grace = account.grace
         /\ account'.eventCreated = account.eventCreated

(* Such a step keeps what the newest event decided.                        *)
LEMMA QuietKeeps ==
  ASSUME ClockInv, NewestInv, Quiet
  PROVE  ClockInv' /\ NewestInv'
BY DEF ClockInv, NewestInv, Quiet, Moving, Newest, Reflects, ProviderEvents

(* Every operation of the ledger itself keeps the types and is quiet.      *)
LedgerStep == TypeOK' /\ HoldInv' /\ Quiet

(* summary, and the first transaction of _customer.                        *)
LEMMA SummaryStep == ASSUME TypeOK, HoldInv, Summary PROVE LedgerStep
BY Opened DEF Summary, LedgerStep, Quiet, TypeOK, HoldInv

(* The second transaction of _customer.                                    *)
LEMMA BindCustomerStep == ASSUME TypeOK, HoldInv, BindCustomer PROVE LedgerStep
<1>1. OpenedAccount \in Accounts
  BY Opened
<1>2. account' \in Accounts
  BY <1>1 DEF BindCustomer, Accounts
<1>3. Quiet
  BY <1>1, Opened DEF BindCustomer, Quiet, Accounts
<1> QED
  BY <1>2, <1>3, Opened DEF BindCustomer, LedgerStep, TypeOK, HoldInv

(* The clock.                                                              *)
LEMMA TickStep == ASSUME TypeOK, HoldInv, Tick PROVE LedgerStep
BY DEF Tick, LedgerStep, Quiet, TypeOK, HoldInv

(* checkout records the session only.                                      *)
LEMMA CheckoutStep ==
  ASSUME TypeOK, HoldInv, NEW s \in Sessions, Checkout(s)
  PROVE  LedgerStep
BY DEF Checkout, LedgerStep, Quiet, TypeOK, HoldInv

(* A repeated reserve_objective opens the account at most.                 *)
LEMMA ReserveAgainStep ==
  ASSUME TypeOK, HoldInv, NEW o \in Objectives, ReserveAgain(o)
  PROVE  LedgerStep
BY Opened DEF ReserveAgain, LedgerStep, Quiet, TypeOK, HoldInv

(* reserve_objective takes the plan's estimate from the balance.           *)
LEMMA ReserveStep ==
  ASSUME TypeOK, HoldInv, NEW o \in Objectives, ReserveObjective(o)
  PROVE  LedgerStep
<1> DEFINE a == OpenedAccount
           estimate == Catalog[a.plan].reserve
<1>1. a \in Accounts
  BY Opened
<1>2. estimate \in Nat
  BY <1>1, CatalogAssumption DEF Accounts
<1>3. account' \in Accounts
  <2>1. account' = [a EXCEPT !.available = @ - estimate, !.reserved = @ + estimate]
    BY DEF ReserveObjective
  <2>2. a.available - estimate \in Int /\ a.reserved + estimate \in Int
    BY <1>1, <1>2 DEF Accounts
  <2> QED
    BY <1>1, <2>1, <2>2 DEF Accounts
<1>4. reservations' \in [Objectives -> Reservations]
  <2>1. [NoReservation EXCEPT !.status = "reserved", !.estimate = estimate] \in Reservations
    BY <1>2 DEF NoReservation, Reservations
  <2> QED
    BY <2>1 DEF ReserveObjective, TypeOK
<1>5. \A e \in ledger' : e.amount \in Int
  <2>1. Entry(<<"reserve", o>>, "reservation", -estimate, o).amount \in Int
    BY <1>2 DEF Entry
  <2> QED
    BY <2>1, Opened, InsertType DEF ReserveObjective
<1>6. Quiet
  BY <1>1, Opened DEF ReserveObjective, Quiet, Accounts
<1>7. HoldInv'
  BY DEF ReserveObjective, HoldInv, NoReservation, TypeOK, Reservations
<1> QED
  BY <1>3, <1>4, <1>5, <1>6, <1>7 DEF ReserveObjective, LedgerStep, TypeOK

(* release_objective gives the estimate back.                              *)
LEMMA ReleaseStep ==
  ASSUME TypeOK, HoldInv, NEW o \in Objectives, ReleaseObjective(o)
  PROVE  LedgerStep
<1> DEFINE r == reservations[o]
<1>1. account \in Accounts /\ r \in Reservations
  BY DEF TypeOK
<1>2. account' \in Accounts
  <2>1. account.available + r.estimate \in Int /\ HeldWithout(account, r) \in Int
    BY <1>1 DEF Accounts, Reservations, HeldWithout
  <2> QED
    BY <1>1, <2>1 DEF ReleaseObjective, Accounts
<1>3. reservations' \in [Objectives -> Reservations]
  BY <1>1 DEF ReleaseObjective, TypeOK, Reservations
<1>4. \A e \in ledger' : e.amount \in Int
  <2>1. Entry(<<"release", o>>, "release", r.estimate, o).amount \in Int
    BY <1>1 DEF Entry, Reservations
  <2> QED
    BY <2>1, InsertType DEF ReleaseObjective, TypeOK
<1>5. Quiet
  BY <1>1 DEF ReleaseObjective, Quiet, Accounts
<1>6. HoldInv'
  BY DEF ReleaseObjective, HoldInv, TypeOK, Reservations
<1> QED
  BY <1>2, <1>3, <1>4, <1>5, <1>6 DEF ReleaseObjective, LedgerStep, TypeOK

(* settle_objective turns the hold into the measured cost.                 *)
LEMMA SettleStep ==
  ASSUME TypeOK, HoldInv, NEW o \in Objectives, NEW u \in Usages, NEW ev, SettleObjective(o, u, ev)
  PROVE  LedgerStep /\ MeasuredCost(u) \in Nat
<1> DEFINE r == reservations[o]
           actual == MeasuredCost(u)
<1>1. account \in Accounts /\ r \in Reservations
  BY DEF TypeOK
<1>2. actual \in Nat
  BY MeasuredCostType DEF SettleObjective
<1>3. account' \in Accounts
  <2>1. /\ account.available + r.estimate - actual \in Int
        /\ HeldWithout(account, r) \in Int
        /\ account.spend + actual \in Nat
    BY <1>1, <1>2 DEF Accounts, Reservations, HeldWithout
  <2>2. account' = [account EXCEPT !.available = @ + r.estimate - actual,
                                   !.reserved = HeldWithout(account, r), !.spend = @ + actual]
    BY DEF SettleObjective
  <2> QED
    BY <1>1, <2>1, <2>2 DEF Accounts
<1>4. reservations' \in [Objectives -> Reservations]
  <2>1. [r EXCEPT !.status = "settled", !.actual = actual] \in Reservations
    BY <1>1, <1>2 DEF Reservations
  <2> QED
    BY <2>1 DEF SettleObjective, TypeOK
<1>5. \A e \in ledger' : e.amount \in Int
  <2>1. Entry(<<"settle", ev>>, "settlement", r.estimate - actual, o).amount \in Int
    BY <1>1, <1>2 DEF Entry, Reservations
  <2> QED
    BY <2>1, InsertType DEF SettleObjective, TypeOK
<1>6. Quiet
  BY <1>1 DEF SettleObjective, Quiet, Accounts
<1>7. HoldInv'
  BY DEF SettleObjective, HoldInv, TypeOK, Reservations
<1> QED
  BY <1>2, <1>3, <1>4, <1>5, <1>6, <1>7 DEF SettleObjective, LedgerStep, TypeOK

(* refund_objective gives back and lowers the spend meter to zero at most. *)
LEMMA RefundStep ==
  ASSUME TypeOK, HoldInv, NEW o \in Objectives, NEW k, NEW n \in RefundAmounts,
         RefundObjective(o, k, n)
  PROVE  LedgerStep
<1>1. account \in Accounts /\ n \in Nat
  BY RefundAssumption DEF TypeOK
<1>2. SpendAfterRefund(account, n) \in Nat /\ account.available + n \in Int
  BY <1>1 DEF SpendAfterRefund, Accounts
<1>3. account' \in Accounts
  BY <1>1, <1>2 DEF RefundObjective, Accounts
<1>4. \A e \in ledger' : e.amount \in Int
  <2>1. Entry(<<"client", k>>, "refund", n, o).amount \in Int
    BY <1>1 DEF Entry
  <2> QED
    BY <2>1, InsertType DEF RefundObjective, TypeOK
<1>5. Quiet
  BY <1>1 DEF RefundObjective, Quiet, Accounts
<1> QED
  BY <1>3, <1>4, <1>5 DEF RefundObjective, LedgerStep, TypeOK, HoldInv

(* add_credits.                                                            *)
LEMMA AddCreditsStep ==
  ASSUME TypeOK, HoldInv, NEW k, NEW n \in GrantAmounts, AddCredits(k, n)
  PROVE  LedgerStep
<1>1. OpenedAccount \in Accounts /\ n \in Nat
  BY Opened, RefundAssumption
<1>2. CASE account' = OpenedAccount /\ ledger' = OpenedLedger
  BY <1>2, Opened DEF AddCredits, LedgerStep, Quiet, TypeOK, HoldInv
<1>3. CASE /\ account' = [OpenedAccount EXCEPT !.available = @ + n]
           /\ ledger' = InsertLedger(OpenedLedger, Entry(<<"client", k>>, "topup", n, Null))
  <2>1. account' \in Accounts
    BY <1>1, <1>3 DEF Accounts
  <2>2. Entry(<<"client", k>>, "topup", n, Null).amount \in Int
    BY <1>1 DEF Entry
  <2>3. \A e \in ledger' : e.amount \in Int
    BY <1>3, <2>2, Opened, InsertType
  <2>4. Quiet
    BY <1>1, <1>3, Opened DEF AddCredits, Quiet, Accounts
  <2> QED
    BY <2>1, <2>3, <2>4 DEF AddCredits, LedgerStep, TypeOK, HoldInv
<1> QED
  BY <1>2, <1>3 DEF AddCredits
-----------------------------------------------------------------------------
(* Webhooks.  A webhook leaves the holds alone and keeps the types; what   *)
(* it does to the account is said separately.                              *)
WebhookStep == TypeOK' /\ HoldInv' /\ reservations' = reservations

(* What Record does.                                                       *)
LEMMA Recorded ==
  ASSUME NEW e \in StripeEvents, Record(e), processed \subseteq StripeEvents
  PROVE  /\ e \notin processed
         /\ processed' = processed \cup {e}
         /\ processed' \subseteq StripeEvents
         /\ reservations' = reservations /\ sessions' = sessions /\ now' = now
BY DEF Record

(* An event older than the account is ignored: the newest event is still   *)
(* the one the account reflects.                                           *)
LEMMA IgnoredKeeps ==
  ASSUME TypeOK, ClockInv, NewestInv, NEW e \in StripeEvents, e.type # "checkout.paid",
         processed' = processed \cup {e}, e \notin processed,
         Stale(account, e),
         account.open => account'.open,
         account'.plan = account.plan, account'.status = account.status,
         account'.subscription = account.subscription, account'.grace = account.grace,
         account'.eventCreated = account.eventCreated
  PROVE  ClockInv' /\ NewestInv'
<1>1. Moving' = Moving \cup {e}
  BY DEF Moving
<1>2. ClockInv'
  BY <1>1 DEF ClockInv
<1>3. PICK f \in Moving : f.created = account.eventCreated
  BY DEF ClockInv, Stale
<1>4. f \in Moving' \ {e} /\ f.created \in Nat /\ e.created \in Nat /\ f.created > e.created
  <2>1. f \in processed /\ f \in StripeEvents
    BY <1>3 DEF Moving, TypeOK
  <2>2. f.created \in Nat /\ e.created \in Nat
    BY <2>1, EventAssumption
  <2> QED
    BY <1>1, <1>3, <2>1, <2>2 DEF Stale
<1>5. ASSUME NEW d \in ProviderEvents', Newest(d)'
      PROVE  account'.open /\ account'.eventCreated = d.created /\ Reflects(d)'
  <2>1. d # e
    BY <1>4, <1>5 DEF Newest
  <2>2. d \in ProviderEvents /\ Newest(d)
    BY <1>1, <1>5, <2>1 DEF ProviderEvents, Newest
  <2>3. account.open /\ account.eventCreated = d.created /\ Reflects(d)
    BY <2>2 DEF NewestInv
  <2>4. Reflects(d)'
    BY <2>3 DEF Reflects
  <2> QED
    BY <2>3, <2>4
<1> QED
  BY <1>2, <1>5 DEF NewestInv

(* An applied event moves the account's event time to its own; if it is    *)
(* the newest, the account reflects it, and an older one was never newest. *)
LEMMA AppliedKeeps ==
  ASSUME TypeOK, ClockInv, NewestInv, NEW e \in StripeEvents, e.type # "checkout.paid",
         processed' = processed \cup {e}, e \notin processed,
         ~Stale(account, e),
         account'.open, account'.eventCreated = e.created, Reflects(e)'
  PROVE  ClockInv' /\ NewestInv'
<1>1. Moving' = Moving \cup {e}
  BY DEF Moving
<1>2. ClockInv'
  BY <1>1 DEF ClockInv
<1>3. ASSUME NEW d \in ProviderEvents', Newest(d)', d # e
      PROVE  FALSE
  <2>1. d \in ProviderEvents /\ Newest(d)
    BY <1>1, <1>3 DEF ProviderEvents, Newest
  <2>2. account.eventCreated = d.created
    BY <2>1 DEF NewestInv
  <2>3. e.created < d.created
    BY <1>1, <1>3 DEF Newest
  <2>4. d.created \in Nat \ {0} /\ e.created \in Nat
    BY <2>1, EventAssumption DEF ProviderEvents, TypeOK
  <2> QED
    BY <2>2, <2>3, <2>4 DEF Stale
<1> QED
  BY <1>2, <1>3 DEF NewestInv

(* A paid credit pack tops up and is no provider event.                    *)
LEMMA PackPaidStep ==
  ASSUME IInv, NEW e \in StripeEvents, PackPaid(e)
  PROVE  WebhookStep /\ ClockInv' /\ NewestInv' /\ account'.grace = account.grace
<1>1. OpenedAccount \in Accounts /\ PackCredits \in Nat
  BY Opened, CatalogAssumption DEF IInv
<1>2. account' = [OpenedAccount EXCEPT !.available = @ + PackCredits]
  BY DEF PackPaid
<1>3. account' \in Accounts
  BY <1>1, <1>2 DEF Accounts
<1>4. \A r \in ledger' : r.amount \in Int
  <2>1. Entry(<<"stripe", e.id>>, "topup", PackCredits, Null).amount \in Int
    BY <1>1 DEF Entry
  <2> QED
    BY <2>1, Opened, InsertType DEF PackPaid, IInv
<1>5. /\ account'.open /\ account'.plan = account.plan /\ account'.status = account.status
      /\ account'.subscription = account.subscription /\ account'.grace = account.grace
      /\ account'.eventCreated = account.eventCreated
  BY <1>1, <1>2, Opened DEF Accounts, IInv
<1>6. /\ processed' = processed \cup {e} /\ processed' \subseteq StripeEvents
      /\ reservations' = reservations /\ sessions' = sessions /\ now' = now
  BY Recorded DEF PackPaid, IInv, TypeOK
<1>7. Moving' = Moving /\ ProviderEvents' = ProviderEvents
  BY <1>6 DEF PackPaid, Moving, ProviderEvents, SubscriptionTypes, InvoiceTypes
<1>8. ClockInv' /\ NewestInv'
  BY <1>5, <1>7 DEF IInv, ClockInv, NewestInv, Newest, Reflects
<1>9. WebhookStep
  BY <1>3, <1>4, <1>6 DEF WebhookStep, IInv, TypeOK, HoldInv
<1> QED
  BY <1>5, <1>8, <1>9

(* A grace end is a time, never in the past of the clock's start.          *)
LEMMA GraceEndType ==
  ASSUME NEW a \in Accounts, NEW p \in DOMAIN Catalog, now \in Nat
  PROVE  GraceEnd(a, p) \in Nat /\ (a.grace # -1 => GraceEnd(a, p) = a.grace)
BY CatalogAssumption DEF GraceEnd, Accounts

(* customer.subscription.updated and deleted.                              *)
LEMMA SubscriptionStep ==
  ASSUME IInv, NEW e \in StripeEvents, Subscription(e)
  PROVE  /\ WebhookStep /\ ClockInv' /\ NewestInv'
         /\ account.grace # -1 /\ account'.grace # -1 => account'.grace = account.grace
<1> DEFINE a == OpenedAccount
<1>1. /\ a \in Accounts /\ a.open /\ a.plan = account.plan /\ a.status = account.status
      /\ a.subscription = account.subscription /\ a.grace = account.grace
      /\ a.eventCreated = account.eventCreated
      /\ \A r \in ledger' : r.amount \in Int
  BY Opened DEF Subscription, IInv
<1>2. /\ processed' = processed \cup {e} /\ e \notin processed /\ processed' \subseteq StripeEvents
      /\ reservations' = reservations /\ sessions' = sessions /\ now' = now
  BY Recorded DEF Subscription, IInv, TypeOK
<1>3. /\ e.type \in SubscriptionTypes /\ e.type # "checkout.paid"
      /\ e.plan \in DOMAIN Catalog /\ e.status \in Statuses /\ e.created \in Nat \ {0}
  BY EventAssumption DEF Subscription, SubscriptionTypes
<1>4. now \in Nat
  BY DEF IInv, TypeOK
<1>5. CASE Stale(a, e)
  <2>1. account' = a
    BY <1>5 DEF Subscription
  <2>2. Stale(account, e)
    BY <1>1, <1>5 DEF Stale
  <2>3. ClockInv' /\ NewestInv'
    BY <1>1, <1>2, <1>3, <2>1, <2>2, IgnoredKeeps DEF IInv
  <2>4. WebhookStep
    BY <1>1, <1>2, <2>1 DEF WebhookStep, IInv, TypeOK, HoldInv
  <2> QED
    BY <1>1, <2>1, <2>3, <2>4
<1>6. CASE ~Stale(a, e)
  <2> DEFINE grace == IF ~Ends(e) /\ e.status \in {"past_due", "unpaid"}
                      THEN GraceEnd(a, e.plan) ELSE -1
             row == [a EXCEPT !.plan = IF Ends(e) THEN DefaultPlan ELSE e.plan,
                              !.status = IF Ends(e) THEN "active" ELSE e.status,
                              !.subscription = IF Ends(e) THEN Null ELSE e.subscription,
                              !.grace = grace,
                              !.eventCreated = e.created]
  <2>1. account' = row
    BY <1>6, Zenon DEF Subscription
  <2>2. grace \in Nat \cup {-1} /\ (a.grace # -1 => grace \in {-1, a.grace})
    BY <1>1, <1>3, <1>4, GraceEndType
  <2>3. /\ (IF Ends(e) THEN DefaultPlan ELSE e.plan) \in DOMAIN Catalog
        /\ (IF Ends(e) THEN "active" ELSE e.status) \in Statuses
        /\ (IF Ends(e) THEN Null ELSE e.subscription) \in {Null} \cup {f.subscription : f \in StripeEvents}
    BY <1>3, CatalogAssumption DEF Statuses
  <2> HIDE DEF grace
  <2>4. row \in Accounts
    BY <1>1, <1>3, <2>2, <2>3 DEF Accounts
  <2>5. /\ row.open /\ row.eventCreated = e.created /\ row.grace = grace
        /\ row.plan = IF Ends(e) THEN DefaultPlan ELSE e.plan
        /\ row.status = IF Ends(e) THEN "active" ELSE e.status
        /\ row.subscription = IF Ends(e) THEN Null ELSE e.subscription
    BY <1>1 DEF Accounts
  <2> HIDE DEF row
  <2>6. Reflects(e)'
    BY <1>3, <2>1, <2>5 DEF Reflects, SubscriptionTypes, Ends
  <2>7. ~Stale(account, e)
    BY <1>1, <1>6 DEF Stale
  <2>8. ClockInv' /\ NewestInv'
    BY <1>2, <1>3, <2>1, <2>5, <2>6, <2>7, AppliedKeeps DEF IInv
  <2>9. WebhookStep
    BY <1>1, <1>2, <2>1, <2>4 DEF WebhookStep, IInv, TypeOK, HoldInv
  <2> QED
    BY <1>1, <2>1, <2>2, <2>5, <2>8, <2>9
<1> QED
  BY <1>5, <1>6

(* invoice.paid and invoice.payment_failed.                                *)
LEMMA InvoiceStep ==
  ASSUME IInv, NEW e \in StripeEvents, Invoice(e)
  PROVE  /\ WebhookStep /\ ClockInv' /\ NewestInv'
         /\ account.grace # -1 /\ account'.grace # -1 => account'.grace = account.grace
<1>1. account \in Accounts /\ account.open /\ now \in Nat /\ \A r \in ledger : r.amount \in Int
  BY DEF Invoice, IInv, TypeOK
<1>2. /\ processed' = processed \cup {e} /\ e \notin processed /\ processed' \subseteq StripeEvents
      /\ reservations' = reservations /\ sessions' = sessions /\ now' = now
  BY Recorded DEF Invoice, IInv, TypeOK
<1>3. /\ e.type \in InvoiceTypes /\ e.type # "checkout.paid"
      /\ e.created \in Nat \ {0} /\ e.start \in Nat
  BY EventAssumption DEF Invoice, InvoiceTypes
<1>4. CASE InvoiceIgnored(e)
  <2>1. ClockInv' /\ NewestInv'
    BY <1>2, <1>3, <1>4, IgnoredKeeps DEF IInv, InvoiceIgnored
  <2>2. WebhookStep
    BY <1>2, <1>4 DEF InvoiceIgnored, WebhookStep, IInv, TypeOK, HoldInv
  <2> QED
    BY <1>4, <2>1, <2>2 DEF InvoiceIgnored
<1>5. CASE InvoiceFailed(e)
  <2>1. account.plan \in DOMAIN Catalog
    BY <1>1 DEF Accounts
  <2>2. GraceEnd(account, account.plan) \in Nat
    BY <1>1, <2>1, GraceEndType
  <2>3. account' = [account EXCEPT !.status = "past_due", !.grace = GraceEnd(account, account.plan),
                                   !.eventCreated = e.created]
    BY <1>5 DEF InvoiceFailed
  <2>4. account' \in Accounts
    BY <1>1, <1>3, <2>2, <2>3 DEF Accounts, Statuses
  <2>5. /\ account'.open /\ account'.eventCreated = e.created /\ account'.status = "past_due"
        /\ account'.grace = GraceEnd(account, account.plan)
    BY <1>1, <2>3 DEF Accounts
  <2>6. Reflects(e)'
    BY <1>5, <2>2, <2>5 DEF Reflects, InvoiceFailed, SubscriptionTypes
  <2>7. ClockInv' /\ NewestInv'
    BY <1>2, <1>3, <1>5, <2>5, <2>6, AppliedKeeps DEF IInv, InvoiceFailed
  <2>8. WebhookStep
    BY <1>2, <1>5, <2>4 DEF InvoiceFailed, WebhookStep, IInv, TypeOK, HoldInv
  <2> QED
    BY <1>1, <2>1, <2>5, <2>7, <2>8, GraceEndType
<1>6. CASE InvoicePaid(e)
  <2>1. IncludedGrant(e).amount \in Nat /\ Granted(e) \in Nat
    BY <1>1, CatalogAssumption DEF IncludedGrant, Entry, Granted, Accounts
  <2>2. account' = [account EXCEPT
          !.status = "active", !.grace = -1, !.period = <<"stripe", e.start>>, !.spend = 0,
          !.available = @ + Granted(e), !.eventCreated = e.created]
    BY <1>6 DEF InvoicePaid
  <2>3. account.available + Granted(e) \in Int
    BY <1>1, <2>1 DEF Accounts
  <2>4. account' \in Accounts
    BY <1>1, <1>3, <2>2, <2>3 DEF Accounts, Statuses
  <2>5. /\ account'.open /\ account'.eventCreated = e.created /\ account'.status = "active"
        /\ account'.grace = -1
    BY <1>1, <2>2 DEF Accounts
  <2>6. \A r \in ledger' : r.amount \in Int
    BY <1>1, <1>6, <2>1, InsertType DEF InvoicePaid
  <2>7. Reflects(e)'
    BY <1>6, <2>5 DEF Reflects, InvoicePaid, SubscriptionTypes
  <2>8. ClockInv' /\ NewestInv'
    BY <1>2, <1>3, <1>6, <2>5, <2>7, AppliedKeeps DEF IInv, InvoicePaid
  <2>9. WebhookStep
    BY <1>2, <2>4, <2>6 DEF WebhookStep, IInv, TypeOK, HoldInv
  <2> QED
    BY <2>5, <2>8, <2>9
<1> QED
  BY <1>4, <1>5, <1>6 DEF Invoice

(* A legacy checkout applies only to an account without a real status, so  *)
(* it never overwrites what a newer subscription or invoice event said.    *)
LEMMA LegacyCheckoutKeeps ==
  ASSUME IInv, NEW e \in StripeEvents, e.type = "legacy.checkout",
         processed' = processed \cup {e}, e \notin processed,
         account.open => account.status \in {"none", "pending"},
         account'.open, account'.status = "pending",
         account'.eventCreated = Latest(IF account.open THEN account.eventCreated ELSE 0, e.created)
  PROVE  ClockInv' /\ NewestInv'
<1>1. Moving' = Moving \cup {e} /\ e \in Moving'
  BY DEF Moving
<1>2. ProviderEvents' = ProviderEvents
  BY DEF ProviderEvents, SubscriptionTypes, InvoiceTypes
<1>3. ClockInv'
  BY <1>1 DEF IInv, ClockInv, Latest
<1>4. ASSUME NEW d \in ProviderEvents, Newest(d)'
      PROVE  account'.open /\ account'.eventCreated = d.created /\ Reflects(d)'
  <2>1. Newest(d) /\ d # e
    BY <1>1, <1>4 DEF Newest, ProviderEvents
  <2>2. account.open /\ account.eventCreated = d.created /\ Reflects(d)
    BY <2>1 DEF IInv, NewestInv
  <2>3. d \in StripeEvents /\ d.created \in Nat /\ e.created \in Nat /\ e.created < d.created
    BY <1>1, <1>4, <2>1, EventAssumption DEF IInv, TypeOK, ProviderEvents, Newest
  <2>4. account'.eventCreated = d.created
    BY <2>2, <2>3 DEF Latest
  <2>5. d.type \in SubscriptionTypes => d.status \notin {"none", "pending"}
    BY <2>3, EventAssumption
  <2>6. d.type = "legacy.subscription"
    <3>1. d.type \in SubscriptionTypes \cup InvoiceTypes \cup {"legacy.subscription"}
      BY DEF ProviderEvents
    <3> QED
      BY <2>2, <2>5, <3>1 DEF Reflects, SubscriptionTypes, InvoiceTypes
  <2>7. Reflects(d)'
    BY <2>6 DEF Reflects, SubscriptionTypes
  <2> QED
    BY <2>4, <2>7
<1> QED
  BY <1>2, <1>3, <1>4 DEF NewestInv

(* accept_webhook.                                                         *)
LEMMA LegacyWebhookStep ==
  ASSUME IInv, NEW e \in StripeEvents, LegacyWebhook(e)
  PROVE  /\ WebhookStep /\ ClockInv' /\ NewestInv'
         /\ account.grace # -1 /\ account'.grace # -1 => account'.grace = account.grace
<1> DEFINE row == IF account.open THEN account ELSE [NoAccount EXCEPT !.open = TRUE, !.plan = "free"]
<1>1. account \in Accounts /\ ledger' = ledger
  BY DEF LegacyWebhook, IInv, TypeOK
<1>2. /\ processed' = processed \cup {e} /\ e \notin processed /\ processed' \subseteq StripeEvents
      /\ reservations' = reservations /\ sessions' = sessions /\ now' = now
  BY Recorded DEF LegacyWebhook, IInv, TypeOK
<1>3. /\ e.type \in LegacyTypes /\ e.type # "checkout.paid"
      /\ e.created \in Nat \ {0} /\ e.status \in Statuses
  BY EventAssumption DEF LegacyWebhook, LegacyTypes
<1>4. /\ row \in Accounts /\ row.open
      /\ row.eventCreated = IF account.open THEN account.eventCreated ELSE 0
      /\ row.grace = IF account.open THEN account.grace ELSE -1
  <2>1. CASE account.open
    BY <1>1, <2>1
  <2>2. CASE ~account.open
    <3>1. row = [NoAccount EXCEPT !.open = TRUE, !.plan = "free"]
      BY <2>2
    <3>2. NoAccount \in Accounts
      BY CatalogAssumption DEF NoAccount, NoPeriod, Accounts, Statuses
    <3>3. row \in Accounts /\ row.open
      BY <3>1, <3>2, CatalogAssumption DEF Accounts
    <3>4. row.eventCreated = 0 /\ row.grace = -1
      BY <3>1 DEF NoAccount
    <3> QED
      BY <2>2, <3>3, <3>4
  <2> QED
    BY <2>1, <2>2
<1>5. CASE ~LegacyApplies(e)
  <2>1. account' = account
    BY <1>5 DEF LegacyWebhook
  <2>2. WebhookStep
    BY <1>1, <1>2, <2>1 DEF WebhookStep, IInv, TypeOK, HoldInv
  <2>3. CASE e.type = "legacy.subscription"
    <3>1. Stale(account, e)
      BY <1>5, <2>3 DEF LegacyApplies
    <3> QED
      BY <1>2, <1>3, <2>1, <2>2, <3>1, IgnoredKeeps DEF IInv
  <2>4. CASE e.type = "legacy.checkout"
    <3>1. Moving' = Moving \cup {e} /\ ProviderEvents' = ProviderEvents
      BY <1>2, <2>4 DEF Moving, ProviderEvents, SubscriptionTypes, InvoiceTypes
    <3>2. \A d \in ProviderEvents : Newest(d)' => Newest(d)
      BY <3>1 DEF Newest
    <3>3. ClockInv' /\ NewestInv'
      BY <2>1, <3>1, <3>2 DEF IInv, ClockInv, NewestInv, Reflects
    <3> QED
      BY <2>1, <2>2, <3>3
  <2> QED
    BY <1>3, <2>3, <2>4 DEF LegacyTypes
<1>6. CASE LegacyApplies(e)
  <2> DEFINE sub == IF e.subscription = Null THEN row.subscription ELSE e.subscription
             status == IF e.type = "legacy.checkout" THEN "pending" ELSE e.status
             time == Latest(row.eventCreated, e.created)
  <2>1. account' = [row EXCEPT !.customer = TRUE, !.subscription = sub, !.status = status,
                               !.eventCreated = time]
    BY <1>6 DEF LegacyWebhook
  <2>2. sub \in {Null} \cup {f.subscription : f \in StripeEvents}
    BY <1>4 DEF Accounts
  <2>3. status \in Statuses /\ time \in Nat
    BY <1>3, <1>4 DEF Statuses, Latest, Accounts
  <2> HIDE DEF row, sub, time
  <2>4. account' \in Accounts
    BY <1>4, <2>1, <2>2, <2>3 DEF Accounts
  <2>5. account'.open /\ account'.status = status /\ account'.eventCreated = time /\ account'.grace = row.grace
    BY <1>4, <2>1 DEF Accounts
  <2>6. WebhookStep
    BY <1>1, <1>2, <2>4 DEF WebhookStep, IInv, TypeOK, HoldInv
  <2>7. account.grace # -1 /\ account'.grace # -1 => account'.grace = account.grace
    BY <1>4, <2>5
  <2>8. CASE e.type = "legacy.subscription"
    <3>1. ~Stale(account, e)
      BY <1>6, <2>8 DEF LegacyApplies
    <3>2. time = e.created
      BY <1>1, <1>3, <1>4, <3>1 DEF time, Latest, Stale, Accounts
    <3>3. Reflects(e)'
      BY <2>5, <2>8 DEF Reflects, SubscriptionTypes
    <3> QED
      BY <1>2, <1>3, <2>5, <2>6, <2>7, <3>1, <3>2, <3>3, AppliedKeeps DEF IInv
  <2>9. CASE e.type = "legacy.checkout"
    <3>1. account.open => account.status \in {"none", "pending"}
      BY <1>6, <2>9 DEF LegacyApplies
    <3>2. account'.eventCreated = Latest(IF account.open THEN account.eventCreated ELSE 0, e.created)
      BY <1>4, <2>5 DEF time
    <3>3. account'.status = "pending"
      BY <2>5, <2>9
    <3> QED
      BY <1>2, <2>5, <2>6, <2>7, <2>9, <3>1, <3>2, <3>3, LegacyCheckoutKeeps
  <2> QED
    BY <1>3, <2>8, <2>9 DEF LegacyTypes
<1> QED
  BY <1>5, <1>6
-----------------------------------------------------------------------------
(* What every step does: the invariant, and the grace period.              *)
GraceStep == account.grace # -1 /\ account'.grace # -1 => account'.grace = account.grace

(* An operation of the ledger keeps the invariant and the grace period.    *)
LEMMA LedgerKeeps ==
  ASSUME IInv, LedgerStep
  PROVE  IInv' /\ GraceStep
BY QuietKeeps DEF IInv, LedgerStep, GraceStep, Quiet

(* A webhook keeps the invariant and never extends a grace period.         *)
LEMMA WebhookKeeps ==
  ASSUME IInv, NEW e \in StripeEvents, Webhook(e)
  PROVE  IInv' /\ GraceStep /\ reservations' = reservations
<1>1. CASE PackPaid(e)
  BY <1>1, PackPaidStep DEF IInv, WebhookStep, GraceStep
<1>2. CASE Subscription(e)
  BY <1>2, SubscriptionStep DEF IInv, WebhookStep, GraceStep
<1>3. CASE Invoice(e)
  BY <1>3, InvoiceStep DEF IInv, WebhookStep, GraceStep
<1>4. CASE LegacyWebhook(e)
  BY <1>4, LegacyWebhookStep DEF IInv, WebhookStep, GraceStep
<1> QED
  BY <1>1, <1>2, <1>3, <1>4 DEF Webhook

(* Every step keeps the invariant and never extends a grace period.        *)
LEMMA NextKeeps ==
  ASSUME IInv, [Next]_vars
  PROVE  IInv' /\ GraceStep
<1> USE DEF IInv
<1>1. CASE Summary
  BY <1>1, SummaryStep, LedgerKeeps
<1>2. CASE BindCustomer
  BY <1>2, BindCustomerStep, LedgerKeeps
<1>3. CASE Tick
  BY <1>3, TickStep, LedgerKeeps
<1>4. ASSUME NEW s \in Sessions, Checkout(s) PROVE IInv' /\ GraceStep
  BY <1>4, CheckoutStep, LedgerKeeps
<1>5. ASSUME NEW o \in Objectives, ReserveObjective(o) PROVE IInv' /\ GraceStep
  BY <1>5, ReserveStep, LedgerKeeps
<1>6. ASSUME NEW o \in Objectives, ReserveAgain(o) PROVE IInv' /\ GraceStep
  BY <1>6, ReserveAgainStep, LedgerKeeps
<1>7. ASSUME NEW o \in Objectives, ReleaseObjective(o) PROVE IInv' /\ GraceStep
  BY <1>7, ReleaseStep, LedgerKeeps
<1>8. ASSUME NEW o \in Objectives, NEW u \in Usages, NEW ev \in EventIds, SettleObjective(o, u, <<o, ev>>)
      PROVE  IInv' /\ GraceStep
  BY <1>8, SettleStep, LedgerKeeps
<1>9. ASSUME NEW o \in Objectives, NEW k \in ClientKeys, NEW n \in RefundAmounts, RefundObjective(o, k, n)
      PROVE  IInv' /\ GraceStep
  BY <1>9, RefundStep, LedgerKeeps
<1>10. ASSUME NEW k \in ClientKeys, NEW n \in GrantAmounts, AddCredits(k, n) PROVE IInv' /\ GraceStep
  BY <1>10, AddCreditsStep, LedgerKeeps
<1>11. ASSUME NEW e \in StripeEvents, Webhook(e) PROVE IInv' /\ GraceStep
  BY <1>11, WebhookKeeps
<1>12. CASE UNCHANGED vars
  <2>1. LedgerStep
    BY <1>12 DEF vars, LedgerStep, Quiet, TypeOK, HoldInv
  <2> QED
    BY <2>1, LedgerKeeps
<1> QED
  BY <1>1, <1>2, <1>3, <1>4, <1>5, <1>6, <1>7, <1>8, <1>9, <1>10, <1>11, <1>12 DEF Next

(* The invariant holds before the account is opened.                       *)
LEMMA InitInv == Init => IInv
<1> SUFFICES ASSUME Init PROVE IInv
  OBVIOUS
<1>1. account \in Accounts
  BY CatalogAssumption DEF Init, NoAccount, NoPeriod, Accounts, Statuses
<1>2. TypeOK /\ HoldInv
  BY <1>1 DEF Init, TypeOK, HoldInv, NoReservation, Reservations
<1>3. ClockInv /\ NewestInv
  BY DEF Init, NoAccount, ClockInv, NewestInv, ProviderEvents
<1> QED
  BY <1>2, <1>3 DEF IInv

(* Every reachable state of the account satisfies the inductive invariant, *)
(* for every catalog, rate card and webhook stream.                        *)
THEOREM BillingInvariance == Spec => []IInv
<1>1. IInv /\ [Next]_vars => IInv'
  BY NextKeeps
<1> QED
  BY InitInv, <1>1, PTL DEF Spec

(* Rows keep their types: the spend meter is never negative, a settled     *)
(* cost is a natural number, the plan is always one of the catalog.        *)
THEOREM BillingTypes == Spec => []TypeOK
<1>1. IInv => TypeOK
  BY DEF IInv
<1> QED
  BY BillingInvariance, <1>1, PTL

(* Whatever order Stripe delivers in and however often, through both       *)
(* webhook endpoints, the account reflects the newest processed event.     *)
THEOREM NewestEventWins == Spec => []AccountReflectsNewestEvent
<1>1. IInv => AccountReflectsNewestEvent
  <2> SUFFICES ASSUME IInv, NEW e \in ProviderEvents,
                      \A f \in processed \ {e} : f.type # "checkout.paid" => f.created < e.created
               PROVE  Reflects(e)
    BY DEF AccountReflectsNewestEvent, Reflects
  <2>1. Newest(e)
    BY DEF Newest, Moving
  <2> QED
    BY <2>1 DEF IInv, NewestInv
<1> QED
  BY BillingInvariance, <1>1, PTL

(* No dunning retry, subscription update or legacy event moves the end of  *)
(* a grace period that is running.                                         *)
THEOREM GraceIsFixed == Spec => GraceNeverExtended
<1>1. IInv /\ [Next]_vars => [account.grace # -1 /\ account'.grace # -1 => account'.grace = account.grace]_vars
  BY NextKeeps DEF GraceStep
<1> QED
  BY BillingInvariance, <1>1, PTL DEF Spec, GraceNeverExtended
-----------------------------------------------------------------------------
(* Holds.  A step that leaves the reservations alone is a stutter.         *)
LEMMA HoldStutter ==
  ASSUME reservations' = reservations
  PROVE  UNCHANGED HoldSpec!vars
BY DEF HoldSpec!vars, Hold, Charge

(* reserve_objective takes the one hold of its objective.                  *)
LEMMA ReserveRefines ==
  ASSUME IInv, NEW o \in Objectives, ReserveObjective(o)
  PROVE  HoldSpec!Next
<1>1. reservations \in [Objectives -> Reservations] /\ reservations[o].status = "none"
  BY DEF IInv, TypeOK, ReserveObjective
<1>2. PICK n : reservations' = [reservations EXCEPT ![o] =
                  [NoReservation EXCEPT !.status = "reserved", !.estimate = n]]
  BY DEF ReserveObjective
<1>3. reservations'[o].status = "reserved" /\ reservations'[o].actual = 0
  BY <1>1, <1>2 DEF NoReservation
<1>4. \A p \in Objectives \ {o} : reservations'[p] = reservations[p]
  BY <1>1, <1>2
<1>5. reservations[o].actual = 0
  BY <1>1 DEF IInv, HoldInv
<1>6. Hold' = [Hold EXCEPT ![o] = "reserved"]
  BY <1>3, <1>4 DEF Hold
<1>7. Charge' = Charge
  BY <1>3, <1>4, <1>5 DEF Charge
<1>8. HoldSpec!Reserve(o)
  BY <1>1, <1>6, <1>7 DEF HoldSpec!Reserve, Hold
<1> QED
  BY <1>8 DEF HoldSpec!Next

(* release_objective ends the hold without a charge.                       *)
LEMMA ReleaseRefines ==
  ASSUME IInv, NEW o \in Objectives, ReleaseObjective(o)
  PROVE  HoldSpec!Next
<1>1. reservations \in [Objectives -> Reservations] /\ reservations[o].status = "reserved"
  BY DEF IInv, TypeOK, ReleaseObjective
<1>2. reservations' = [reservations EXCEPT ![o].status = "released"]
  BY DEF ReleaseObjective
<1>3. reservations'[o].status = "released" /\ reservations'[o].actual = reservations[o].actual
  BY <1>1, <1>2 DEF Reservations
<1>4. \A p \in Objectives \ {o} : reservations'[p] = reservations[p]
  BY <1>1, <1>2
<1>5. Hold' = [Hold EXCEPT ![o] = "released"] /\ Charge' = Charge
  BY <1>3, <1>4 DEF Hold, Charge
<1>6. HoldSpec!Release(o)
  BY <1>1, <1>5 DEF HoldSpec!Release, Hold
<1> QED
  BY <1>6 DEF HoldSpec!Next

(* settle_objective ends the hold with its one charge.                     *)
LEMMA SettleRefines ==
  ASSUME IInv, NEW o \in Objectives, NEW u \in Usages, NEW ev, SettleObjective(o, u, ev)
  PROVE  HoldSpec!Next
<1>1. reservations \in [Objectives -> Reservations] /\ reservations[o].status = "reserved"
  BY DEF IInv, TypeOK, SettleObjective, Settleable
<1>2. reservations' = [reservations EXCEPT ![o] =
                         [@ EXCEPT !.status = "settled", !.actual = MeasuredCost(u)]]
  BY DEF SettleObjective
<1>3. MeasuredCost(u) \in Nat
  BY SettleStep DEF IInv
<1>4. reservations'[o].status = "settled" /\ reservations'[o].actual = MeasuredCost(u)
  BY <1>1, <1>2 DEF Reservations
<1>5. \A p \in Objectives \ {o} : reservations'[p] = reservations[p]
  BY <1>1, <1>2
<1>6. Hold' = [Hold EXCEPT ![o] = "settled"]
  BY <1>4, <1>5 DEF Hold
<1>7. Charge' = [Charge EXCEPT ![o] = MeasuredCost(u)] /\ Charge'[o] = MeasuredCost(u)
  BY <1>4, <1>5 DEF Charge
<1>8. HoldSpec!Settle(o)
  BY <1>1, <1>3, <1>6, <1>7 DEF HoldSpec!Settle, Hold
<1> QED
  BY <1>8 DEF HoldSpec!Next

(* The credit ledger implements CreditHold: at most one hold is ever taken *)
(* for an objective and it ends at most once, by release or by a charge    *)
(* that no retry, refund or webhook changes afterwards.                    *)
THEOREM LedgerImplementsHold == Spec => ImplementsCreditHold
<1>1. Init => HoldSpec!Init
  BY DEF Init, HoldSpec!Init, Hold, Charge, NoReservation
<1>2. IInv /\ [Next]_vars => [HoldSpec!Next]_(HoldSpec!vars)
  <2> SUFFICES ASSUME IInv, [Next]_vars PROVE [HoldSpec!Next]_(HoldSpec!vars)
    OBVIOUS
  <2>1. ASSUME NEW o \in Objectives, ReserveObjective(o) PROVE HoldSpec!Next
    BY <2>1, ReserveRefines
  <2>2. ASSUME NEW o \in Objectives, ReleaseObjective(o) PROVE HoldSpec!Next
    BY <2>2, ReleaseRefines
  <2>3. ASSUME NEW o \in Objectives, NEW u \in Usages, NEW ev \in EventIds, SettleObjective(o, u, <<o, ev>>)
        PROVE  HoldSpec!Next
    BY <2>3, SettleRefines
  <2>4. CASE Summary \/ BindCustomer \/ Tick \/ UNCHANGED vars
    <3>1. reservations' = reservations
      BY <2>4 DEF Summary, BindCustomer, Tick, vars
    <3> QED
      BY <3>1, HoldStutter
  <2>5. ASSUME NEW s \in Sessions, Checkout(s) PROVE UNCHANGED HoldSpec!vars
    BY <2>5, HoldStutter DEF Checkout
  <2>6. ASSUME NEW o \in Objectives, ReserveAgain(o) PROVE UNCHANGED HoldSpec!vars
    BY <2>6, HoldStutter DEF ReserveAgain
  <2>7. ASSUME NEW o \in Objectives, NEW k \in ClientKeys, NEW n \in RefundAmounts, RefundObjective(o, k, n)
        PROVE  UNCHANGED HoldSpec!vars
    BY <2>7, HoldStutter DEF RefundObjective
  <2>8. ASSUME NEW k \in ClientKeys, NEW n \in GrantAmounts, AddCredits(k, n) PROVE UNCHANGED HoldSpec!vars
    BY <2>8, HoldStutter DEF AddCredits
  <2>9. ASSUME NEW e \in StripeEvents, Webhook(e) PROVE UNCHANGED HoldSpec!vars
    BY <2>9, HoldStutter, WebhookKeeps
  <2> QED
    BY <2>1, <2>2, <2>3, <2>4, <2>5, <2>6, <2>7, <2>8, <2>9 DEF Next
<1> QED
  BY <1>1, <1>2, BillingInvariance, PTL DEF Spec, ImplementsCreditHold, HoldSpec!Spec
-----------------------------------------------------------------------------
(* The books: what the balance, the held amount and the entries of every   *)
(* objective have to do with one another, as a predicate of the available  *)
(* and reserved amounts a and h, the ledger l, the reservations r and the  *)
(* processed events p.                                                     *)
In(r, status) == {o \in Objectives : r[o].status = status}
OfObjective(l, o) == {e \in l : e.objective = o}
RefundsIn(l, o) == {e \in l : e.type = "refund" /\ e.objective = o}
Excess(q) == IF q.actual > q.estimate THEN q.actual - q.estimate ELSE 0

Sheet(l) == IsFiniteSet(l) /\ \A e \in l : e.amount \in Int
Balanced(a, l) == Sheet(l) /\ a = Total(l)
Held(h, r) == IsFiniteSet(In(r, "reserved")) /\ h = SumFunction([o \in In(r, "reserved") |-> r[o].estimate])
Funded(a, r) == IsFiniteSet(In(r, "settled")) /\ a + SumFunction([o \in In(r, "settled") |-> Excess(r[o])]) >= 0

Nets(l, o, q) ==
  /\ Total(RefundsIn(l, o)) <= q.actual
  /\ q.status # "settled" => RefundsIn(l, o) = {}
  /\ Total(OfObjective(l, o)) = CASE q.status = "reserved" -> -q.estimate
                                  [] q.status = "settled"  -> Total(RefundsIn(l, o)) - q.actual
                                  [] OTHER                 -> 0

(* The idempotency keys in the ledger tell what has been done already.     *)
Keyed(l, o, q) ==
  /\ HasKey(l, <<"reserve", o>>) => q.status # "none"
  /\ HasKey(l, <<"release", o>>) => q.status = "released"
  /\ \A ev \in EventIds : HasKey(l, <<"settle", <<o, ev>>>>) => q.status = "settled"
Paid(l, p) == \A e \in StripeEvents : HasKey(l, <<"stripe", e.id>>) => \E f \in p : f.id = e.id

Books(a, h, l, r, p) ==
  /\ Balanced(a, l) /\ Held(h, r) /\ Funded(a, r) /\ Paid(l, p)
  /\ \A o \in Objectives : Nets(l, o, r[o]) /\ Keyed(l, o, r[o])

BooksInv == Books(account.available, account.reserved, ledger, reservations, processed)
-----------------------------------------------------------------------------
(* A total is an integer, and nothing totals to zero.                      *)
LEMMA TotalInt == ASSUME NEW l, Sheet(l) PROVE Total(l) \in Int
<1> DEFINE f == [e \in l |-> e.amount]
<1>1. DOMAIN f = l /\ \A e \in l : f[e] \in Int
  BY DEF Sheet
<1> HIDE DEF f
<1>2. SumFunctionOnSet(f, l) \in Int
  BY <1>1, SumInt DEF Sheet
<1> QED
  BY <1>1, <1>2 DEF Total, SumFunction, f

LEMMA TotalOfNothing == Total({}) = 0
<1> DEFINE f == [e \in {} |-> e.amount]
<1>1. DOMAIN f = {}
  OBVIOUS
<1> HIDE DEF f
<1>2. SumFunctionOnSet(f, {}) = 0
  BY SumEmpty
<1> QED
  BY <1>1, <1>2 DEF Total, SumFunction, f

(* One entry more.                                                         *)
LEMMA TotalOneMore ==
  ASSUME NEW l, Sheet(l), NEW e, e \notin l, e.amount \in Int
  PROVE  Sheet(l \cup {e}) /\ Total(l \cup {e}) = Total(l) + e.amount
<1> DEFINE f == [x \in l |-> x.amount]
           g == [x \in l \cup {e} |-> x.amount]
<1>1. Sheet(l \cup {e})
  BY FS_AddElement DEF Sheet
<1>2. /\ DOMAIN f = l /\ DOMAIN g = l \cup {e}
      /\ \A x \in l : f[x] = g[x]
      /\ \A x \in l \cup {e} : g[x] \in Int
      /\ g[e] = e.amount
  BY DEF Sheet
<1> HIDE DEF f, g
<1>3. SumFunctionOnSet(g, l \cup {e}) = SumFunctionOnSet(g, l) + g[e]
  BY <1>2, SumAdd DEF Sheet
<1>4. SumFunctionOnSet(f, l) = SumFunctionOnSet(g, l)
  BY <1>2, SumSame DEF Sheet
<1>5. Total(l) = SumFunctionOnSet(f, l) /\ Total(l \cup {e}) = SumFunctionOnSet(g, l \cup {e})
  BY <1>2 DEF Total, SumFunction, f, g
<1> QED
  BY <1>1, <1>2, <1>3, <1>4, <1>5

(* A part of a sheet is one.                                               *)
LEMMA PartSheet == ASSUME NEW l, Sheet(l), NEW m, m \subseteq l PROVE Sheet(m)
<1>1. m \in SUBSET l
  OBVIOUS
<1> QED
  BY <1>1, FS_Subset DEF Sheet

(* _insert_ledger of an entry whose key is new.                            *)
LEMMA Posted ==
  ASSUME NEW l, Sheet(l), NEW e, NEW n \in Int, e.amount = n, ~HasKey(l, e.key)
  PROVE  /\ InsertLedger(l, e) = l \cup {e} /\ e \notin l /\ Sheet(l \cup {e})
         /\ Total(l) \in Int /\ Total(l \cup {e}) = Total(l) + n
<1>1. InsertLedger(l, e) = l \cup {e} /\ e \notin l
  BY DEF InsertLedger, HasKey
<1>2. Sheet(l \cup {e}) /\ Total(l \cup {e}) = Total(l) + n
  BY <1>1, TotalOneMore
<1>3. Total(l) \in Int
  BY TotalInt
<1> QED
  BY <1>1, <1>2, <1>3

LEMMA PostedKeys ==
  ASSUME NEW l, NEW e, NEW k PROVE HasKey(l \cup {e}, k) <=> HasKey(l, k) \/ e.key = k
BY DEF HasKey

(* What an entry adds to the entries of an objective, and to its refunds.  *)
LEMMA PostedObjective ==
  ASSUME NEW l, Sheet(l), NEW e, NEW n \in Int, e.amount = n, ~HasKey(l, e.key), NEW o
  PROVE  /\ Total(OfObjective(l, o)) \in Int
         /\ e.objective = o => Total(OfObjective(l \cup {e}, o)) = Total(OfObjective(l, o)) + n
         /\ e.objective # o => OfObjective(l \cup {e}, o) = OfObjective(l, o)
<1> DEFINE m == OfObjective(l, o)
<1>1. e \notin l
  BY DEF HasKey
<1>2. m \subseteq l /\ OfObjective(l \cup {e}, o) = (IF e.objective = o THEN m \cup {e} ELSE m) /\ e \notin m
  BY <1>1 DEF OfObjective
<1> HIDE DEF m
<1>3. Sheet(m)
  BY <1>2, PartSheet
<1>4. Total(m) \in Int /\ Total(m \cup {e}) = Total(m) + n
  BY <1>2, <1>3, TotalInt, TotalOneMore
<1> QED
  BY <1>2, <1>4 DEF m

LEMMA PostedRefunds ==
  ASSUME NEW l, Sheet(l), NEW e, NEW n \in Int, e.amount = n, ~HasKey(l, e.key), NEW o
  PROVE  /\ Total(RefundsIn(l, o)) \in Int
         /\ e.type = "refund" /\ e.objective = o => Total(RefundsIn(l \cup {e}, o)) = Total(RefundsIn(l, o)) + n
         /\ ~(e.type = "refund" /\ e.objective = o) => RefundsIn(l \cup {e}, o) = RefundsIn(l, o)
<1> DEFINE m == RefundsIn(l, o)
<1>1. e \notin l
  BY DEF HasKey
<1>2. /\ m \subseteq l /\ e \notin m
      /\ RefundsIn(l \cup {e}, o) = (IF e.type = "refund" /\ e.objective = o THEN m \cup {e} ELSE m)
  BY <1>1 DEF RefundsIn
<1> HIDE DEF m
<1>3. Sheet(m)
  BY <1>2, PartSheet
<1>4. Total(m) \in Int /\ Total(m \cup {e}) = Total(m) + n
  BY <1>2, <1>3, TotalInt, TotalOneMore
<1> QED
  BY <1>2, <1>4 DEF m

(* One reservation changes.  What is held follows it into and out of the   *)
(* open ones; estimates and costs of the others stay.                      *)
LEMMA HoldOpens ==
  ASSUME NEW r \in [Objectives -> Reservations], NEW h, Held(h, r), NEW o \in Objectives, NEW q \in Reservations,
         r[o].status # "reserved", q.status = "reserved"
  PROVE  Held(h + q.estimate, [r EXCEPT ![o] = q])
<1> DEFINE s == [r EXCEPT ![o] = q]
           f == [x \in In(r, "reserved") |-> r[x].estimate]
           g == [x \in In(s, "reserved") |-> s[x].estimate]
<1>1. In(s, "reserved") = In(r, "reserved") \cup {o} /\ o \notin In(r, "reserved")
  BY DEF In
<1>2. IsFiniteSet(In(r, "reserved")) /\ IsFiniteSet(In(s, "reserved"))
  BY <1>1, FS_AddElement DEF Held
<1>3. /\ DOMAIN f = In(r, "reserved") /\ DOMAIN g = In(r, "reserved") \cup {o} /\ g[o] = q.estimate
      /\ \A x \in DOMAIN f : f[x] = g[x]
      /\ \A x \in DOMAIN g : g[x] \in Int
  BY <1>1 DEF In, Reservations
<1>4. SumFunction(g) = SumFunction(f) + g[o]
  <2> HIDE DEF f, g, s
  <2>1. IsFiniteSet(DOMAIN f) /\ DOMAIN g = DOMAIN f \cup {o} /\ o \notin DOMAIN f
    BY <1>1, <1>2, <1>3
  <2> QED
    BY <1>3, <2>1, SumFunctionGrows
<1>5. h = SumFunction(f)
  BY DEF Held
<1> QED
  BY <1>2, <1>3, <1>4, <1>5 DEF Held

LEMMA HoldCloses ==
  ASSUME NEW r \in [Objectives -> Reservations], NEW h, Held(h, r), NEW o \in Objectives, NEW q \in Reservations,
         r[o].status = "reserved", q.status # "reserved"
  PROVE  Held(h - r[o].estimate, [r EXCEPT ![o] = q])
<1> DEFINE s == [r EXCEPT ![o] = q]
           f == [x \in In(r, "reserved") |-> r[x].estimate]
           g == [x \in In(s, "reserved") |-> s[x].estimate]
<1>1. In(r, "reserved") = In(s, "reserved") \cup {o} /\ o \notin In(s, "reserved") /\ In(s, "reserved") = In(r, "reserved") \ {o}
  BY DEF In
<1>2. IsFiniteSet(In(r, "reserved")) /\ IsFiniteSet(In(s, "reserved"))
  BY <1>1, FS_RemoveElement DEF Held
<1>3. /\ DOMAIN g = In(s, "reserved") /\ DOMAIN f = In(s, "reserved") \cup {o} /\ f[o] = r[o].estimate
      /\ \A x \in DOMAIN g : g[x] = f[x]
      /\ \A x \in DOMAIN f : f[x] \in Int
  BY <1>1 DEF In, Reservations
<1>4. SumFunction(f) = SumFunction(g) + f[o] /\ SumFunction(g) \in Int /\ f[o] \in Int
  <2> HIDE DEF f, g, s
  <2>1. IsFiniteSet(DOMAIN g) /\ DOMAIN f = DOMAIN g \cup {o} /\ o \notin DOMAIN g
    BY <1>1, <1>2, <1>3
  <2>2. SumFunction(f) = SumFunction(g) + f[o]
    BY <1>3, <2>1, SumFunctionGrows
  <2>3. SumFunction(g) \in Int
    BY <1>3, <2>1, SumFunctionInt
  <2> QED
    BY <1>3, <2>1, <2>2, <2>3
<1>5. h = SumFunction(f)
  BY DEF Held
<1>6. SumFunction(g) = h - r[o].estimate
  <2> HIDE DEF f, g, s
  <2> QED
    BY <1>3, <1>4, <1>5
<1> QED
  BY <1>2, <1>6 DEF Held

(* A hold that is settled adds its over-run; others leave the over-runs.   *)
LEMMA OverrunsStay ==
  ASSUME NEW r \in [Objectives -> Reservations], NEW o \in Objectives, NEW q \in Reservations, NEW a \in Int,
         NEW b \in Int, Funded(a, r), r[o].status # "settled", q.status # "settled", b >= 0 \/ b >= a
  PROVE  Funded(b, [r EXCEPT ![o] = q])
<1> DEFINE s == [r EXCEPT ![o] = q]
           f == [x \in In(r, "settled") |-> Excess(r[x])]
           g == [x \in In(s, "settled") |-> Excess(s[x])]
<1>1. In(s, "settled") = In(r, "settled") /\ IsFiniteSet(In(r, "settled"))
  BY DEF In, Funded
<1>2. /\ DOMAIN f = In(r, "settled") /\ DOMAIN g = In(r, "settled")
      /\ \A x \in DOMAIN f : f[x] = g[x]
      /\ \A x \in DOMAIN f : f[x] \in Nat
  BY <1>1 DEF In, Reservations, Excess
<1>3. SumFunction(g) = SumFunction(f) /\ SumFunction(f) \in Nat
  <2> HIDE DEF f, g, s
  <2> QED
    BY <1>1, <1>2, SumFunctionSame, SumFunctionNat
<1>4. a + SumFunction(f) >= 0
  BY DEF Funded
<1>5. b + SumFunction(g) >= 0
  <2> HIDE DEF f, g, s
  <2> QED
    BY <1>3, <1>4
<1> QED
  BY <1>1, <1>5 DEF Funded

LEMMA OverrunAdds ==
  ASSUME NEW r \in [Objectives -> Reservations], NEW o \in Objectives, NEW q \in Reservations, NEW a \in Int,
         NEW b \in Int, Funded(a, r), r[o].status # "settled", q.status = "settled", b + Excess(q) >= a
  PROVE  Funded(b, [r EXCEPT ![o] = q])
<1> DEFINE s == [r EXCEPT ![o] = q]
           f == [x \in In(r, "settled") |-> Excess(r[x])]
           g == [x \in In(s, "settled") |-> Excess(s[x])]
<1>1. In(s, "settled") = In(r, "settled") \cup {o} /\ o \notin In(r, "settled")
  BY DEF In
<1>2. IsFiniteSet(In(r, "settled")) /\ IsFiniteSet(In(s, "settled"))
  BY <1>1, FS_AddElement DEF Funded
<1>3. /\ DOMAIN f = In(r, "settled") /\ DOMAIN g = In(r, "settled") \cup {o} /\ g[o] = Excess(q)
      /\ \A x \in DOMAIN f : f[x] = g[x]
      /\ \A x \in DOMAIN g : g[x] \in Int
  BY <1>1 DEF In, Reservations, Excess
<1>4. SumFunction(g) = SumFunction(f) + g[o] /\ SumFunction(f) \in Int /\ g[o] \in Int
  <2> HIDE DEF f, g, s
  <2>1. IsFiniteSet(DOMAIN f) /\ DOMAIN g = DOMAIN f \cup {o} /\ o \notin DOMAIN f
    BY <1>1, <1>2, <1>3
  <2>2. SumFunction(g) = SumFunction(f) + g[o]
    BY <1>3, <2>1, SumFunctionGrows
  <2>3. SumFunction(f) \in Int
    BY <1>3, <2>1, SumFunctionInt
  <2> QED
    BY <1>3, <2>1, <2>2, <2>3
<1>5. a + SumFunction(f) >= 0
  BY DEF Funded
<1>6. b + SumFunction(g) >= 0
  <2> HIDE DEF f, g, s
  <2> QED
    BY <1>3, <1>4, <1>5
<1> QED
  BY <1>2, <1>6 DEF Funded

(* The same reservations with more money.                                  *)
LEMMA MoreFunds ==
  ASSUME NEW r \in [Objectives -> Reservations], NEW a \in Int, NEW b \in Int, Funded(a, r), b >= a
  PROVE  Funded(b, r)
<1> DEFINE f == [x \in In(r, "settled") |-> Excess(r[x])]
<1>1. DOMAIN f = In(r, "settled") /\ \A x \in DOMAIN f : f[x] \in Int
  BY DEF In, Reservations, Excess
<1>2. IsFiniteSet(In(r, "settled")) /\ a + SumFunction(f) >= 0
  BY DEF Funded
<1>3. SumFunction(f) \in Int
  <2> HIDE DEF f
  <2> QED
    BY <1>1, <1>2, SumFunctionInt
<1>4. b + SumFunction(f) >= 0
  <2> HIDE DEF f
  <2> QED
    BY <1>2, <1>3
<1> QED
  BY <1>2, <1>4 DEF Funded

(* The keys that say what was done to an objective.                        *)
WorkKeys(o) == {<<"reserve", o>>, <<"release", o>>} \cup {<<"settle", <<o, ev>>>> : ev \in EventIds}

(* Keys of different kinds and of different objectives differ.             *)
LEMMA KeysDiffer ==
  /\ \A o, x : <<"reserve", o>> # <<"release", x>>
  /\ \A o, x : <<"reserve", o>> # <<"settle", x>>
  /\ \A o, x : <<"release", o>> # <<"settle", x>>
  /\ \A o, x : <<"reserve", o>> # <<"stripe", x>> /\ <<"release", o>> # <<"stripe", x>> /\ <<"settle", o>> # <<"stripe", x>>
  /\ \A o, x : <<"client", o>> # <<"stripe", x>> /\ <<"client", o>> # <<"reserve", x>>
               /\ <<"client", o>> # <<"release", x>> /\ <<"client", o>> # <<"settle", x>>
  /\ \A i, k, x : <<"included", i, k>> # <<"stripe", x>> /\ <<"included", i, k>> # <<"reserve", x>>
                  /\ <<"included", i, k>> # <<"release", x>> /\ <<"included", i, k>> # <<"settle", x>>
                  /\ <<"included", i, k>> # <<"client", x>>
OBVIOUS

LEMMA WorkKeysDiffer ==
  /\ \A o, x : o # x => WorkKeys(o) \cap WorkKeys(x) = {}
  /\ \A o, x : <<"client", x>> \notin WorkKeys(o) /\ <<"stripe", x>> \notin WorkKeys(o)
  /\ \A o, i, k : <<"included", i, k>> \notin WorkKeys(o)
BY KeysDiffer DEF WorkKeys

(* An entry that is not about an objective leaves its books alone.         *)
LEMMA OtherBooks ==
  ASSUME NEW l, Sheet(l), NEW e, NEW n \in Int, e.amount = n, ~HasKey(l, e.key), NEW o, e.objective # o,
         e.key \notin WorkKeys(o), NEW q, Nets(l, o, q), Keyed(l, o, q)
  PROVE  Nets(l \cup {e}, o, q) /\ Keyed(l \cup {e}, o, q)
<1>1. OfObjective(l \cup {e}, o) = OfObjective(l, o)
  BY PostedObjective
<1>2. RefundsIn(l \cup {e}, o) = RefundsIn(l, o)
  BY PostedRefunds
<1>3. Nets(l \cup {e}, o, q)
  BY <1>1, <1>2 DEF Nets
<1>4. \A k \in WorkKeys(o) : HasKey(l \cup {e}, k) => HasKey(l, k)
  BY PostedKeys
<1>5. Keyed(l \cup {e}, o, q)
  BY <1>4 DEF Keyed, WorkKeys
<1> QED
  BY <1>3, <1>5

(* An entry of an objective o, with the reservation q that goes with it.   *)
LEMMA WorkBooks ==
  ASSUME NEW l, NEW r \in [Objectives -> Reservations], NEW o \in Objectives, NEW q \in Reservations,
         Sheet(l), \A x \in Objectives : Nets(l, x, r[x]) /\ Keyed(l, x, r[x]),
         NEW e, NEW n \in Int, e.amount = n, e.objective = o, e.key \in WorkKeys(o) \/ \E k : e.key = <<"client", k>>,
         ~HasKey(l, e.key), Nets(l \cup {e}, o, q), Keyed(l \cup {e}, o, q)
  PROVE  \A x \in Objectives : Nets(l \cup {e}, x, [r EXCEPT ![o] = q][x]) /\ Keyed(l \cup {e}, x, [r EXCEPT ![o] = q][x])
<1> TAKE x \in Objectives
<1>1. CASE x = o
  BY <1>1
<1>2. CASE x # o
  <2>1. e.objective # x /\ e.key \notin WorkKeys(x)
    BY <1>2, WorkKeysDiffer
  <2>2. Nets(l \cup {e}, x, r[x]) /\ Keyed(l \cup {e}, x, r[x])
    BY <2>1, OtherBooks
  <2> QED
    BY <1>2, <2>2
<1> QED
  BY <1>1, <1>2

LEMMA PaidStays ==
  ASSUME NEW l, NEW p, Paid(l, p), NEW e, NEW pp, p \subseteq pp,
         \A x \in StripeEvents : e.key = <<"stripe", x.id>> => \E f \in pp : f.id = x.id
  PROVE  Paid(l \cup {e}, pp)
BY DEF Paid, HasKey
-----------------------------------------------------------------------------
(* A grant of any kind.                                                    *)
LEMMA Granting ==
  ASSUME NEW a, NEW h, NEW l, NEW p, NEW r \in [Objectives -> Reservations], Books(a, h, l, r, p), NEW pp, p \subseteq pp,
         NEW e, NEW n \in Nat, e.amount = n, e.objective = Null, ~HasKey(l, e.key),
         \A o \in Objectives : e.key \notin WorkKeys(o),
         \A x \in StripeEvents : e.key = <<"stripe", x.id>> => \E f \in pp : f.id = x.id
  PROVE  Books(a + n, h, InsertLedger(l, e), r, pp)
<1>1. Sheet(l) /\ a = Total(l) /\ Held(h, r) /\ Funded(a, r) /\ Paid(l, p)
  BY DEF Books, Balanced
<1>2. /\ InsertLedger(l, e) = l \cup {e} /\ Sheet(l \cup {e}) /\ Total(l) \in Int
      /\ Total(l \cup {e}) = Total(l) + n
  BY <1>1, Posted
<1>3. Balanced(a + n, l \cup {e})
  BY <1>1, <1>2 DEF Balanced
<1>4. Funded(a + n, r)
  <2>1. a \in Int /\ a + n \in Int /\ a + n >= a
    BY <1>1, <1>2
  <2> QED
    BY <1>1, <2>1, MoreFunds
<1>5. Paid(l \cup {e}, pp)
  BY <1>1, PaidStays
<1>6. ASSUME NEW o \in Objectives PROVE Nets(l \cup {e}, o, r[o]) /\ Keyed(l \cup {e}, o, r[o])
  <2>1. Nets(l, o, r[o]) /\ Keyed(l, o, r[o])
    BY DEF Books
  <2>2. e.objective # o /\ e.key \notin WorkKeys(o)
    BY ObjectiveAssumption
  <2> QED
    BY <1>1, <2>1, <2>2, OtherBooks
<1> QED
  BY <1>1, <1>2, <1>3, <1>4, <1>5, <1>6 DEF Books

(* More events processed.                                                  *)
LEMMA Processing ==
  ASSUME NEW a, NEW h, NEW l, NEW r, NEW p, Books(a, h, l, r, p), NEW pp, p \subseteq pp
  PROVE  Books(a, h, l, r, pp)
BY DEF Books, Paid

(* An operation on the hold of one objective: it posts the entry e of      *)
(* amount n and leaves the reservation q.                                  *)
LEMMA Working ==
  ASSUME NEW a, NEW h, NEW l, NEW p, NEW r \in [Objectives -> Reservations], Books(a, h, l, r, p),
         NEW o \in Objectives, NEW q \in Reservations, NEW e, NEW n \in Int, e.amount = n, e.objective = o,
         e.key \in WorkKeys(o) \/ \E k : e.key = <<"client", k>>, ~HasKey(l, e.key),
         NEW b, b = a + n, NEW k, Held(k, [r EXCEPT ![o] = q]), Funded(b, [r EXCEPT ![o] = q]),
         Nets(l \cup {e}, o, q), Keyed(l \cup {e}, o, q)
  PROVE  Books(b, k, InsertLedger(l, e), [r EXCEPT ![o] = q], p)
<1> DEFINE s == [r EXCEPT ![o] = q]
<1>1. Sheet(l) /\ a = Total(l) /\ Paid(l, p) /\ \A x \in Objectives : Nets(l, x, r[x]) /\ Keyed(l, x, r[x])
  BY DEF Books, Balanced
<1>2. /\ InsertLedger(l, e) = l \cup {e} /\ Sheet(l \cup {e}) /\ Total(l) \in Int
      /\ Total(l \cup {e}) = Total(l) + n
  BY <1>1, Posted
<1>3. Balanced(b, l \cup {e})
  BY <1>1, <1>2 DEF Balanced
<1>4. Paid(l \cup {e}, p)
  <2>1. p \subseteq p /\ \A x \in StripeEvents : e.key # <<"stripe", x.id>>
    BY WorkKeysDiffer, KeysDiffer
  <2> QED
    BY <1>1, <2>1, PaidStays
<1>5. \A x \in Objectives : Nets(l \cup {e}, x, s[x]) /\ Keyed(l \cup {e}, x, s[x])
  BY <1>1, WorkBooks
<1> HIDE DEF s
<1>6. Books(b, k, l \cup {e}, s, p)
  BY <1>3, <1>4, <1>5 DEF Books, s
<1> QED
  BY <1>2, <1>6 DEF s

(* reserve_objective.                                                      *)
LEMMA Reserving ==
  ASSUME NEW a \in Int, NEW h, NEW l, NEW p, NEW r \in [Objectives -> Reservations], Books(a, h, l, r, p),
         NEW o \in Objectives, NEW n \in Nat, r[o].status = "none", a >= n,
         NEW q \in Reservations, q.status = "reserved", q.estimate = n, q.actual = 0
  PROVE  Books(a - n, h + n, InsertLedger(l, Entry(<<"reserve", o>>, "reservation", -n, o)),
               [r EXCEPT ![o] = q], p)
<1> DEFINE e == Entry(<<"reserve", o>>, "reservation", -n, o)
<1>1. Sheet(l) /\ Held(h, r) /\ Funded(a, r) /\ Nets(l, o, r[o]) /\ Keyed(l, o, r[o])
  BY DEF Books, Balanced
<1>2. /\ e.key = <<"reserve", o>> /\ e.type = "reservation" /\ e.amount = -n /\ e.objective = o
  BY DEF Entry
<1>3. -n \in Int /\ a - n = a + (-n) /\ a - n \in Int /\ a - n >= 0
  OBVIOUS
<1> HIDE DEF e
<1>4. ~HasKey(l, e.key) /\ e.key \in WorkKeys(o)
  BY <1>1, <1>2 DEF Keyed, WorkKeys
<1>5. Held(h + n, [r EXCEPT ![o] = q])
  <2>1. Held(h + q.estimate, [r EXCEPT ![o] = q])
    BY <1>1, <1>2, HoldOpens
  <2> QED
    BY <1>2, <2>1
<1>6. Funded(a - n, [r EXCEPT ![o] = q])
  BY <1>1, <1>2, <1>3, OverrunsStay
<1>7. Nets(l \cup {e}, o, q)
  <2>1. RefundsIn(l, o) = {} /\ Total(OfObjective(l, o)) = 0
    BY <1>1 DEF Nets
  <2>2. RefundsIn(l \cup {e}, o) = {}
    BY <1>1, <1>2, <1>3, <1>4, <2>1, PostedRefunds
  <2>3. Total(OfObjective(l \cup {e}, o)) = 0 + (-n)
    BY <1>1, <1>2, <1>3, <1>4, <2>1, PostedObjective
  <2>4. Total(OfObjective(l \cup {e}, o)) = -n
    BY <2>3
  <2>5. Total(RefundsIn(l \cup {e}, o)) = 0
    BY <2>2, TotalOfNothing
  <2> QED
    BY <1>2, <2>2, <2>4, <2>5 DEF Nets
<1>8. Keyed(l \cup {e}, o, q)
  <2>1. /\ ~HasKey(l, <<"release", o>>) /\ \A ev \in EventIds : ~HasKey(l, <<"settle", <<o, ev>>>>)
    BY <1>1 DEF Keyed
  <2>2. /\ e.key # <<"release", o>> /\ \A ev \in EventIds : e.key # <<"settle", <<o, ev>>>>
    BY <1>2, KeysDiffer
  <2> QED
    BY <1>2, <2>1, <2>2, PostedKeys DEF Keyed
<1>9. Books(a - n, h + n, InsertLedger(l, e), [r EXCEPT ![o] = q], p)
  BY <1>2, <1>3, <1>4, <1>5, <1>6, <1>7, <1>8, Working
<1> QED
  BY <1>9 DEF e

(* release_objective.                                                      *)
LEMMA Releasing ==
  ASSUME NEW a \in Int, NEW h, NEW l, NEW p, NEW r \in [Objectives -> Reservations], Books(a, h, l, r, p),
         NEW o \in Objectives, r[o].status = "reserved"
  PROVE  Books(a + r[o].estimate, h - r[o].estimate,
               InsertLedger(l, Entry(<<"release", o>>, "release", r[o].estimate, o)),
               [r EXCEPT ![o].status = "released"], p)
<1> DEFINE n == r[o].estimate
           e == Entry(<<"release", o>>, "release", n, o)
           q == [r[o] EXCEPT !.status = "released"]
<1>1. Sheet(l) /\ Held(h, r) /\ Funded(a, r) /\ Nets(l, o, r[o]) /\ Keyed(l, o, r[o])
  BY DEF Books, Balanced
<1>2. /\ e.key = <<"release", o>> /\ e.type = "release" /\ e.amount = n /\ e.objective = o
      /\ q \in Reservations /\ q.status = "released" /\ q.actual = r[o].actual /\ n \in Nat
      /\ [r EXCEPT ![o].status = "released"] = [r EXCEPT ![o] = q]
  BY DEF Entry, Reservations
<1> HIDE DEF e, q
<1>3. n \in Int /\ a + n \in Int /\ a + n >= a
  BY <1>2
<1>4. ~HasKey(l, e.key) /\ e.key \in WorkKeys(o)
  BY <1>1, <1>2 DEF Keyed, WorkKeys
<1>5. Held(h - n, [r EXCEPT ![o] = q])
  BY <1>1, <1>2, HoldCloses
<1>6. Funded(a + n, [r EXCEPT ![o] = q])
  BY <1>1, <1>2, <1>3, OverrunsStay
<1>7. Nets(l \cup {e}, o, q)
  <2>1. RefundsIn(l, o) = {} /\ Total(OfObjective(l, o)) = -n
    BY <1>1 DEF Nets
  <2>2. RefundsIn(l \cup {e}, o) = {}
    BY <1>1, <1>2, <1>3, <1>4, <2>1, PostedRefunds
  <2>3. Total(OfObjective(l \cup {e}, o)) = (-n) + n
    BY <1>1, <1>2, <1>3, <1>4, <2>1, PostedObjective
  <2>4. Total(OfObjective(l \cup {e}, o)) = 0
    BY <1>3, <2>3
  <2>5. Total(RefundsIn(l \cup {e}, o)) <= q.actual
    BY <1>1, <1>2, <2>1, <2>2 DEF Nets
  <2> QED
    BY <1>2, <2>2, <2>4, <2>5 DEF Nets
<1>8. Keyed(l \cup {e}, o, q)
  <2>1. \A ev \in EventIds : ~HasKey(l, <<"settle", <<o, ev>>>>)
    BY <1>1 DEF Keyed
  <2>2. \A ev \in EventIds : e.key # <<"settle", <<o, ev>>>>
    BY <1>2, KeysDiffer
  <2> QED
    BY <1>2, <2>1, <2>2, PostedKeys DEF Keyed
<1>9. Books(a + n, h - n, InsertLedger(l, e), [r EXCEPT ![o] = q], p)
  BY <1>2, <1>3, <1>4, <1>5, <1>6, <1>7, <1>8, Working
<1> QED
  BY <1>2, <1>9 DEF e

(* settle_objective: what was held comes back and the measured cost c goes.*)
LEMMA Settling ==
  ASSUME NEW a \in Int, NEW h, NEW l, NEW p, NEW r \in [Objectives -> Reservations], Books(a, h, l, r, p),
         NEW o \in Objectives, NEW ev \in EventIds, NEW c \in Nat, r[o].status = "reserved"
  PROVE  Books(a + r[o].estimate - c, h - r[o].estimate,
               InsertLedger(l, Entry(<<"settle", <<o, ev>>>>, "settlement", r[o].estimate - c, o)),
               [r EXCEPT ![o] = [@ EXCEPT !.status = "settled", !.actual = c]], p)
<1> DEFINE n == r[o].estimate
           d == n - c
           e == Entry(<<"settle", <<o, ev>>>>, "settlement", d, o)
           q == [r[o] EXCEPT !.status = "settled", !.actual = c]
<1>1. Sheet(l) /\ Held(h, r) /\ Funded(a, r) /\ Nets(l, o, r[o]) /\ Keyed(l, o, r[o])
  BY DEF Books, Balanced
<1>2. /\ e.key = <<"settle", <<o, ev>>>> /\ e.type = "settlement" /\ e.amount = d /\ e.objective = o
      /\ q \in Reservations /\ q.status = "settled" /\ q.actual = c /\ q.estimate = n /\ n \in Nat
      /\ [r EXCEPT ![o] = [@ EXCEPT !.status = "settled", !.actual = c]] = [r EXCEPT ![o] = q]
  BY DEF Entry, Reservations
<1> HIDE DEF e, q
<1>3. d \in Int /\ a + n - c = a + d /\ a + n - c \in Int /\ a + n - c + Excess(q) >= a
  BY <1>2 DEF Excess
<1>4. ~HasKey(l, e.key) /\ e.key \in WorkKeys(o)
  BY <1>1, <1>2 DEF Keyed, WorkKeys
<1>5. Held(h - n, [r EXCEPT ![o] = q])
  BY <1>1, <1>2, HoldCloses
<1>6. Funded(a + n - c, [r EXCEPT ![o] = q])
  BY <1>1, <1>2, <1>3, OverrunAdds
<1>7. Nets(l \cup {e}, o, q)
  <2>1. RefundsIn(l, o) = {} /\ Total(OfObjective(l, o)) = -n
    BY <1>1 DEF Nets
  <2>2. RefundsIn(l \cup {e}, o) = {}
    BY <1>1, <1>2, <1>3, <1>4, <2>1, PostedRefunds
  <2>3. Total(OfObjective(l \cup {e}, o)) = (-n) + d
    BY <1>1, <1>2, <1>3, <1>4, <2>1, PostedObjective
  <2>4. Total(OfObjective(l \cup {e}, o)) = 0 - c
    BY <1>2, <2>3
  <2>5. Total(RefundsIn(l \cup {e}, o)) = 0
    BY <2>2, TotalOfNothing
  <2> QED
    BY <1>2, <2>2, <2>4, <2>5 DEF Nets
<1>8. Keyed(l \cup {e}, o, q)
  <2>1. ~HasKey(l, <<"release", o>>)
    BY <1>1 DEF Keyed
  <2>2. e.key # <<"release", o>>
    BY <1>2, KeysDiffer
  <2> QED
    BY <1>2, <2>1, <2>2, PostedKeys DEF Keyed
<1>9. Books(a + n - c, h - n, InsertLedger(l, e), [r EXCEPT ![o] = q], p)
  BY <1>2, <1>3, <1>4, <1>5, <1>6, <1>7, <1>8, Working
<1> QED
  BY <1>2, <1>9 DEF e

(* refund_objective: with all earlier ones it stays within the cost.       *)
LEMMA Refunding ==
  ASSUME NEW a \in Int, NEW h, NEW l, NEW p, NEW r \in [Objectives -> Reservations], Books(a, h, l, r, p),
         NEW o \in Objectives, NEW k, NEW n \in Nat, r[o].status = "settled", ~HasKey(l, <<"client", k>>),
         Total(RefundsIn(l, o)) + n <= r[o].actual
  PROVE  Books(a + n, h, InsertLedger(l, Entry(<<"client", k>>, "refund", n, o)), r, p)
<1> DEFINE e == Entry(<<"client", k>>, "refund", n, o)
<1>1. Sheet(l) /\ Held(h, r) /\ Funded(a, r) /\ Nets(l, o, r[o]) /\ Keyed(l, o, r[o])
  BY DEF Books, Balanced
<1>2. /\ e.key = <<"client", k>> /\ e.type = "refund" /\ e.amount = n /\ e.objective = o
      /\ r[o] \in Reservations /\ r = [r EXCEPT ![o] = r[o]]
  BY DEF Entry
<1> HIDE DEF e
<1>3. n \in Int /\ a + n \in Int /\ a + n >= a /\ ~HasKey(l, e.key)
  BY <1>2
<1>4. Funded(a + n, r)
  BY <1>1, <1>3, MoreFunds
<1>5. Nets(l \cup {e}, o, r[o])
  <2>1. Total(OfObjective(l, o)) = Total(RefundsIn(l, o)) - r[o].actual
    BY <1>1 DEF Nets
  <2>2. Total(RefundsIn(l, o)) \in Int /\ Total(RefundsIn(l \cup {e}, o)) = Total(RefundsIn(l, o)) + n
    BY <1>1, <1>2, <1>3, PostedRefunds
  <2>3. Total(OfObjective(l \cup {e}, o)) = Total(OfObjective(l, o)) + n
    BY <1>1, <1>2, <1>3, PostedObjective
  <2>4. r[o].actual \in Nat
    BY <1>2 DEF Reservations
  <2>5. Total(OfObjective(l \cup {e}, o)) = Total(RefundsIn(l \cup {e}, o)) - r[o].actual
    BY <2>1, <2>2, <2>3, <2>4
  <2> QED
    BY <2>2, <2>5 DEF Nets
<1>6. Keyed(l \cup {e}, o, r[o])
  <2>1. /\ e.key # <<"release", o>> /\ e.key # <<"reserve", o>> /\ \A ev \in EventIds : e.key # <<"settle", <<o, ev>>>>
    BY <1>2, KeysDiffer
  <2> QED
    BY <1>1, <2>1, PostedKeys DEF Keyed
<1>7. Books(a + n, h, InsertLedger(l, e), [r EXCEPT ![o] = r[o]], p)
  <2>1. Held(h, [r EXCEPT ![o] = r[o]]) /\ Funded(a + n, [r EXCEPT ![o] = r[o]])
    BY <1>1, <1>2, <1>4
  <2> QED
    BY <1>2, <1>3, <1>5, <1>6, <2>1, Working
<1> QED
  BY <1>2, <1>7 DEF e

(* An account that is not open holds nothing: accept_webhook may write its *)
(* first row.                                                              *)
ShutInv ==
  account.open \/ (account.available = 0 /\ account.reserved = 0 /\ \A o \in Objectives : reservations[o].status = "none")

LedgerInv == BooksInv /\ ShutInv

(* _account: the calendar grant is in the books.                           *)
LEMMA OpenedBooks ==
  ASSUME TypeOK, BooksInv
  PROVE  /\ Books(OpenedAccount.available, OpenedAccount.reserved, OpenedLedger, reservations, processed)
         /\ \A k : <<"client", k>> # CalendarGrant.key /\ <<"stripe", k>> # CalendarGrant.key
         /\ \A k : k # CalendarGrant.key /\ ~HasKey(ledger, k) => ~HasKey(OpenedLedger, k)
<1> DEFINE n == Catalog[Existing.plan].included
           g == CalendarGrant
<1>1. account \in Accounts /\ reservations \in [Objectives -> Reservations]
  BY DEF TypeOK
<1>2. /\ Existing.available = account.available /\ Existing.reserved = account.reserved
      /\ Existing \in Accounts
  BY <1>1 DEF Existing, Accounts
<1>3. n \in Nat
  BY <1>2, CatalogAssumption DEF Accounts
<1>4. /\ g.key = <<"included", Existing.plan, Month>> /\ g.amount = n /\ g.objective = Null
      /\ \A o \in Objectives : g.key \notin WorkKeys(o)
      /\ \A x : g.key # <<"stripe", x>> /\ g.key # <<"client", x>>
  <2>1. g.key = <<"included", Existing.plan, Month>> /\ g.amount = n /\ g.objective = Null
    BY DEF CalendarGrant, Entry
  <2> QED
    BY <2>1, WorkKeysDiffer, KeysDiffer
<1> HIDE DEF g, n
<1>5. CASE ~CalendarGrantDue
  <2>1. OpenedAccount = Existing /\ OpenedLedger = ledger
    BY <1>5 DEF OpenedAccount, OpenedLedger
  <2> QED
    BY <1>2, <1>4, <2>1 DEF BooksInv, g
<1>6. CASE CalendarGrantDue
  <2>1. /\ OpenedAccount = [Existing EXCEPT !.available = @ + g.amount, !.spend = 0, !.period = Month]
        /\ OpenedLedger = InsertLedger(ledger, g) /\ ~HasKey(ledger, g.key)
    BY <1>6 DEF OpenedAccount, OpenedLedger, CalendarGrantDue, g
  <2>2. OpenedAccount.available = account.available + n /\ OpenedAccount.reserved = account.reserved
    BY <1>2, <1>4, <2>1 DEF Accounts
  <2>3. processed \subseteq processed
    OBVIOUS
  <2>4. Books(account.available + n, account.reserved, InsertLedger(ledger, g), reservations, processed)
    BY <1>1, <1>3, <1>4, <2>1, <2>3, Granting DEF BooksInv
  <2>5. \A k : k # g.key /\ ~HasKey(ledger, k) => ~HasKey(InsertLedger(ledger, g), k)
    BY PostedKeys DEF InsertLedger
  <2> QED
    BY <1>4, <2>1, <2>2, <2>4, <2>5 DEF g
<1> QED
  BY <1>5, <1>6

(* Operations of the ledger.                                               *)
LEMMA SummaryBooks ==
  ASSUME TypeOK, BooksInv, account' = OpenedAccount, ledger' = OpenedLedger,
         reservations' = reservations, processed \subseteq processed'
  PROVE  LedgerInv'
<1>1. Books(OpenedAccount.available, OpenedAccount.reserved, OpenedLedger, reservations, processed')
  BY OpenedBooks, Processing
<1>2. account'.open
  BY Opened
<1> QED
  BY <1>1, <1>2 DEF LedgerInv, BooksInv, ShutInv

LEMMA BindCustomerBooks == ASSUME TypeOK, BooksInv, BindCustomer PROVE LedgerInv'
<1>1. Books(OpenedAccount.available, OpenedAccount.reserved, OpenedLedger, reservations, processed)
  BY OpenedBooks
<1>2. OpenedAccount \in Accounts /\ OpenedAccount.open
  BY Opened
<1>3. /\ account'.available = OpenedAccount.available /\ account'.reserved = OpenedAccount.reserved
      /\ account'.open
  BY <1>2 DEF BindCustomer, Accounts
<1> QED
  BY <1>1, <1>3 DEF LedgerInv, BooksInv, ShutInv, BindCustomer

LEMMA ReserveBooks ==
  ASSUME TypeOK, BooksInv, NEW o \in Objectives, ReserveObjective(o)
  PROVE  LedgerInv'
<1> DEFINE a == OpenedAccount
           n == Catalog[a.plan].reserve
           q == [NoReservation EXCEPT !.status = "reserved", !.estimate = n]
<1>1. a \in Accounts /\ a.open /\ a.available \in Int
  BY Opened DEF Accounts
<1>2. n \in Nat
  BY <1>1, CatalogAssumption DEF Accounts
<1>3. /\ reservations \in [Objectives -> Reservations] /\ reservations[o].status = "none"
      /\ a.available >= n /\ processed' = processed
      /\ account' = [a EXCEPT !.available = @ - n, !.reserved = @ + n]
      /\ ledger' = InsertLedger(OpenedLedger, Entry(<<"reserve", o>>, "reservation", -n, o))
      /\ reservations' = [reservations EXCEPT ![o] = q]
  BY DEF ReserveObjective, MayReserve, TypeOK
<1>4. q \in Reservations /\ q.status = "reserved" /\ q.estimate = n /\ q.actual = 0
  BY <1>2 DEF NoReservation, Reservations
<1>5. Books(a.available, a.reserved, OpenedLedger, reservations, processed)
  BY OpenedBooks
<1>6. account'.available = a.available - n /\ account'.reserved = a.reserved + n /\ account'.open
  BY <1>1, <1>3 DEF Accounts
<1> HIDE DEF a, n, q
<1>7. Books(a.available - n, a.reserved + n, InsertLedger(OpenedLedger, Entry(<<"reserve", o>>, "reservation", -n, o)),
            [reservations EXCEPT ![o] = q], processed)
  BY <1>1, <1>2, <1>3, <1>4, <1>5, Reserving
<1>8. BooksInv'
  BY <1>3, <1>6, <1>7 DEF BooksInv
<1> QED
  BY <1>6, <1>8 DEF LedgerInv, ShutInv

LEMMA ReleaseBooks ==
  ASSUME TypeOK, LedgerInv, NEW o \in Objectives, ReleaseObjective(o)
  PROVE  LedgerInv'
<1> DEFINE n == reservations[o].estimate
<1>1. /\ account \in Accounts /\ reservations \in [Objectives -> Reservations] /\ reservations[o].status = "reserved"
      /\ account.available \in Int
  BY DEF TypeOK, ReleaseObjective, Accounts
<1>2. account.open
  BY <1>1 DEF LedgerInv, ShutInv
<1>3. account'.available = account.available + n /\ account'.reserved = account.reserved - n /\ account'.open
  BY <1>1, <1>2 DEF ReleaseObjective, Accounts, HeldWithout
<1>4. Books(account.available + n, account.reserved - n,
            InsertLedger(ledger, Entry(<<"release", o>>, "release", n, o)),
            [reservations EXCEPT ![o].status = "released"], processed)
  BY <1>1, Releasing DEF LedgerInv, BooksInv
<1>5. BooksInv'
  BY <1>3, <1>4 DEF BooksInv, ReleaseObjective
<1> QED
  BY <1>3, <1>5 DEF LedgerInv, ShutInv

LEMMA SettleBooks ==
  ASSUME TypeOK, HoldInv, LedgerInv, NEW o \in Objectives, NEW u \in Usages, NEW ev \in EventIds,
         SettleObjective(o, u, <<o, ev>>)
  PROVE  LedgerInv'
<1> DEFINE n == reservations[o].estimate
           c == MeasuredCost(u)
<1>1. /\ account \in Accounts /\ reservations \in [Objectives -> Reservations] /\ reservations[o].status = "reserved"
      /\ account.available \in Int
  BY DEF TypeOK, SettleObjective, Settleable, Accounts
<1>2. account.open /\ c \in Nat
  BY <1>1, SettleStep DEF LedgerInv, ShutInv
<1>3. /\ account' = [account EXCEPT !.available = @ + n - c, !.reserved = HeldWithout(account, reservations[o]),
                                    !.spend = @ + c]
      /\ ledger' = InsertLedger(ledger, Entry(<<"settle", <<o, ev>>>>, "settlement", n - c, o))
      /\ reservations' = [reservations EXCEPT ![o] = [@ EXCEPT !.status = "settled", !.actual = c]]
      /\ processed' = processed
  BY DEF SettleObjective
<1> HIDE DEF c
<1>4. account'.available = account.available + n - c /\ account'.reserved = account.reserved - n /\ account'.open
  BY <1>1, <1>2, <1>3 DEF Accounts, HeldWithout
<1>5. Books(account.available + n - c, account.reserved - n,
            InsertLedger(ledger, Entry(<<"settle", <<o, ev>>>>, "settlement", n - c, o)),
            [reservations EXCEPT ![o] = [@ EXCEPT !.status = "settled", !.actual = c]], processed)
  BY <1>1, <1>2, Settling DEF LedgerInv, BooksInv
<1>6. BooksInv'
  BY <1>3, <1>4, <1>5 DEF BooksInv
<1> QED
  BY <1>4, <1>6 DEF LedgerInv, ShutInv

LEMMA RefundBooks ==
  ASSUME TypeOK, LedgerInv, NEW o \in Objectives, NEW k, NEW n \in RefundAmounts, RefundObjective(o, k, n)
  PROVE  LedgerInv'
<1>1. /\ account \in Accounts /\ reservations \in [Objectives -> Reservations] /\ reservations[o].status = "settled"
      /\ account.available \in Int /\ n \in Nat
  BY RefundAssumption DEF TypeOK, RefundObjective, Accounts
<1>2. account.open
  BY <1>1 DEF LedgerInv, ShutInv
<1>3. account'.available = account.available + n /\ account'.reserved = account.reserved /\ account'.open
  BY <1>1, <1>2 DEF RefundObjective, Accounts
<1>4. Total(RefundsIn(ledger, o)) + n <= reservations[o].actual /\ ~HasKey(ledger, <<"client", k>>)
  BY DEF RefundObjective, RefundWithinCost, Refunds, RefundsIn
<1>5. Books(account.available + n, account.reserved, InsertLedger(ledger, Entry(<<"client", k>>, "refund", n, o)),
            reservations, processed)
  BY <1>1, <1>4, Refunding DEF LedgerInv, BooksInv
<1>6. BooksInv'
  BY <1>3, <1>5 DEF BooksInv, RefundObjective
<1> QED
  BY <1>3, <1>6 DEF LedgerInv, ShutInv

(* A grant on top of the opened account.                                   *)
LEMMA ToppedUp ==
  ASSUME TypeOK, BooksInv, NEW e, NEW n \in Nat, e.amount = n, e.objective = Null, ~HasKey(ledger, e.key),
         e.key # CalendarGrant.key, \A o \in Objectives : e.key \notin WorkKeys(o),
         processed \subseteq processed',
         \A x \in StripeEvents : e.key = <<"stripe", x.id>> => \E f \in processed' : f.id = x.id,
         account' = [OpenedAccount EXCEPT !.available = @ + n],
         ledger' = InsertLedger(OpenedLedger, e), reservations' = reservations
  PROVE  LedgerInv'
<1>1. OpenedAccount \in Accounts /\ OpenedAccount.open
  BY Opened
<1>2. account'.available = OpenedAccount.available + n /\ account'.reserved = OpenedAccount.reserved /\ account'.open
  BY <1>1 DEF Accounts
<1>3. ~HasKey(OpenedLedger, e.key)
  BY OpenedBooks
<1>4. Books(OpenedAccount.available, OpenedAccount.reserved, OpenedLedger, reservations, processed)
  BY OpenedBooks
<1>5. reservations \in [Objectives -> Reservations]
  BY DEF TypeOK
<1>6. Books(OpenedAccount.available + n, OpenedAccount.reserved, InsertLedger(OpenedLedger, e), reservations, processed')
  BY <1>3, <1>4, <1>5, Granting
<1> QED
  BY <1>2, <1>6 DEF LedgerInv, BooksInv, ShutInv

LEMMA AddCreditsBooks ==
  ASSUME TypeOK, BooksInv, NEW k, NEW n \in GrantAmounts, AddCredits(k, n)
  PROVE  LedgerInv'
<1>1. CASE account' = OpenedAccount /\ ledger' = OpenedLedger
  BY <1>1, SummaryBooks DEF AddCredits
<1>2. CASE /\ ~HasKey(ledger, <<"client", k>>)
           /\ account' = [OpenedAccount EXCEPT !.available = @ + n]
           /\ ledger' = InsertLedger(OpenedLedger, Entry(<<"client", k>>, "topup", n, Null))
  <2> DEFINE e == Entry(<<"client", k>>, "topup", n, Null)
  <2>1. e.key = <<"client", k>> /\ e.amount = n /\ e.objective = Null /\ n \in Nat
    BY RefundAssumption DEF Entry
  <2> HIDE DEF e
  <2>2. /\ e.key # CalendarGrant.key /\ \A o \in Objectives : e.key \notin WorkKeys(o)
        /\ \A x \in StripeEvents : e.key # <<"stripe", x.id>>
    BY <2>1, OpenedBooks, WorkKeysDiffer, KeysDiffer
  <2>3. processed \subseteq processed' /\ reservations' = reservations
    BY DEF AddCredits
  <2> QED
    BY <1>2, <2>1, <2>2, <2>3, ToppedUp DEF e
<1> QED
  BY <1>1, <1>2 DEF AddCredits

(* Webhooks.                                                               *)
LEMMA PackPaidBooks ==
  ASSUME TypeOK, BooksInv, NEW e \in StripeEvents, PackPaid(e)
  PROVE  LedgerInv'
<1> DEFINE g == Entry(<<"stripe", e.id>>, "topup", PackCredits, Null)
<1>1. g.key = <<"stripe", e.id>> /\ g.amount = PackCredits /\ g.objective = Null /\ PackCredits \in Nat
  BY CatalogAssumption DEF Entry
<1>2. /\ \A f \in processed : f.id # e.id
      /\ processed' = processed \cup {e} /\ reservations' = reservations
      /\ account' = [OpenedAccount EXCEPT !.available = @ + PackCredits]
      /\ ledger' = InsertLedger(OpenedLedger, g)
  BY DEF PackPaid, Record
<1> HIDE DEF g
<1>3. ~HasKey(ledger, g.key)
  BY <1>1, <1>2 DEF BooksInv, Books, Paid
<1>4. g.key # CalendarGrant.key /\ \A o \in Objectives : g.key \notin WorkKeys(o)
  BY <1>1, OpenedBooks, WorkKeysDiffer
<1>5. /\ processed \subseteq processed'
      /\ \A x \in StripeEvents : g.key = <<"stripe", x.id>> => \E f \in processed' : f.id = x.id
  BY <1>1, <1>2
<1> QED
  BY <1>1, <1>2, <1>3, <1>4, <1>5, ToppedUp

(* Events that leave the amounts alone.                                    *)
LEMMA SameBooks ==
  ASSUME LedgerInv, account'.available = account.available, account'.reserved = account.reserved,
         account.open => account'.open, ledger' = ledger, reservations' = reservations, processed \subseteq processed'
  PROVE  LedgerInv'
<1>1. Books(account.available, account.reserved, ledger, reservations, processed')
  BY Processing DEF LedgerInv, BooksInv
<1> QED
  BY <1>1 DEF LedgerInv, BooksInv, ShutInv

LEMMA SubscriptionBooks ==
  ASSUME TypeOK, BooksInv, NEW e \in StripeEvents, Subscription(e)
  PROVE  LedgerInv'
<1>1. OpenedAccount \in Accounts /\ OpenedAccount.open
  BY Opened
<1>2. account'.available = OpenedAccount.available /\ account'.reserved = OpenedAccount.reserved /\ account'.open
  BY <1>1 DEF Subscription, Accounts
<1>3. ledger' = OpenedLedger /\ processed' = processed \cup {e} /\ reservations' = reservations
  BY DEF Subscription, Record
<1>4. Books(OpenedAccount.available, OpenedAccount.reserved, OpenedLedger, reservations, processed')
  BY <1>3, OpenedBooks, Processing
<1> QED
  BY <1>2, <1>3, <1>4 DEF LedgerInv, BooksInv, ShutInv

LEMMA InvoiceBooks ==
  ASSUME TypeOK, LedgerInv, NEW e \in StripeEvents, Invoice(e)
  PROVE  LedgerInv'
<1>1. account \in Accounts /\ account.open /\ reservations \in [Objectives -> Reservations]
  BY DEF TypeOK, Invoice
<1>2. processed' = processed \cup {e} /\ reservations' = reservations
  BY DEF Invoice, Record
<1>3. CASE InvoiceIgnored(e)
  BY <1>1, <1>2, <1>3, SameBooks DEF InvoiceIgnored
<1>4. CASE InvoiceFailed(e)
  <2>1. /\ account'.available = account.available /\ account'.reserved = account.reserved /\ account'.open
        /\ ledger' = ledger
    BY <1>1, <1>4 DEF InvoiceFailed, Accounts
  <2> QED
    BY <1>2, <2>1, SameBooks
<1>5. CASE InvoicePaid(e)
  <2> DEFINE n == Catalog[account.plan].included
             g == IncludedGrant(e)
  <2>1. n \in Nat /\ g.key = <<"included", e.subscription, e.start>> /\ g.amount = n /\ g.objective = Null
    BY <1>1, CatalogAssumption DEF IncludedGrant, Entry, Accounts
  <2>2. /\ account'.available = account.available + Granted(e) /\ account'.reserved = account.reserved /\ account'.open
        /\ ledger' = InsertLedger(ledger, g)
    BY <1>1, <1>5 DEF InvoicePaid, Accounts
  <2>3. CASE HasKey(ledger, g.key)
    <3>1. Granted(e) = 0 /\ ledger' = ledger
      BY <2>2, <2>3 DEF Granted, InsertLedger
    <3>2. account'.available = account.available
      BY <1>1, <2>2, <3>1 DEF Accounts
    <3> QED
      BY <1>2, <2>2, <3>1, <3>2, SameBooks
  <2>4. CASE ~HasKey(ledger, g.key)
    <3>1. Granted(e) = n
      BY <2>1, <2>4 DEF Granted
    <3> HIDE DEF g, n
    <3>2. /\ \A o \in Objectives : g.key \notin WorkKeys(o)
          /\ \A x \in StripeEvents : g.key # <<"stripe", x.id>>
      BY <2>1, WorkKeysDiffer, KeysDiffer
    <3>3. Books(account.available + n, account.reserved, InsertLedger(ledger, g), reservations, processed')
      BY <1>1, <1>2, <2>1, <2>4, <3>2, Granting DEF LedgerInv, BooksInv
    <3> QED
      BY <1>2, <2>2, <3>1, <3>3 DEF LedgerInv, BooksInv, ShutInv
  <2> QED
    BY <2>3, <2>4
<1> QED
  BY <1>3, <1>4, <1>5 DEF Invoice

LEMMA LegacyBooks ==
  ASSUME TypeOK, LedgerInv, NEW e \in StripeEvents, LegacyWebhook(e)
  PROVE  LedgerInv'
<1> DEFINE row == IF account.open THEN account ELSE [NoAccount EXCEPT !.open = TRUE, !.plan = "free"]
<1>1. account \in Accounts
  BY DEF TypeOK
<1>2. processed' = processed \cup {e} /\ reservations' = reservations /\ ledger' = ledger
  BY DEF LegacyWebhook, Record
<1>3. CASE ~LegacyApplies(e)
  <2>1. account' = account
    BY <1>3 DEF LegacyWebhook
  <2> QED
    BY <1>2, <2>1, SameBooks
<1>4. CASE LegacyApplies(e)
  <2>1. row.available = account.available /\ row.reserved = account.reserved /\ row.open
    BY DEF LedgerInv, ShutInv, NoAccount
  <2>2. /\ DOMAIN row = DOMAIN account
    BY <1>1 DEF NoAccount, Accounts
  <2>3. account' = [row EXCEPT !.customer = TRUE,
                        !.subscription = IF e.subscription = Null THEN @ ELSE e.subscription,
                        !.status = IF e.type = "legacy.checkout" THEN "pending" ELSE e.status,
                        !.eventCreated = Latest(@, e.created)]
    BY <1>4 DEF LegacyWebhook
  <2>4. DOMAIN account = {"open", "plan", "status", "available", "reserved", "spend", "period", "customer",
                          "subscription", "grace", "eventCreated"}
    BY <1>1 DEF Accounts
  <2> HIDE DEF row
  <2>5. account'.available = row.available /\ account'.reserved = row.reserved /\ account'.open = row.open
    BY <2>2, <2>3, <2>4
  <2> QED
    BY <1>2, <2>1, <2>5, SameBooks
<1> QED
  BY <1>3, <1>4
-----------------------------------------------------------------------------
(* Every step keeps the books.                                             *)
LEMMA NextBooks ==
  ASSUME IInv, LedgerInv, [Next]_vars
  PROVE  LedgerInv'
<1>1. TypeOK /\ HoldInv /\ BooksInv
  BY DEF IInv, LedgerInv
<1>2. CASE Summary
  BY <1>1, <1>2, SummaryBooks DEF Summary
<1>3. CASE BindCustomer
  BY <1>1, <1>3, BindCustomerBooks
<1>4. CASE Tick
  BY <1>4, SameBooks DEF Tick
<1>5. ASSUME NEW s \in Sessions, Checkout(s) PROVE LedgerInv'
  BY <1>5, SameBooks DEF Checkout
<1>6. ASSUME NEW o \in Objectives, ReserveObjective(o) PROVE LedgerInv'
  BY <1>1, <1>6, ReserveBooks
<1>7. ASSUME NEW o \in Objectives, ReserveAgain(o) PROVE LedgerInv'
  BY <1>1, <1>7, SummaryBooks DEF ReserveAgain
<1>8. ASSUME NEW o \in Objectives, ReleaseObjective(o) PROVE LedgerInv'
  BY <1>1, <1>8, ReleaseBooks
<1>9. ASSUME NEW o \in Objectives, NEW u \in Usages, NEW ev \in EventIds, SettleObjective(o, u, <<o, ev>>)
      PROVE  LedgerInv'
  BY <1>1, <1>9, SettleBooks
<1>10. ASSUME NEW o \in Objectives, NEW k \in ClientKeys, NEW n \in RefundAmounts, RefundObjective(o, k, n)
       PROVE  LedgerInv'
  BY <1>1, <1>10, RefundBooks
<1>11. ASSUME NEW k \in ClientKeys, NEW n \in GrantAmounts, AddCredits(k, n) PROVE LedgerInv'
  BY <1>1, <1>11, AddCreditsBooks
<1>12. ASSUME NEW e \in StripeEvents, Webhook(e) PROVE LedgerInv'
  BY <1>1, <1>12, PackPaidBooks, SubscriptionBooks, InvoiceBooks, LegacyBooks DEF Webhook
<1>13. CASE UNCHANGED vars
  BY <1>13, SameBooks DEF vars
<1> QED
  BY <1>2, <1>3, <1>4, <1>5, <1>6, <1>7, <1>8, <1>9, <1>10, <1>11, <1>12, <1>13 DEF Next

(* An empty ledger balances.                                               *)
LEMMA InitBooks == Init => LedgerInv
<1> SUFFICES ASSUME Init PROVE LedgerInv
  OBVIOUS
<1> DEFINE e == {}
           f == [o \in e |-> reservations[o].estimate]
           g == [o \in e |-> Excess(reservations[o])]
<1>1. /\ account.available = 0 /\ account.reserved = 0 /\ ledger = {} /\ processed = {}
      /\ \A o \in Objectives : reservations[o].status = "none" /\ reservations[o].actual = 0
  BY DEF Init, NoAccount, NoReservation
<1>2. In(reservations, "reserved") = {} /\ In(reservations, "settled") = {} /\ IsFiniteSet({})
  BY <1>1, FS_EmptySet DEF In
<1>3. SumFunction(f) = 0 /\ SumFunction(g) = 0
  <2>1. DOMAIN f = {} /\ DOMAIN g = {}
    OBVIOUS
  <2> HIDE DEF f, g
  <2>2. SumFunctionOnSet(f, {}) = 0 /\ SumFunctionOnSet(g, {}) = 0
    BY SumEmpty
  <2> QED
    BY <2>1, <2>2 DEF SumFunction
<1>4. Balanced(account.available, ledger)
  BY <1>1, <1>2, TotalOfNothing DEF Balanced, Sheet
<1>5. Held(account.reserved, reservations)
  BY <1>1, <1>2, <1>3 DEF Held
<1>6. Funded(account.available, reservations)
  <2>1. SumFunction([o \in In(reservations, "settled") |-> Excess(reservations[o])]) = 0
    BY <1>2, <1>3
  <2>2. IsFiniteSet(In(reservations, "settled"))
    BY <1>2
  <2> QED
    BY <1>1, <2>1, <2>2 DEF Funded
<1>7. Paid(ledger, processed)
  BY <1>1 DEF Paid, HasKey
<1>8. ASSUME NEW o \in Objectives PROVE Nets(ledger, o, reservations[o]) /\ Keyed(ledger, o, reservations[o])
  <2>1. RefundsIn(ledger, o) = {} /\ OfObjective(ledger, o) = {}
    BY <1>1 DEF RefundsIn, OfObjective
  <2>2. Nets(ledger, o, reservations[o])
    BY <1>1, <2>1, TotalOfNothing DEF Nets
  <2>3. Keyed(ledger, o, reservations[o])
    BY <1>1 DEF Keyed, HasKey
  <2> QED
    BY <2>2, <2>3
<1> QED
  BY <1>1, <1>4, <1>5, <1>6, <1>7, <1>8 DEF LedgerInv, BooksInv, Books, ShutInv

(* The books are in order in every reachable state.                        *)
THEOREM BooksInvariance == Spec => []LedgerInv
<1>1. IInv /\ LedgerInv /\ [Next]_vars => LedgerInv'
  BY NextBooks
<1> QED
  BY BillingInvariance, InitBooks, <1>1, PTL DEF Spec

(* The balance is the sum of the ledger, for every sequence of grants,     *)
(* holds, settlements, refunds, replayed calls and webhooks.               *)
THEOREM LedgerSumIsBalance == Spec => []BalanceIsLedgerSum
<1>1. LedgerInv => BalanceIsLedgerSum
  BY DEF LedgerInv, BooksInv, Books, Balanced, BalanceIsLedgerSum
<1> QED
  BY BooksInvariance, <1>1, PTL

(* What the account holds is what its open reservations estimate.          *)
THEOREM HeldIsEstimated == Spec => []HeldIsOpenReservations
<1>1. LedgerInv => HeldIsOpenReservations
  BY DEF LedgerInv, BooksInv, Books, Held, In, Active, HeldIsOpenReservations
<1> QED
  BY BooksInvariance, <1>1, PTL

(* An objective's entries net to what it owes and its refunds stay within  *)
(* its cost.                                                               *)
THEOREM ObjectivesNetToCost == Spec => []ObjectiveNetsToCost
<1>1. LedgerInv => ObjectiveNetsToCost
  <2> SUFFICES ASSUME LedgerInv, NEW o \in Objectives
               PROVE  LET r == reservations[o]
                          net == Total({e \in ledger : e.objective = o})
                          refunded == Total(Refunds(o))
                      IN /\ refunded <= r.actual
                         /\ net = CASE r.status = "reserved" -> -r.estimate
                                    [] r.status = "settled"  -> refunded - r.actual
                                    [] OTHER                 -> 0
    BY DEF ObjectiveNetsToCost
  <2>1. Nets(ledger, o, reservations[o])
    BY DEF LedgerInv, BooksInv, Books
  <2> QED
    BY <2>1 DEF Nets, RefundsIn, OfObjective, Refunds
<1> QED
  BY BooksInvariance, <1>1, PTL

(* The balance is below zero only by measured over-runs.                   *)
THEOREM OverdraftIsOverrun == Spec => []OverdraftOnlyFromOverruns
<1>1. LedgerInv => OverdraftOnlyFromOverruns
  <2> SUFFICES ASSUME LedgerInv PROVE OverdraftOnlyFromOverruns
    OBVIOUS
  <2>1. Settled = In(reservations, "settled")
    BY DEF Settled, In
  <2>2. \A o \in Objectives : Overrun(o) = Excess(reservations[o])
    BY DEF Overrun, Excess
  <2>3. [o \in Settled |-> Overrun(o)] = [o \in In(reservations, "settled") |-> Excess(reservations[o])]
    BY <2>1, <2>2 DEF In
  <2>4. account.available + SumFunction([o \in In(reservations, "settled") |-> Excess(reservations[o])]) >= 0
    BY DEF LedgerInv, BooksInv, Books, Funded
  <2> QED
    BY <2>3, <2>4 DEF OverdraftOnlyFromOverruns
<1> QED
  BY BooksInvariance, <1>1, PTL
=============================================================================
