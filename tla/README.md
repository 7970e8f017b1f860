# Magistrate: a TLA+ verification project

Magistrate is a gateway (FastAPI, SQLite or PostgreSQL) between people who talk to Magi, a chat
assistant, and Firstmate, which executes the *objectives* the chat hands over. A turn of chat is
answered by a model, or becomes an objective: its context is frozen, its credits are held, a worker
executes it, the worker's events become durable facts, one of them ends it, the hold is
settled and a report appears in the conversation. Meanwhile Firstmate asks for decisions, journals are
projected into an activity feed, phones are notified, accounts sign in and are erased, GitHub and Stripe
redeliver, users cancel and instances crash: this project models what must stay true.

Contents: [inventory](#1-inventory) · [modules](#2-modules-and-how-they-correspond-to-the-code) ·
[runs](#3-runs) · [proofs](#4-proofs) · [disagreements found](#5-where-code-and-documents-disagree) ·
[what is left out](#6-abstractions-and-omissions) · [plan](#7-plan)

Run a configuration with `tlc -config Evidence.cfg MCEvidence`; check proofs with
`tlapm EvidenceProofs.tla` (and the other modules named `*Proofs`, and `LedgerFacts`).

## 1. Inventory

Paths are below `gateway/app/`; the client is `frontend/src/services/`. "Hard" names what a test suite hardly reaches.

| component | state | operations | hard | correct when |
|---|---|---|---|---|
| credit ledger (`billing.py`, `CreditLedger`) | `billing_accounts`, `credit_reservations`, `credit_ledger` | reserve, release, settle, refund, add credits, summary | retries and repeated keys; plan changes between reserve and settle; balance at its limit | balance = sum of the ledger; held = open estimates; each objective nets to its cost; only over-runs overdraw |
| Stripe webhooks (`billing.py`) | `billing_webhook_events`, checkout sessions | `process`, `accept_webhook`, `checkout`, `_customer` | duplicates, any delivery order, dunning | the account reflects the newest event; grace is never extended |
| hosted execution (`hosted_execution.py`) | `hosted_execution_runs` (state, lease, cleaned) | `claim`, `launched`, `launch_failed`, `reconcile_once`, `mark_terminal`, cleanup, `retire_owner` | several instances, stale lists, lost leases, lost answers, crashes between transactions | capacity; one terminal fact; ended runs stay ended; every run drains |
| execution ledger (`firstmate_execution.py`) | execution objectives and events, `terminal_phase`, completion queue | `ingest`, `claim_completion`, `finish_completion`, `recover_interrupted`, `recover_settlements` | commit and settlement are two transactions; two instances recovering | ends at most once; the ending fact settles the hold; one report per terminal event |
| cancellation (`objective_cancellation.py`) | `objective_cancellation_requests` | `request`, `_notify`, `recover_pending` | request before acceptance or racing the terminal event; a failed notification; a recovery that acts on an old phase | the request of an accepted objective is answered by the fact that ends it |
| submission (`magi_firstmate_tools.py`) | `magi_objective_submissions` (claim, lease, status) | claim, dispatch, accept, fail | lease expiry while publishing; retry after an unknown outcome | one task per submission; a hold for every accepted one |
| intake recovery (`firstmate_intake.py`) | — (reads submissions, Firstmate's inbox) | `reconcile_pending_objective_intake`, `note` | crash, cancellation or error between claim, hold, publication and acceptance; two instances starting together | attempts are exclusive; hold before task before acceptance; what was cut short is resolved |
| objective state (`structured_runtime.py`, `deployment_mode.py`) | `objective_state_projections` | `persist_objective_state` inside the transaction of every writer of a fact | a long legal sequence ending in a projection that is refused, which rolls its writer back | no writer is ever refused |
| account lifecycle (`account_lifecycle.py`) | every owner table, staged files | `delete_account`, `enforce_retention` | requests under way while the account goes; a crash between commit and unlinking | nobody can act as an erased account again; nothing of it reappears |
| decisions (`firstmate_decisions.py`) | sources, decisions, confirmations, answers, hosted deliveries | ingest, prepare, claim, answer, finish | projections out of order; a lease taken over while the command runs; a hold replaced under an answer | what is open is what the newest projection shows; an answer is settled once, by its newest claim |
| native chat (`magi_chat_store.py`, `magi_chat_service.py`) | messages, revisions, change log, routes, diagnostics, task registry | submit, complete, fail, cancel, replay, recover pending | late threads of cancelled tasks; retries; restart with pending turns | a late attempt changes nothing; the feed holds every revision; every turn settles |
| completion reports (`firstmate_execution.py`) | `generation_state`, attempt count | `ingest`, `wake`, `claim_completion`, `finish_completion`, `recover_interrupted` | an instance that recovers requeues another's live claim | counted as delivered only when in the conversation, and for good |
| activity (`activity_store.py`, `firstmate_activity.py`, `CanonicalActivity.ts`) | sources, source events, records, change ledger; the client's records and cursor | reconcile, bootstrap, ingest, snapshot, pages, merge | two processes at one cursor; journals truncated or rewritten; pages lost, late or twice | records are those of the accepted lines and the newest snapshot; replay misses nothing open |
| notifications (`notifications.py`, `push_receipts.py`) | notification state, tokens, deliveries with leases, tickets | reconcile, claim send, accepted, failed, claim receipts, receipt | a slow provider against the lease; a receipt after the item or the device changed | a recorded push is not sent again; late receipts touch only what they are about |
| Pi ownership (`pi_ownership.py`) | dispatches, bindings, final messages | prepare, bind, finalize, fail, acknowledge | identical prompts in one session; envelopes late, repeated, cut elsewhere | an answer belongs to one turn |
| sign-in (`provider_auth.py`, `auth.py`) | challenges, assertions, logins, session families, friend-beta grants | exchange, refresh, log out, link, unlink, redeem | reused refresh tokens; unlinks from two devices; an exchange that waits while others move | one live session per family; an account keeps a login |
| projects and memory (`projects.py`, `project_memory.py`) | projects, bindings, entries, revisions, audit, search terms, retrievals | create, archive, bind, put, delete, search, assemble | memory rewritten between assembly and claim; the last revision | every change leaves a trail; an objective has one context |
| GitHub App (`github_app.py`) | transactions, installations, repositories, deliveries | callback, reconcile, upsert, replace, webhooks | redelivery to another instance; a handler that fails half way | callbacks and deliveries take effect once |
| uploads, perception, speech | files, rows, TTLs | save, associate, consume, clean up | expiry racing association | — |
| model routing, Firstmate client, gateway wiring, user interface, CLI, legacy backend | configuration, sockets, UI state | I/O | — | — |

How they interact. Chat calls the submission tool, which reserves credits and publishes the
task; hosted execution polls accepted submissions; worker and controller both report to the
execution ledger through `FirstmateExecutionService.ingest`, which commits the event (and
answers the cancellation request) and then, in a second transaction, settles the hold; the user's
cancellation handler tells the backend directly when a run is allocated and otherwise leaves it to
the controllers. A completed objective queues a report, which a task of the same service generates as an
assistant message of the conversation. Decisions, submissions, cancellations and execution events are the
writers of the public objective state. The claim of a submission assembles its worker context from project
memory on a connection of its own. The database is the only shared state; there is no lock between
instances, and every `await` between two transactions is a point where others move.

`PROJECT.json` lists the hazards line by line, with the property that watches each.

## 2. Modules and how they correspond to the code

| module | what it is |
|---|---|
| `Billing` | the credit ledger and both Stripe webhook processors of one account |
| `CreditHold` | abstract: one hold per objective, ended at most once, by release or by one charge |
| `HostedExecution` | controllers, worker events, cancellation, backend and execution ledger, composed |
| `CancellationRecovery` | `HostedExecution` with the recovery of undelivered cancellation requests at every start |
| `ObjectiveTruth` | abstract: accepted once, ended at most once, requests answered by the ending fact |
| `ObjectiveIntake` | submission of objectives from chat and their recovery at startup |
| `MagiChat` | turns of chat and completion reports, with several instances, crashes and recovery |
| `PiOwnership` | which turn owns which entries of a Pi session |
| `ObjectiveProjection` | the public state of an objective under all its writers |
| `Decisions` | Firstmate's decisions and the owner's answers; extends `ObjectiveProjection` |
| `Activity` | Firstmate's journals and fleet, the projection, the change ledger and the client |
| `Notifications` | one attention item, its pushes, tickets and receipts |
| `Identity` | sign-in, sessions, grants and erasure |
| `ProjectContext` | projects, memory and the context an objective is given |
| `GitHubApp` | installations, repositories and webhooks |
| `BillingProofs`, `HostedProofs`, `IntakeProofs`, `ChatProofs`, `EvidenceProofs`, `IdentityProofs`, `AccountProofs` | theorems, for every value of the constants; `ChatProofs` is about `MagiChat` and `PiOwnership`, `EvidenceProofs` about `Decisions` and `Activity`, `AccountProofs` about `ProjectContext`, `GitHubApp` and `Notifications` |
| `LedgerFacts` | lemmas those proofs share: sums over finite sets, and append-only records numbered 1 .. v |
| `MCBilling`, `MCBillingSpend`, `MCHosted`, `MCRecovery`, `MCConversations`, `MCEvidence`, `MCAccounts` | instances for TLC |

**Billing.** `account`, `reservations`, `ledger`, `processed`, `sessions` are the tables of those
names; `now` is the clock. Each public operation is one `BEGIN IMMEDIATE` (or advisory-lock)
transaction, so each is one action; an operation that raises rolls back, so its error conditions
are the negated guards. `_account`, which opens the account and grants the calendar month's
credits, is part of every action whose code calls it (`OpenedAccount`, `OpenedLedger`). Ledger
rows are records with their idempotency key: `InsertLedger` is the `INSERT OR IGNORE`.
`measured_cost` is computed with its four roundings.

**HostedExecution.** One action per database transaction or external call. `ctl[c]` holds the
program counter and locals of instance `c` inside `run`: `reconcile_once` reads three lists in
turn (`QueuedCancellations`, `ActiveRuns`, `PendingCleanup`) and works through a list it read
earlier (`todo`) while the rows change; `process_once` is `ClaimRun`, `LaunchAccept`,
`LaunchEnsure`, `Launched` or `LaunchFailed`. An exception sends the loop back to idle (`Raise`),
as `run`'s handler does. `post[o]` is the handler of `post_hosted_event` for a terminal event,
`notify[o]` the tail of the cancellation handler, which reads the request, then the run, then calls the backend
(`NotifyRead`, `NotifyRun`, `NotifyCancel`). A request needs a submission row without a terminal phase, accepted or not
(`RequestCancellation`), and a repeated one delivers again what was not delivered (`RetryCancellation`). `fact`, `request`, `bill`, `run` are the rows;
`bill` keeps of the reservation only its status and the event that settled it. `backend` is
external: PUT is idempotent, cancel leaves a tombstone, DELETE forgets, a status may say missing.
`allocated` is a history variable.

A crash (`Crash`, `PostCrash`) loses the program counter and keeps the rows. A fault is a failed
call, a lost answer of a PUT that took effect, a settlement that raises, an execution the backend
forgot, or a lease that expires under a live but slow holder. Both are bounded by constants.

**CancellationRecovery.** `recover_pending` reads the undelivered requests with the phase their objective has ended in by
then (`RecoverList`: those written before the process started, so any nonempty subset) and treats them one by one in later
transactions: an ended one gets its answer again (`RecoverTerminal`), any other is opened again if it had failed and is delivered
(`RecoverReopen`). A handler that is in flight for a recovered row died with an earlier process.

**ObjectiveIntake.** `row` is `magi_objective_submissions` (status, attempt count, whether its
30-second lease runs), `hold` the reservation's status, `task` whether Firstmate was given the task.
Every instance has two threads: `chat` is `FirstmateObjectiveTools.execute` (`Claim`, `Reserve`,
`Dispatch`, `Accept` or `Fail` and `Release`), `boot` is `reconcile_pending_objective_intake`, which
reads its list once (`Boot`) and takes the rows over one by one by comparing the attempt count
(`Recover`), or gives a row up whose contract no longer parses (`GiveUp`). From the reservation on the
two threads run the same code, so they share the actions. A dispatch that fails may or may not have
published, as `tasks-axi add` precedes the inbox wake and a timeout kills it at any point.
`Interrupt` is a cancelled request, which `execute` lets through, or an exception nobody handles,
which ends the whole recovery pass; `store.fail` swallows its own errors. `Restart` is a deploy of an
instance at rest, `Crash` an instance lost where it stands.

**MagiChat.** `chatRow` is the assistant row of a message or report, `chatFeed` the change log,
`chatTask[k, a]` the asyncio task of attempt `a`, `registry` the in-memory `_completion_tasks`. A model or
tool call is one action with every result the provider can give (`Call`), a store operation one action
(`PrepareSubmission`, `CompleteSubmission`, `FailSubmission`, `CancelSubmission`). Cancelling a task that
waits for a database thread leaves that thread behind (`loose`): it may still write. Reports run the same
attempts under their own claims (`Ingest`, `ClaimCompletion`, `PrepareGenerated`, `ReadGenerated`,
`FinishCompletion`). `boot` walks an instance through its startup: `RecoverOrphanedPending` fails every
pending row and `RecoverInterrupted` requeues every claim, those of living instances included.

**PiOwnership.** The session is a list of entries that is written as time goes by; an envelope cites positions
in it. Any envelope may arrive at any time any number of times, which covers loss and reordering. All prompts
are the same text.

**ObjectiveProjection, Decisions.** `facts` is what the writers have recorded of an objective, `projection` the
row of `objective_state_projections`; `Persist` is enabled only if the projection is accepted, as a refusal
rolls the writer back, and `NothingIsRefused` says that it always is. In `Decisions`, `hold`,
`released` and `pushes` are Firstmate's; `decision`, `confirmations`, `answer`, `delivery` are the tables,
`executor[i]` the process's lock with what it does under it (`CheckIdentity`, `CommandAnswer` or
`Deliver` and `AwaitDelivery`, `FinishAnswer`, and `AbandonAnswer` at any of them). The deployment (local,
personal, hosted) is chosen at the start.

**Activity.** A reconciler reads the fleet and the two journals one after the other, each with the separate
reads the adapter makes, and applies what it read to a source row another process may have moved. A
`store` is the records and the change ledger together, as one transaction writes both. The client holds
records and a cursor; `responses` are answers of the gateway not yet merged, which may be lost, repeated or
overtaken. The adapter is the migration path the repository retains beside Firstmate's own producer.

**Notifications.** A pusher reads the item, reconciles, claims with a lease, posts and records the answer, and polls
receipts in between; `PusherStops` is a crash at any of these. `due` and `old` abstract the times of a delivery.

**Identity.** A request is authenticated, waits (for the identity provider, a body, a thread), and then runs its
transaction on what is there by then. That holds for the requests that look at the account again (unlinking, erasure) and for
those that do not: `LinkChallenge` inserts a challenge for an owner, `UpdateProfile` is the upsert of the profile and avatar routes.
`family` is a session family with its refresh tokens (`issued`, `used`) and
bearers (`live`). `erased` and `ended` are history.

**ProjectContext.** A write of memory, a search and a claim resolve their project in one transaction and go on in
another (`work`). `BeginClaim`, `AssembleWorker` and `CommitClaim` are the three parts of a submission's claim;
`dispatched` is history. `Searchable` are the contents with a term to index: one of stop words and single letters has none.

**GitHubApp.** Every store operation of a handler is an action of its own; `upsert_installation` is two (`UpsertRead`,
`UpsertWrite`). `remote` is GitHub; `used` is history.

## 3. Runs

| run | question | result |
|---|---|---|
| `billing` | Does the account stay what its ledger, holds and newest event say? Two objectives, nine webhook events (create, pay, two failures, proration, delete, pack, and a legacy event that is a subscription or a checkout) in every order, two months, a refund and grant amount, two keys. | holds, 377,240 states |
| `hosted_races` | Two instances, the worker's own event, a cancellation, a crash and a fault over one objective: does one fact win, settle alone and stay? | holds, 1,210,491 states |
| `hosted_progress` | Two objectives of one tenant that compete for one slot, or a cancellation requested before or after acceptance, delivered, repeated and recovered at a start; with a crash and a fault, under fairness: is capacity kept, does everything drain, is the request of an accepted objective that has not ended answered? | holds, 369,422 states |
| `intake` | Two instances submit, retry and recover one objective through two crashes and two faults, under fairness: is the order kept, are attempts exclusive, is everything resolved? | holds, 240,098 states |
| `conversations` | Two instances, a turn that calls a tool, one that remembers, one that needs confirmation, or a report, with retry, cancellation and a crash, under fairness; and two Pi turns over four kinds of session: do late attempts change nothing, do feed and counters agree, does everything settle, do answers stay apart? | holds, 188,442 states |
| `evidence` | Two processes, two holds, two projections in any order, two answers with two claims each, and every writer of facts; two reconcilers, two journals of two lines with a rewrite, a fleet, and a client that loses and repeats pages: is what is shown what was told? | holds, 539,627 states |
| `accounts` | Two concurrent requests over two identities, four challenges, two families and two grants; two senders over two devices and two revisions; two requests over two projects and two memory keys; two handlers over two callbacks and two webhooks: does what belongs to an account stay its own? | holds, 417,177 states |
| `billing_spend` | Is the monthly spend limit hard within one period? | violated, see 5 |
| `hosted_cancel` | Does an objective cancelled before launch never get a worker? | violated, see 5 |
| `hosted_settlement` | Is the hold of a retired run settled, unless somebody still will? | violated, see 5 |
| `intake_gate` | Does an accepted submission have its credits held? | violated, see 5 |
| `decision_recovery` | Is an answer that Firstmate applied never recorded as failed? | violated, see 5 |

Properties, by module: `BalanceIsLedgerSum`, `HeldIsOpenReservations`, `ObjectiveNetsToCost`,
`OverdraftOnlyFromOverruns`, `AccountReflectsNewestEvent`, `GraceNeverExtended` and refinement of
`CreditHold` (Billing); `RunningIsAccepted`, `SettledByTerminalFact`, `RetiredIsFinal`, `CapacityRespected`,
`EveryRunDrains`, `EveryRequestIsAnswered` and refinement of `ObjectiveTruth` (HostedExecution);
`HoldThenTaskThenAccept`, `AttemptsAreDistinct`, `AcceptedIsFinal`, `EverySubmissionResolves` (ObjectiveIntake);
`ChatRecordsAgree`, `TurnsOnlyAdvance`, `ReportsAreDelivered`, `TurnsSettle` (MagiChat); `AnswersDoNotCross`
(PiOwnership); `NothingIsRefused` (ObjectiveProjection); `DecisionsFollowNewest`, `StateMatchesAnswers`,
`ExecutorsAreFenced` (Decisions); `ProjectionMatchesSources`, `ReplayMissesNothing` (Activity);
`LateReceiptsAreHarmless`, `RecordedPushIsFinal` (Notifications); `SessionsStayLinear`, `AccountsKeepALogin`,
`ErasedCannotReturn` (Identity); `MemoryKeepsItsTrail`, `ContextStaysFrozen` (ProjectContext); `DeliveriesApplyOnce`
(GitHubApp). Each has a mutant in `PROJECT.json`: a plausible bug in one definition under which TLC finds it
violated.

**Parts.** `MCRecovery`, `MCConversations`, `MCEvidence` and `MCAccounts` each check several questions, the last three of them about components
that share no table, so a behaviour is about one of them: `part`, chosen at the start and never changed, says which, and within it which
kind of trouble is let loose. A part narrows the steps it allows (for instance the
fleet and the client without the journals, a race of two processes without expired requests) because all kinds at once are
out of reach; every action and every disjunct is taken in some part. What a part excludes in combination with others is
covered by the theorems of section 4, which cover every safety property of these runs; only the leads-to properties are checked in their parts alone. Symmetry is used for instances and processes, and in `accounts` for two of the users, none of
whom the specification tells apart; the runs with symmetry state no liveness.

**Bounds.** In `billing`, two objectives are what the holds need to interfere (concurrency 2, a balance that
funds one and a half of them); two keys what two refunds need to exceed a cost together; one tick
per month makes every tick a new calendar period and outlasts the grace. Two instances are what
lease loss needs, one objective is what they fight over. One crash and one fault each separate any
pair of adjacent steps; the theorems of section 4 hold for any number. In the part `queue` of `hosted_progress` the second
objective makes capacity bind; workers there do not report by themselves, so
the controllers must end every run alone, the harder case for liveness. In the part `recovery` requests of different objectives do
not meet, so one suffices; one start, below the code's limit of deliveries, lets a recovery meet a delivery that failed or was cut off, and
the worker may report by itself. `EveryRequestIsAnswered` is about accepted objectives that have not ended: the request of a submission that is
never accepted stays `requested`, as `docs/portfolio-runbook.md:113` has it ("Continue to show requested until a structured terminal
event observes cancellation"), and a request of an ended one may be opened again (end of section 5). In `intake` objectives do
not share state, so one suffices; three chat attempts let two of them and a recovery overlap, and two crashes and two faults
let a recovery be interrupted that repairs an interruption. `StartupRetries` is the code's limit of eight, more than the
interruptions can use up: only giving up an illegible row reaches it, so `EverySubmissionResolves` asks of every
legible row that some recovery finishes it. In `conversations` turns
share only the feed and the counters, so a behaviour follows one; two attempts let a late one meet a
newer one, three wakes let a report be claimed, requeued by recovery and claimed again. In `evidence` a second hold is what an
older projection can be confused with, and a second claim what a taken-over lease needs. In `accounts` four challenges are a sign-in, a
link, a relink and one more in flight; a limit of four revisions is reached; a second delivery id is what a handler could be confused with.

**Deadlock** is checked in the hosted, billing and intake runs: an instance can always wake up or be
restarted. In `conversations`, `evidence` and `accounts` a conversation, a decision or an account may come to rest, by its
bounds and because nobody is obliged to write again, so it is not.

**Fairness.** In `hosted_progress` (`Fairness` of `HostedExecution`): weak fairness on each instance's loop (`run` is
a `while True` that catches every exception and sleeps `poll_seconds`), on the rest of a handler
that has started, on lease expiry (time passes), and on the backend starting and ending a worker:
every launch carries a wall-clock limit which the backend enforces. No fairness for submissions,
requests, crashes, faults, the user's notification or its recovery: cancellation must be answered without them. In `intake`: weak fairness on every thread that has
something to do, on a crashed instance coming up, and on an instance at rest being restarted some
time, which is what the code relies on ("an explicit startup recovery seam, never a read-path or
timer", `firstmate_intake.py:162`): without restarts a cancelled submission stays `submitting`. Nobody is
obliged to retry from chat. The property allows the one other end the code has, retries used up. In `conversations`
(`MagiFairness`): the event loop runs every task that exists and every accepted cancellation to its end (calls carry timeouts, so
a model or tool call returns or raises), and the process manager restarts a gateway, whose startup is not optional. Submissions,
cancellations, deliveries of events, retries and crashes need not happen. The number of claims of a report leaves room for the crashes,
so that the bound itself never strands one.

## 4. Proofs

`HostedProofs` proves, for any finite sets of objectives and instances, any capacities and any number
of crashes and faults:

- `Invariance`: the inductive invariant `IInv`;
- `TypeCorrect`, `AcceptedBeforeLaunch`, `SettlementMatchesFact`, `CapacityHolds`: `TypeOK`,
  `RunningIsAccepted`, `SettledByTerminalFact`, `CapacityRespected` always hold;
- `RetirementIsFinal`: no step takes a run out of `terminal`;
- `LedgerImplementsTruth`: the specification implements `ObjectiveTruth`, step by step.

Assumptions: those named in `HostedExecution` (each objective has a tenant, capacities are
positive, the two sets are finite), which TLC evaluates on its runs.

*The argument.* The properties are not inductive, because a controller or a handler acts on what
it read several steps ago. `IInv` is `TypeOK` and, for each label, what is still true of the
objective a process is at. `ControllerInv(c)`: which list a label belongs to; past the accepting step
the current objective is accepted, and so is every item of an `active` list read earlier; at `settle`
the objective's terminal fact is exactly the event this controller reported. `ObjectiveInv(o)`: a run
that is running or ended, a worker that is queued, running or was ever started, and a posting handler
all belong to an accepted objective; a handler at `settle` reports the fact that ended the objective; a
settled hold names that fact. The step lemmas rest on one observation, `FactStep`: facts only
grow, accepted stays accepted and a terminal fact is never replaced, so a process no step touches
keeps its invariant whatever the others do. `RetirementIsFinal` needs the types only, because every
writer of a row compares its state first (the lease comparison in `launched` and `launch_failed`
includes `state='launching'`). Capacity is a counting argument: the refresh in `claim` only takes
rows out of the allocated set, the claim adds one row where the set and its tenant's part are
below the limit (`FiniteSetTheorems`), every other action keeps or shrinks the set.

`BillingProofs` proves, for every catalog, rate card, event set and clock:

- `BillingInvariance`, `BillingTypes`: its `IInv`, and `TypeOK`;
- `NewestEventWins`: `AccountReflectsNewestEvent`, for events in any order and number;
- `GraceIsFixed`: `GraceNeverExtended`; `LedgerImplementsHold`: the ledger implements `CreditHold`.

*The argument.* An event is dropped when it is older than the account's event time, so the newest one
is applied only if that time never runs ahead of the processed events. `ClockInv` says so: the time is
zero or that of a processed event which moves it. With it, whichever of two events comes first, the newest
is not stale when it arrives and every later arrival is (`NewestInv`). A legacy checkout carries no
time but applies only to accounts with status none or pending, which no subscription event
leaves behind: this is `EventAssumption` on the statuses Stripe sends. `HoldInv` (a hold never taken carries
no charge) is what the refinement needs besides types.

The books are a second invariant on top of it, `LedgerInv`:

- `BooksInvariance`: `LedgerInv` always holds;
- `LedgerSumIsBalance`: `BalanceIsLedgerSum`; `HeldIsEstimated`: `HeldIsOpenReservations`;
- `ObjectivesNetToCost`: `ObjectiveNetsToCost`; `OverdraftIsOverrun`: `OverdraftOnlyFromOverruns`.

*The argument.* `Books` has one part per property (`Balanced`, `Held`, `Nets`, `Funded`) and what makes them inductive: `Keyed` and `Paid`
say which idempotency keys can be in the ledger at all. A ledger entry is added only under a key that is not there, so an
addition changes every sum by its own amount; without `Keyed` a settlement could meet an entry of its own key, change the
balance and add nothing. `Funded`: a hold leaves the balance when it is taken, and only from what is
available, so only the part of a settlement above its estimate can take the balance below zero. `ShutInv`: the first
operation on an account opens it, and before that it is empty. `ObjectiveAssumption` (an objective id is never NULL,
the `objective_id` of a grant) keeps grants out of an objective's sum.

`IntakeProofs` proves, for any objectives, instances, retry limits, crashes and faults:

- `IntakeInvariance`, `IntakeTypes`: its `IInv`, and `TypeOK`;
- `HoldPrecedesTask`: `HoldThenTaskThenAccept`; `NoSharedAttempt`: `AttemptsAreDistinct`;
- `AcceptanceIsFinal`: `AcceptedIsFinal`.

*The argument.* `PassedInv` ties a thread's place to what was done: at `dispatch` a hold was taken, at
`accept` the task is published; holds never return to none and tasks are never withdrawn, so others do not
disturb it. `AttemptInv`: no thread at work is ahead of its row's attempt count, and the count never
goes back while the contract is legible. A thread begins work only by raising the count, so its attempt is
greater than any under way (`AttemptFrame`). Illegible rows are exempt: giving up sets the count
to the limit without comparing it.

`ChatProofs` proves, for any messages, reports, instances, attempts, claims and crashes:

- `ChatInvariance`: its inductive invariant `ChatInv`;
- `LateAttemptsAreFenced`: `TurnsOnlyAdvance`; `DeliveredReportsStay`: `ReportsAreDelivered`;
- `RecordsAgree`: `ChatRecordsAgree`;
- `PiInvariance`: the invariant `PiInv` of `PiOwnership`; `AnswersStayApart`: `AnswersDoNotCross`.

*The argument.* A write of a row compares status and attempt (`Fence`), so a loose thread or an orphaned task finds
another attempt and changes nothing. A report is recorded as completed from what a task read some steps before:
`SeenIsShown` says that what a claim at `finish` has seen completed is completed still, because completed rows never change,
so neither recovery's requeueing nor a second claim can make the record false. `RecordsInv`: the changes of a row are numbered 1 to its
revision in the order of the feed (`Feed`), so a write that reads a revision and appends its successor keeps them gapless; the
counters move with the cardinalities of the sets of rows they count (`Tally`), because every write that counts is fenced by the
status it leaves; and a row that is not there has no revision (`Blank`). `PiInv`: two turns are never bound to one user entry
(`EntriesUnique`, which the prompt alone does not give: it may be the same text), and a turn with an answer is finalized,
and between the start of its binding and its answer the session has no user entry but its own.

`EvidenceProofs` proves about `Decisions`, for any number of processes, holds, projections, messages and claims:

- `DecisionInvariance`: its invariant `DecisionInv`; `WritersAreNotRefused`: `NothingIsRefused`;
- `FencedExecutors`: `ExecutorsAreFenced`; `AnsweredOnce`: `StateMatchesAnswers`;
- `OlderProjectionsChangeNothing`: `DecisionsFollowNewest`.

*The argument.* The stored projection may lag the facts, because two writers do not persist, and may show less progress than was made,
because decisions and recovery make it uncertain. `ProjectionInv` says that the projection never shows more progress than the facts
support, a terminal state only if the facts have it, and a cancellation only if it was requested or observed; facts only grow (`Follows`), so whatever
a writer projects is an advance. `FencedInv`: executors of one answer have different claims, none above the row's count, and only the
holder of the newest finds the answer pending. `MatchInv`: no live answer is for a revision ahead of its decision's, and the state of a decision stands
for the answers to its revision: a projection that hides a decision raises the revision, which is what detaches the answers to the old
one. `NewestInv` ties what is open to the newest projection applied.

About `Activity`, for any number of processes, lines, snapshots, rewritten journals, pages and answers under way, it proves

- `SourcesInvariance`: the invariant `SourcesInv`; `SourcesAreProjected`: `ProjectionMatchesSources`;
- `DeliveryInvariance`: the invariant `DeliveryInv`; `NothingIsMissed`: `ReplayMissesNothing`.

*The argument.* A pass over a source works with a row it read before: `Informed` says of each process that the row it knows is a
beginning of the row now stored (`Begins`). A batch is accepted only if the cursor is still the known one; then the known prefix
is the stored prefix, the prefix comparison makes the lines read continue it (`Continues`), and every line after the cursor is
fresh. `Delivered` is the property with its converse added, that a line without an event has no record; that is what makes the
first record of a line its revision 1. What a batch does to the store is a fold of `Upsert`; `ProjectedPasses` unfolds it into
a chain of stores, each a `Grows` of the one before: the ledger is extended, and a record that differs has a higher revision, of which
the extension tells. `Grows` is all the client's half needs of the gateway's. `Page`: an answer under way carries records
no newer than the store's; one that is behind (`InView`) is told of after the answer's cursor; a replay page has every
entry between two cursors; a snapshot has every open key, or the ledger tells of it later. `Current` says the same of the client. A replay
that moves the cursor starts at or before it (`Fits`), so it has every entry that the cursor passes (`MergeShows`); a fact that a
snapshot drops was closed or is told of after the snapshot.

`IdentityProofs` proves, for any users, identities, challenges, families, grants and requests:

- `IdentityInvariance`: its invariant `IdentityInv`; `LinearSessions`: `SessionsStayLinear`;
- `LoginsRemain`: `AccountsKeepALogin`; `ErasedForGood`: `ErasedCannotReturn`.

*The argument.* `LinearInv`: at most one bearer is live, and the used tokens of an open family are all but the last. `KeepInv`: every account
named by a login has a connected one, which the count inside the unlinking transaction preserves. Erasure is delicate because an exchange
acts on a challenge it read before its awaits: `ExchangeInv` says that while that challenge is still
there, its owner is the account the request read and is not erased. Erasure removes the challenges an account owns, so an exchange under
way finds its challenge gone and cannot name the account again; fresh ids are never those of erased accounts. A challenge that is
written for an account after its erasure stays (end of section 5), but an exchange of it must present a session of its owner, and `ErasedInv`
says that an erased account has no login, session family or grant.

`AccountProofs` proves, for any projects, memory, objectives and requests: `ContextInvariance`, `OneContext` (`ContextStaysFrozen`) and
`TrailIsKept` (`MemoryKeepsItsTrail`); and for any installations, callbacks, deliveries and handlers: `AppInvariance` and `AppliedOnce` (`DeliveriesApplyOnce`).

*The argument.* `FrozenInv`: nothing was dispatched before the first claim, and only the stored context since: the transaction of the claim reads the
row again and, if another request was first, discards what it assembled itself. `AppInv`: a delivery in hand is marked `processing` and is in
one hand; what took effect is marked `consumed` or `processed`, states that nothing leaves. `TrailInv`: the audit events of an entry are
numbered 1 to its revision within the chain that it shares with its scope, each revision has its snapshot, only the last one of a
deleted entry is a tombstone (`Kept`), and a live entry is below the limit, so that its tombstone fits; the indexed terms are
those of the live entries with searchable content. `SnapshotAssumption`: the snapshot of a deletion, `{"deleted":true}`, is not that of a content, which has six fields.

For any instances, devices, revisions and number of sends it proves about `Notifications`:

- `PushInvariance`: its invariant `PushInv`; `LateAnswersAreHarmless`: `LateReceiptsAreHarmless`;
- `PushesAreFinal`: `RecordedPushIsFinal`.

*The argument.* Every delivery only moves forward (`RowAdvances`): an answer of the provider counts only for the attempt that is
the row's own. `delivered` is never left, so a notice that was handed off keeps its witness while its revision stands, and a
changed revision clears the mark; `dead` devices stay dead.

Assumptions on constants are named in the modules (`ChatConstants`, `DecisionConstants`, `NotificationConstants`,
`IdentityConstants`, `ProjectConstants`, `ActivityConstants`, `ObjectiveAssumption`, `SnapshotAssumption`, and that placeholders and ids of different kinds differ); TLC evaluates them on its runs.

*Sums, folds and counts.* The installed provers cannot instantiate the library's induction theorems. `LedgerFacts` argues from the least
counterexample instead: the order of the naturals is well-founded (`NatLessThanWellFounded`), so a set of failing sizes has a
minimum (`WFMin`), which the step refutes. That shows that the recursive function inside a fold exists and is unique, so a sum changes by
the element that is added (`SumFunctionOnSet`), and, in `EvidenceProofs`, that `FoldLeft` passes through a chain of stores. The records of
one key in a sequence are a set of positions, numbered in order (`Numbered`).

*Only model-checked.* Every safety property of the passing runs is stated by a theorem. Liveness under fairness is outside the prover and
stays with TLC: `EveryRunDrains`, `EveryRequestIsAnswered`, `EverySubmissionResolves`, `TurnsSettle`. So are the five disagreements of
section 5, which are counterexamples.

## 5. Where code and documents disagree

1. **Spend meter** (`billing.py:1019`, run `billing_spend`). A paid invoice resets
   `period_spend_microcredits` also when the period's grant was already given: a proration invoice
   lets the account spend more than `docs/billing-and-credits.md:12`'s "hard monthly spend" limit.
2. **Prelaunch cancellation** (`hosted_execution.py:607`, run `hosted_cancel`). A crash between the
   cancelled fact and `mark_terminal` leaves a queued row whose request is no longer `requested`;
   `claim` does not look at `terminal_phase` and launches a worker, against lines 592–593 and
   `docs/hosted-execution.md:53`.
3. **Stranded hold** (`hosted_execution.py:610`, run `hosted_settlement`). A crash between the commit
   of the worker's terminal event and its settlement, then `reconcile_once` retiring the run: nobody
   settles any more, against `docs/billing-and-credits.md:32` and `docs/portfolio-runbook.md:111`.

4. **Recovery without a hold** (`billing.py:418`, run `intake_gate`). A failed dispatch releases the
   hold; the next attempt, from chat or at startup, is handed the released reservation by
   `reserve_objective`, so no balance, entitlement or limit is checked, and the task is published and
   accepted unfunded, against `docs/billing-and-credits.md:18` and `firstmate_intake.py:275`. Settlement then
   refuses the released hold. `tests/test_firstmate_intake.py:132` passes along this path without
   looking at the hold after the recovery.

5. **Recovery of an applied answer** (`firstmate_decisions.py:546`, run `decision_recovery`). A process claims an answer, Firstmate
   releases the hold with it, the process stops before it records this, and the task is held again for a later decision.
   The process that reclaims the lease compares the identity that is open now, finds another one and records the applied answer as failed,
   where `docs/magi-firstmate-decisions-v1.md:133` says that the replay checks make this recovery idempotent: they are reached only
   when no hold is open.

In 2 and 3 the objective still ends once and no hold is settled by another event than the ending one
(the proofs of section 4 cover both): what is wrong is a worker that runs for a cancelled objective, and a
hold that is never returned. In 5 no other decision is answered: what is wrong is the
outcome the owner is told.

Two more follow from steps the models take, and no run states them as a property:

- **A request opened again** (`objective_cancellation.py:155`; `RecoverList`, `PostIngest`, `RecoverReopen`). A starting instance reads
  an undelivered request whose objective runs; the worker's `objective.completed` ends it and answers the request as failed; the
  recovery then sets it to `requested` without looking at the phase again. Its delivery succeeds, so no later recovery selects it: the
  request of a finished objective stays `requested`, against `docs/magi-firstmate-execution-v1.md:106`.
- **Writes after an erasure** (`db.py:2227`, `provider_auth.py:375`; `DeleteAccount`, then `UpdateProfile` or `LinkChallenge`). A request
  that was authenticated before `delete_account` goes on after it: the upsert of `update_profile` brings back the profile, and from the
  avatar route a file, and `create_challenge` inserts a link challenge that names the erased owner, against `main.py:933`
  ("Permanently erase the authenticated principal"). Nobody can sign in or act as the erased account (`ErasedForGood`): what is wrong
  is the personal data that is kept.

## 6. Abstractions and omissions

- Amounts are exact integers; the code divides floats before `math.ceil`, which differs only beyond
  2^53. Signature checks, catalog parsing and portal redirects are left out.
- List limits (`LIMIT 100`, `200`, `1000`) are left out: the instances are far below them. Creation
  time orders rows as the arrival order.
- Of the execution events only accepted, started and the terminal ones are kept; progress events
  change no modelled state. In `HostedExecution` submission is represented by its outcome, an accepted row
  with a hold; that the hold may be released (disagreement 4) is followed in `ObjectiveIntake` only.
- In `HostedExecution` database transactions are taken to succeed except settlement, which may raise for
  want of a rate; in `ObjectiveIntake` any of them may raise (`Interrupt`).
- `ObjectiveIntake` leaves out the personal mode (it refuses every submission before publication), the
  text of a contract (its context is in `ProjectContext`, its public state in `ObjectiveProjection`) and the order of the
  recovery list, which the model leaves open.
- Texts, prompts, hashes and digests are identities: two texts are equal or not. The prefix hash of a journal is the prefix. A
  fingerprint of an attention item is its revision. Times are flags (leased, due, old, expired) that a step of their own sets.
- Ranking of memory and of activity, rendering, pagination limits other than `PageSize`, and retention by age are left out.

### Not modelled

- `HostedExecution`: `retire_owner`, personal holds (`PersonalResourceLedger`), GitHub credentials, and the delivery counter
  of cancellations (the instances stay below its limit). `retire_owner` against a launcher between claim and ensure (`hosted_execution.py:469`) is listed as a hazard without
  a property: what a late execution of an erased account may do is decided by the external backend.
- `attention_actions.py`: its two steps compare a task and a decision key that the items of `attention_service.py` do not carry, so they
  end as stale; there is no state to follow. The attention feed is the item of `Notifications`.
- `ReconcileEvents` of `Notifications` is one step where the code reads the preferences, selects, writes and looks up the token in turn;
  `BeginDelivery` of `GitHubApp` has no comparison of payload hashes, as a delivery id carries a fixed content. `Checkout` of `Billing` has
  no top-up entitlement: it is read in an earlier transaction, and every plan of the catalog has it. A claim whose project is not resolved
  searches the owner's own scope, which no writer of the gateway fills.
- `FirstmateDecisionService.reconcile_snapshot`, the legacy path beside the pushed projections.
- Retention and quotas of uploads; `Identity` has uploads and avatars under way while their account is erased.
- `PiOwnership` models `pi_ownership.py` as its tests drive it: the running gateway does not call it. The socket of
  `pi_adapter_ipc.py` is transport.
- Model routing and providers, media and subprocess I/O, configuration, HTTP wiring, the user interface, the legacy backend, scripts,
  migrations and the database adapter: I/O, or without control of interest.

Observed while modelling and not followed to a property: a request cancelled between `prepare_submission` and the creation of its
task leaves its turn pending until the next start (`magi_chat_service.py:972`; the model lets an accepted request go on); two handlers
may overwrite each other's owner of an installation, as `upsert_installation` checks and acts in two transactions
(`github_app.py:230`); a delivery stays `processing` when its instance dies (`github_app.py:356`); an acknowledgement
by item id covers a newer revision too (`notifications.py:587`); an `invoice.paid` that arrives after a newer event is dropped with its
period's grant (`billing.py:992`).

## 7. Plan

1. `retire_owner` and `delete_account` composed with the launcher of `HostedExecution`: *a fenced owner gets no new worker*.
2. `HostedExecution` started from a released hold (disagreement 4).
3. Refinement of `Decisions` and `MagiChat` to abstract specifications (one answer per decision; one text per turn).
