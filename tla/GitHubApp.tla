------------------------------ MODULE GitHubApp ------------------------------
(***************************************************************************)
(* Installations of the GitHub App and the repositories they authorise     *)
(* (github_app.py), kept by gateway instances from three sources: the      *)
(* installation callback, reconciliation with GitHub's API, and signed     *)
(* webhooks, which GitHub repeats, reorders and sends to any instance.     *)
(*                                                                         *)
(* Every store operation is a transaction of its own, and                  *)
(* upsert_installation reads and writes in two, so handlers interleave     *)
(* between the steps written here.                                         *)
(***************************************************************************)
EXTENDS Integers, FiniteSets

CONSTANTS
  Accounts,           \* accounts
  Installations, AppRepositories,
  Transactions,     \* states drawn for an installation callback
  WebhookIds,       \* delivery ids
  Handlers          \* requests handled by the gateway instances

(* Random states and GitHub's delivery ids never coincide.                 *)
ASSUME AppIdsDiffer == Transactions \cap WebhookIds = {} /\ "none" \notin WebhookIds

NoOwner == "no owner"
NoInstallation == "no installation"

VARIABLES
  remote,        \* GitHub: the state of each installation and its repositories
  transaction,   \* github_app_transactions
  installation,  \* github_app_installations
  appRepo,       \* github_app_repositories: the active ones
  webhook,       \* the deliveries GitHub sends: what happened
  delivery,      \* github_webhook_deliveries
  handler,       \* what each handler is doing
  used           \* ghost: how often each callback and delivery took effect

appVars == <<remote, transaction, installation, appRepo, webhook, delivery, handler, used>>

NotThere == [known |-> FALSE, owner |-> NoOwner, status |-> "active"]
Idle == [pc |-> "idle", i |-> NoInstallation, user |-> NoOwner, seen |-> NotThere, status |-> "active",
         repos |-> {}, d |-> "none", then |-> "idle"]

AppInit ==
  /\ remote = [i \in Installations |-> [state |-> "active", repos |-> AppRepositories]]
  /\ transaction = [t \in Transactions |-> [state |-> "none", user |-> NoOwner]]
  /\ installation = [i \in Installations |-> NotThere] /\ appRepo = [i \in Installations |-> {}]
  /\ webhook = [d \in WebhookIds |-> [event |-> "none", i |-> NoInstallation, repos |-> {}]]
  /\ delivery = [d \in WebhookIds |-> "none"]
  /\ handler = [h \in Handlers |-> Idle]
  /\ used = [x \in Transactions \cup WebhookIds |-> 0]

Goes(h, state) == handler' = [handler EXCEPT ![h] = state]
Finished(h) == Goes(h, Idle)
-----------------------------------------------------------------------------
(* GitHub: an installation is suspended, resumed or removed, repositories  *)
(* are added and taken away, and a delivery tells of it.                   *)
RemoteChanges(d, i) ==
  /\ webhook[d].event = "none" /\ remote[i].state # "removed"
  /\ \/ \E state \in {"active", "suspended", "removed"} \ {remote[i].state} :
          /\ remote' = [remote EXCEPT ![i].state = state]
          /\ webhook' = [webhook EXCEPT ![d] = [event |-> state, i |-> i, repos |-> {}]]
     \/ \E r \in AppRepositories, event \in {"added", "edited", "dropped", "deleted"} :
          /\ event = "added" <=> r \notin remote[i].repos
          /\ remote' = [remote EXCEPT ![i].repos = IF event \in {"added", "edited"} THEN @ \cup {r} ELSE @ \ {r}]
          /\ webhook' = [webhook EXCEPT ![d] = [event |-> event, i |-> i, repos |-> {r}]]
  /\ UNCHANGED <<transaction, installation, appRepo, delivery, handler, used>>

(* create_transaction and consume_transaction. *)
CreateTransaction(t, u) ==
  /\ transaction[t].state = "none"
  /\ transaction' = [transaction EXCEPT ![t] = [state |-> "open", user |-> u]]
  /\ UNCHANGED <<remote, installation, appRepo, webhook, delivery, handler, used>>

StateOpen(t) == transaction[t].state = "open"

AppCallback(h, t, i) ==
  /\ handler[h] = Idle /\ StateOpen(t)
  /\ transaction' = [transaction EXCEPT ![t].state = "consumed"]
  /\ used' = [used EXCEPT ![t] = @ + 1]
  /\ Goes(h, [Idle EXCEPT !.pc = "bind", !.i = i, !.user = transaction[t].user])
  /\ UNCHANGED <<remote, installation, appRepo, webhook, delivery>>

(* bind_installation and reconcile ask GitHub for the installation; it may *)
(* be gone, lack permissions, or belong to another account by the time the *)
(* answer is written.                                                      *)
Mine(h) ==
  LET i == handler[h].i
  IN installation[i].known /\ installation[i].owner = handler[h].user /\ installation[i].status = "active"

AskReconcile(h, i, u) ==
  /\ handler[h] = Idle
  /\ Goes(h, [Idle EXCEPT !.pc = "reconcile", !.i = i, !.user = u])
  /\ UNCHANGED <<remote, transaction, installation, appRepo, webhook, delivery, used>>

BeginReconcile(h) ==
  /\ handler[h].pc = "reconcile"
  /\ IF Mine(h) THEN Goes(h, [handler[h] EXCEPT !.pc = "fetch"]) ELSE Finished(h)
  /\ UNCHANGED <<remote, transaction, installation, appRepo, webhook, delivery, used>>

Fetched(h, then) ==
  Goes(h, [handler[h] EXCEPT !.pc = "read", !.status = remote[handler[h].i].state, !.then = then])

SetStatus(i, status) ==
  /\ installation' = [installation EXCEPT ![i].status = IF installation[i].known THEN status ELSE @]
  /\ appRepo' = IF status = "removed" THEN [appRepo EXCEPT ![i] = {}] ELSE appRepo

FetchInstallation(h) ==
  LET i == handler[h].i
  IN /\ handler[h].pc \in {"bind", "fetch"}
     /\ \/ /\ remote[i].state # "removed"
           /\ Fetched(h, IF remote[i].state = "suspended" THEN "idle"
                         ELSE IF handler[h].pc = "bind" THEN "reconcile" ELSE "repositories")
           /\ UNCHANGED <<installation, appRepo>>
        \/ /\ remote[i].state = "removed" /\ handler[h].pc = "fetch"
           /\ SetStatus(i, "removed") /\ Finished(h)
        \/ Finished(h) /\ UNCHANGED <<installation, appRepo>>
     /\ UNCHANGED <<remote, transaction, webhook, delivery, used>>

(* upsert_installation: the row is read, and then replaced by a row whose  *)
(* owner was computed from what was read.                                  *)
UpsertRead(h) ==
  /\ handler[h].pc = "read"
  /\ LET row == installation[handler[h].i]
     IN IF row.known /\ row.owner # NoOwner /\ handler[h].user \notin {NoOwner, row.owner}
        THEN Finished(h)
        ELSE Goes(h, [handler[h] EXCEPT !.pc = "write", !.seen = row])
  /\ UNCHANGED <<remote, transaction, installation, appRepo, webhook, delivery, used>>

OwnerWritten(h) == IF handler[h].user # NoOwner THEN handler[h].user ELSE handler[h].seen.owner
StatusWritten(h) == IF handler[h].status = "as stored" THEN handler[h].seen.status ELSE handler[h].status

UpsertWrite(h) ==
  /\ handler[h].pc = "write"
  /\ installation' = [installation EXCEPT ![handler[h].i] =
       [known |-> TRUE, owner |-> OwnerWritten(h), status |-> StatusWritten(h)]]
  /\ Goes(h, [handler[h] EXCEPT !.pc = handler[h].then])
  /\ UNCHANGED <<remote, transaction, appRepo, webhook, delivery, used>>

(* The pages of repositories are read with an installation token, and      *)
(* replace_repositories writes the ones seen, then ends the others.        *)
FetchRepositories(h) ==
  /\ handler[h].pc = "repositories"
  /\ \/ Goes(h, [handler[h] EXCEPT !.pc = "activate", !.repos = remote[handler[h].i].repos])
     \/ Finished(h)
  /\ UNCHANGED <<remote, transaction, installation, appRepo, webhook, delivery, used>>

ReplaceRepositories(h) ==
  LET i == handler[h].i
  IN /\ \/ /\ handler[h].pc = "activate"
           /\ appRepo' = [appRepo EXCEPT ![i] = @ \cup handler[h].repos]
           /\ Goes(h, [handler[h] EXCEPT !.pc = "deactivate"])
        \/ /\ handler[h].pc = "deactivate"
           /\ appRepo' = [appRepo EXCEPT ![i] = @ \cap handler[h].repos]
           /\ Finished(h)
     /\ UNCHANGED <<remote, transaction, installation, webhook, delivery, used>>
-----------------------------------------------------------------------------
(* begin_delivery: one that was processed is answered as a duplicate, one  *)
(* under way is refused, a failed one may be tried again.                  *)
(* Mutant: only processed deliveries are recognised. *)
NotProcessed(d) == delivery[d] # "processed"
MayProcess(d) == delivery[d] \in {"none", "failed"}

BeginDelivery(h, d) ==
  /\ handler[h] = Idle /\ webhook[d].event # "none" /\ MayProcess(d)
  /\ delivery' = [delivery EXCEPT ![d] = "processing"]
  /\ Goes(h, [Idle EXCEPT !.pc = "webhook", !.d = d, !.i = webhook[d].i])
  /\ UNCHANGED <<remote, transaction, installation, appRepo, webhook, used>>

(* process_webhook. *)
ProcessWebhook(h) ==
  LET d == handler[h].d
      i == handler[h].i
  IN /\ handler[h].pc = "webhook"
     /\ \/ /\ webhook[d].event = "active"
           /\ Goes(h, [handler[h] EXCEPT !.pc = "read", !.status = "active", !.then = "finish"])
           /\ UNCHANGED <<installation, appRepo>>
        \/ /\ webhook[d].event \in {"suspended", "removed"}
           /\ SetStatus(i, webhook[d].event) /\ Goes(h, [handler[h] EXCEPT !.pc = "finish"])
        \/ /\ webhook[d].event \in {"added", "dropped"}
           /\ Goes(h, [handler[h] EXCEPT !.pc = "read", !.status = "as stored", !.then = "apply"])
           /\ UNCHANGED <<installation, appRepo>>
        \/ /\ webhook[d].event \in {"edited", "deleted"}
           /\ Goes(h, [handler[h] EXCEPT !.pc = "apply"]) /\ UNCHANGED <<installation, appRepo>>
     /\ UNCHANGED <<remote, transaction, webhook, delivery, used>>

(* upsert_repository and remove_repositories. *)
ApplyRepositories(h) ==
  LET w == webhook[handler[h].d]
  IN /\ handler[h].pc = "apply"
     /\ appRepo' = [appRepo EXCEPT ![handler[h].i] = IF w.event \in {"added", "edited"} THEN @ \cup w.repos
                                                    ELSE @ \ w.repos]
     /\ Goes(h, [handler[h] EXCEPT !.pc = "finish"])
     /\ UNCHANGED <<remote, transaction, installation, webhook, delivery, used>>

(* finish_delivery: processed, or failed at whatever step raised.          *)
FinishDelivery(h) ==
  LET d == handler[h].d
  IN /\ d # "none"
     /\ \/ /\ handler[h].pc = "finish"
           /\ delivery' = [delivery EXCEPT ![d] = "processed"] /\ used' = [used EXCEPT ![d] = @ + 1]
        \/ /\ handler[h].pc \in {"webhook", "read", "write", "apply"}
           /\ delivery' = [delivery EXCEPT ![d] = "failed"] /\ UNCHANGED used
     /\ Finished(h)
     /\ UNCHANGED <<remote, transaction, installation, appRepo, webhook>>

HandlerStops(h) ==
  /\ handler[h] # Idle /\ Finished(h)
  /\ UNCHANGED <<remote, transaction, installation, appRepo, webhook, delivery, used>>

AppNext ==
  \/ \E d \in WebhookIds, i \in Installations : RemoteChanges(d, i)
  \/ \E t \in Transactions, u \in Accounts : CreateTransaction(t, u)
  \/ \E h \in Handlers :
       \/ \E t \in Transactions, i \in Installations : AppCallback(h, t, i)
       \/ \E i \in Installations, u \in Accounts : AskReconcile(h, i, u)
       \/ \E d \in WebhookIds : BeginDelivery(h, d)
       \/ BeginReconcile(h) \/ FetchInstallation(h) \/ UpsertRead(h) \/ UpsertWrite(h) \/ FetchRepositories(h)
       \/ ReplaceRepositories(h) \/ ProcessWebhook(h) \/ ApplyRepositories(h) \/ FinishDelivery(h) \/ HandlerStops(h)

AppSpec == AppInit /\ [][AppNext]_appVars
-----------------------------------------------------------------------------
(* A callback state binds an installation once, and a delivery that was    *)
(* processed is not processed again, nor by two instances at a time,       *)
(* however often GitHub repeats it and whichever step failed before.       *)
DeliveriesApplyOnce ==
  /\ \A x \in Transactions \cup WebhookIds : used[x] <= 1
  /\ \A d \in WebhookIds : Cardinality({h \in Handlers : handler[h].d = d}) <= 1
=============================================================================
