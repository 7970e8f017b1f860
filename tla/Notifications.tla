---------------------------- MODULE Notifications ----------------------------
(***************************************************************************)
(* Remote notification of one attention item of one account                *)
(* (notifications.py, push_receipts.py), by gateway instances that share   *)
(* the database.                                                           *)
(*                                                                         *)
(* An instance reads the item, reconciles its notification_state row,      *)
(* claims the delivery of that revision to the registered device, posts it *)
(* to the push provider and records the ticket; later it asks the provider *)
(* for the receipt of the ticket.  The item, the device and the            *)
(* preferences change between any two of these steps, and every answer may *)
(* be late or lost.                                                        *)
(***************************************************************************)
EXTENDS Integers, FiniteSets

CONSTANTS
  Pushers,       \* gateway instances
  PushTokens,    \* push tokens the owner's devices may register
  MaxRevisions,  \* bound on the revisions of the item
  MAX_SENDS      \* sends of one delivery

ASSUME NotificationConstants == MaxRevisions \in Nat \ {0} /\ MAX_SENDS \in Nat \ {0}

NoToken == "no token"
ASSUME NoTokenIsNotAToken == NoToken \notin PushTokens

(* A delivery is for one fingerprint of the item, here its revision, and   *)
(* one device.  Revision 0 stands for the notification an owner asks for   *)
(* to test a device.                                                       *)
TestPush == 0
Revisions == 1 .. MaxRevisions
Deliveries == (Revisions \cup {TestPush}) \X PushTokens

VARIABLES
  item,     \* the attention item: newest revision, and whether it is shown
  prefs,    \* notification_preferences, with the hour of the day
  notice,   \* notification_state
  device,   \* push_tokens and the owner's access grant
  dead,     \* provider: tokens of devices that are gone
  push,     \* notification_push_deliveries
  pusher,   \* what each instance is sending
  polling   \* deliveries whose receipt each instance asked for

pushVars == <<item, prefs, notice, device, dead, push, pusher, polling>>
ownerVars == <<item, prefs, dead>>

NoNotice == [rev |-> 0, active |-> FALSE, delivered |-> "no", viewed |-> FALSE]
NoDevice == [token |-> NoToken, revoked |-> "no", granted |-> TRUE]
NoPush == [state |-> "none", attempts |-> 0, due |-> FALSE, old |-> FALSE]
NotSending == [pc |-> "idle", rev |-> 0, token |-> NoToken, attempt |-> 0]

PushInit ==
  /\ item = [rev |-> 1, shown |-> TRUE] /\ prefs = "on" /\ notice = NoNotice
  /\ device = NoDevice /\ dead = {}
  /\ push = [d \in Deliveries |-> NoPush]
  /\ pusher = [p \in Pushers |-> NotSending] /\ polling = [p \in Pushers |-> {}]
-----------------------------------------------------------------------------
(* get_registered_push_token: nothing is sent to a revoked token, nor once *)
(* the account's access grant is closed.                                   *)
Registered ==
  IF device.revoked = "no" /\ device.granted THEN device.token ELSE NoToken

Revoke(by) == device' = [device EXCEPT !.revoked = IF @ = "no" THEN by ELSE @]

Sends(p, s) == pusher' = [pusher EXCEPT ![p] = s]

(* get_unified_attention_items: the item as it is now; it is also missing  *)
(* while its provider cannot be read.                                      *)
ReadItem(p) ==
  /\ pusher[p].pc = "idle"
  /\ \E rev \in {0} \cup (IF item.shown THEN {item.rev} ELSE {}) :
       Sends(p, [NotSending EXCEPT !.pc = "reconcile", !.rev = rev])
  /\ UNCHANGED <<ownerVars, notice, device, push, polling>>

(* reconcile_notification_events: the row of an item that is gone, or that *)
(* the mode leaves out, is retired; a new, changed or returning item is    *)
(* undelivered and unread again.  Quiet hours hide the event only.         *)
Reconciled(rev) ==
  IF rev = 0 \/ prefs = "filtered"
  THEN IF notice.active THEN [notice EXCEPT !.active = FALSE, !.delivered = "retired", !.viewed = TRUE]
       ELSE notice
  ELSE IF notice.rev # rev \/ ~notice.active
       THEN [rev |-> rev, active |-> TRUE, delivered |-> "no", viewed |-> FALSE]
       ELSE notice

(* An active row that was not delivered is an event, unless it is quiet.   *)
Undelivered(row) == row.active /\ row.delivered = "no"

ReconcileEvents(p) ==
  /\ pusher[p].pc = "reconcile"
  /\ notice' = Reconciled(pusher[p].rev)
  /\ IF Undelivered(notice') /\ prefs = "on" /\ Registered # NoToken
     THEN Sends(p, [pusher[p] EXCEPT !.pc = "claim", !.token = Registered])
     ELSE Sends(p, NotSending)
  /\ UNCHANGED <<ownerVars, device, push, polling>>

(* send_owner_test_notification. *)
SendTest(p) ==
  /\ pusher[p].pc = "idle" /\ prefs = "on" /\ Registered # NoToken
  /\ Sends(p, [NotSending EXCEPT !.pc = "claim", !.rev = TestPush, !.token = Registered])
  /\ UNCHANGED <<ownerVars, notice, device, push, polling>>

(* claim_send: a delivery that is leased, accepted or ended is not sent    *)
(* again.  A test is refused when another one is recent.                   *)
Claimed(row) ==
  IF row.state = "none" THEN [state |-> "sending", attempts |-> 1, due |-> FALSE, old |-> FALSE]
  ELSE [row EXCEPT !.state = "sending", !.attempts = @ + 1, !.due = FALSE]

Lapsed(row) ==
  IF row.state \notin {"sending", "retry"} THEN row
  ELSE IF row.old THEN [row EXCEPT !.state = "expired"]
  ELSE IF row.due /\ row.attempts >= MAX_SENDS THEN [row EXCEPT !.state = "failed"] ELSE row

Claimable(row) ==
  \/ row.state = "none"
  \/ row.state \in {"sending", "retry"} /\ ~row.old /\ row.due /\ row.attempts < MAX_SENDS

ClaimSend(p) ==
  LET d == <<pusher[p].rev, pusher[p].token>>
  IN /\ pusher[p].pc = "claim"
     /\ \/ /\ Claimable(push[d])
           /\ push' = [push EXCEPT ![d] = Claimed(@)]
           /\ Sends(p, [pusher[p] EXCEPT !.pc = "post", !.attempt = push'[d].attempts])
        \/ /\ ~Claimable(push[d]) \/ (pusher[p].rev = TestPush /\ push[d].state = "none")
           /\ push' = [push EXCEPT ![d] = Lapsed(@)]
           /\ Sends(p, NotSending)
     /\ UNCHANGED <<ownerVars, notice, device, polling>>

(* accepted and send_failed: only the attempt that is still the delivery's *)
(* own may end it.                                                         *)
(* Mutant: an answer is recorded whatever became of the delivery. *)
AttemptAny(p, d) == TRUE
AttemptCurrent(p, d) == push[d].state = "sending" /\ push[d].attempts = pusher[p].attempt

AttemptEnds(p, state) ==
  LET d == <<pusher[p].rev, pusher[p].token>>
  IN /\ push' = IF AttemptCurrent(p, d)
                THEN [push EXCEPT ![d] = [@ EXCEPT !.state = state, !.due = FALSE]] ELSE push
     /\ Sends(p, NotSending)

Failure(p, retryable) == IF retryable /\ pusher[p].attempt < MAX_SENDS THEN "retry" ELSE "failed"

(* send_push_notification: the registration is compared with the claimed   *)
(* token just before the post.                                             *)
Post(p) ==
  /\ pusher[p].pc = "post"
  /\ IF Registered = pusher[p].token
     THEN Sends(p, [pusher[p] EXCEPT !.pc = "answer"]) /\ UNCHANGED push
     ELSE AttemptEnds(p, Failure(p, FALSE))
  /\ UNCHANGED <<ownerVars, notice, device, polling>>

(* The provider accepts, rejects, cannot be reached, or says that the      *)
(* device is gone, which revokes exactly the token that was posted.        *)
PostAnswered(p) ==
  /\ pusher[p].pc = "answer"
  /\ \/ AttemptEnds(p, "pending") /\ UNCHANGED device
     \/ \E retryable \in BOOLEAN : AttemptEnds(p, Failure(p, retryable)) /\ UNCHANGED device
     \/ /\ pusher[p].token \in dead
        /\ AttemptEnds(p, Failure(p, FALSE))
        /\ IF device.token = pusher[p].token THEN Revoke("provider") ELSE UNCHANGED device
  /\ UNCHANGED <<ownerVars, notice, polling>>

PusherStops(p) ==
  /\ pusher[p].pc # "idle" \/ polling[p] # {}
  /\ Sends(p, NotSending) /\ polling' = [polling EXCEPT ![p] = {}]
  /\ UNCHANGED <<ownerVars, notice, device, push>>
-----------------------------------------------------------------------------
(* reconcile_push_receipts.  claim_receipts leases the pending deliveries  *)
(* that are due and gives up those past their lifetime.                    *)
ClaimReceipts(p) ==
  LET claimed == {d \in Deliveries : push[d].state = "pending" /\ ~push[d].old /\ push[d].due}
  IN /\ pusher[p].pc = "idle" /\ polling[p] = {}
     /\ \E d \in Deliveries : push[d].state = "pending" /\ (push[d].old \/ push[d].due)
     /\ push' = [d \in Deliveries |->
          CASE push[d].state = "pending" /\ push[d].old -> [push[d] EXCEPT !.state = "expired"]
            [] d \in claimed                            -> [push[d] EXCEPT !.due = FALSE]
            [] OTHER                                    -> push[d]]
     /\ polling' = [polling EXCEPT ![p] = claimed]
     /\ UNCHANGED <<ownerVars, notice, device, pusher>>

(* receipt: it counts for the device and the fingerprint it is about.      *)
(* Mutant: the receipt counts for whatever the row and the device are now. *)
ReceiptAppliesToAll(d) == TRUE
ReceiptApplies(d) == notice.rev = d[1]

Receipt(p, d) ==
  /\ d \in polling[p]
  /\ polling' = [polling EXCEPT ![p] = @ \ {d}]
  /\ \/ UNCHANGED <<push, notice, device>>
     \/ /\ push[d].state = "pending"
        /\ \/ /\ push' = [push EXCEPT ![d].state = "delivered"]
              /\ notice' = IF /\ device.token = d[2] /\ device.revoked = "no"
                              /\ ReceiptApplies(d) /\ notice.active
                           THEN [notice EXCEPT !.delivered = IF @ = "no" THEN "handoff" ELSE @] ELSE notice
              /\ UNCHANGED device
           \/ /\ push' = [push EXCEPT ![d].state = "failed"]
              /\ IF d[2] \in dead /\ device.token = d[2] THEN Revoke("provider") ELSE UNCHANGED device
              /\ UNCHANGED notice
  /\ UNCHANGED <<ownerVars, pusher>>
-----------------------------------------------------------------------------
(* The owner and the client.  register_push_token and revoke_push_token;   *)
(* the grant ends or is reissued; update_notification_preferences, hours;  *)
(* mark_notification_events_delivered and acknowledge_notification_events. *)
Register(t) == device' = [device EXCEPT !.token = t, !.revoked = "no"]
RevokeToken == device.token # NoToken /\ Revoke("owner")
CloseGrant == device.granted /\ device' = [device EXCEPT !.granted = FALSE]
ReissueGrant ==
  /\ ~device.granted
  /\ device' = [device EXCEPT !.granted = TRUE, !.revoked = IF @ = "no" THEN "owner" ELSE @]

MarkDelivered == notice.active /\ notice' = [notice EXCEPT !.delivered = "client"]
Acknowledge == notice.active /\ notice' = [notice EXCEPT !.delivered = "client", !.viewed = TRUE]

OwnerMoves ==
  /\ \/ /\ (\E t \in PushTokens : Register(t)) \/ RevokeToken \/ CloseGrant \/ ReissueGrant
        /\ UNCHANGED <<ownerVars, notice>>
     \/ /\ prefs' \in {"on", "quiet", "filtered"} /\ prefs' # prefs
        /\ UNCHANGED <<item, dead, notice, device>>
     \/ (MarkDelivered \/ Acknowledge) /\ UNCHANGED <<ownerVars, device>>
     \/ /\ item' \in {[item EXCEPT !.shown = ~@], [rev |-> item.rev + 1, shown |-> TRUE]}
        /\ item'.rev <= MaxRevisions
        /\ UNCHANGED <<prefs, dead, notice, device>>
     \/ /\ \E t \in PushTokens \ dead : dead' = dead \cup {t}
        /\ UNCHANGED <<item, prefs, notice, device>>
  /\ UNCHANGED <<push, pusher, polling>>

(* Time passes: a lease or a delay ends, a delivery reaches its lifetime.  *)
TimePasses ==
  /\ \E d \in Deliveries :
       /\ push[d].state \in {"sending", "retry", "pending"}
       /\ \/ ~push[d].due /\ push' = [push EXCEPT ![d].due = TRUE]
          \/ ~push[d].old /\ push' = [push EXCEPT ![d].old = TRUE, ![d].due = TRUE]
  /\ UNCHANGED <<ownerVars, notice, device, pusher, polling>>

PushNext ==
  \/ \E p \in Pushers :
       \/ ReadItem(p) \/ ReconcileEvents(p) \/ SendTest(p) \/ ClaimSend(p) \/ Post(p)
       \/ PostAnswered(p) \/ PusherStops(p) \/ ClaimReceipts(p)
       \/ \E d \in Deliveries : Receipt(p, d)
  \/ OwnerMoves \/ TimePasses

PushSpec == PushInit /\ [][PushNext]_pushVars
-----------------------------------------------------------------------------
(* A notice is handed off only if its own revision was, and the provider   *)
(* takes away a registration only if that device is gone: late tickets and *)
(* receipts leave a newer revision and a replacement device alone          *)
(* (push_receipts.py: "A late receipt must never revoke/ack a replacement  *)
(* device").                                                               *)
LateReceiptsAreHarmless ==
  /\ notice.delivered = "handoff" => \E t \in PushTokens : push[<<notice.rev, t>>].state = "delivered"
  /\ device.revoked = "provider" => device.token \in dead

(* Once the provider's ticket is recorded, or the delivery has ended, no   *)
(* late answer and no other instance starts the same revision on the same  *)
(* device again, and none is started more than MAX_SENDS times.            *)
RecordedPushIsFinal ==
  [][\A d \in Deliveries :
       /\ push[d].state \notin {"none", "sending", "retry"} => push'[d].state \notin {"sending", "retry"}
       /\ push[d].state \in {"delivered", "failed", "expired"} => push'[d] = push[d]
       /\ push'[d].attempts <= MAX_SENDS]_push
=============================================================================
