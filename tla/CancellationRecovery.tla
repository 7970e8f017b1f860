------------------------ MODULE CancellationRecovery ------------------------
(***************************************************************************)
(* Hosted execution together with the recovery of undelivered cancellation *)
(* requests that every gateway instance runs once when it starts           *)
(* (ObjectiveCancellationService.recover_pending).  The recovery reads its *)
(* rows, with the phase the objective had ended in by then, in one         *)
(* transaction and treats them one after another in later ones, while the  *)
(* worker and the controllers go on.                                       *)
(***************************************************************************)
EXTENDS HostedExecution

CONSTANT MaxStarts   \* bound on the starts of an instance

(* Below MAX_CANCELLATION_DELIVERY_ATTEMPTS, so no row is passed over.     *)
ASSUME StartsAssumption == MaxStarts \in 0..6

VARIABLE recovery    \* starts so far, the rows still to treat and the one being delivered

recoveryVars == <<arrival, run, leases, fact, request, bill, backend, allocated,
                  ctl, post, notify, crashes, faults, recovery>>

InFlight == {"read", "run", "cancel"}

(* A row is undelivered from its request until _notify is through; the     *)
(* handler of one that is still in flight died with an earlier process.    *)
Undelivered == {o \in Objectives : request[o] # "none" /\ notify[o] # "delivered"}
RowOf(o) == [o |-> o, terminal |-> fact[o].terminal]

(* The rows written before the process started.                            *)
RecoverList ==
  /\ recovery.todo = {}
  /\ recovery.starts < MaxStarts
  /\ \E S \in SUBSET Undelivered :
       /\ S # {}
       /\ recovery' = [starts |-> recovery.starts + 1, todo |-> {RowOf(o) : o \in S}, o |-> "none"]
  /\ UNCHANGED vars

Waiting == recovery.o # "none" /\ notify[recovery.o] \in InFlight

(* The objective had ended when the rows were read: the answer is written  *)
(* again.                                                                  *)
RecoverTerminal(i) ==
  /\ ~Waiting
  /\ i.terminal # NoEvent
  /\ request' = [request EXCEPT ![i.o] = IF i.terminal[2] = "cancelled" THEN "observed" ELSE "failed"]
  /\ notify' = [notify EXCEPT ![i.o] = "delivered"]
  /\ recovery' = [recovery EXCEPT !.todo = @ \ {i}, !.o = "none"]
  /\ UNCHANGED <<arrival, run, leases, fact, bill, external, ctl, post, crashes, faults>>

(* It had not: a failed request is opened again, and _notify delivers it.  *)
RecoverReopen(i) ==
  /\ ~Waiting
  /\ i.terminal = NoEvent
  /\ request' = [request EXCEPT ![i.o] = IF @ = "failed" THEN "requested" ELSE @]
  /\ notify' = [notify EXCEPT ![i.o] = "read"]
  /\ recovery' = [recovery EXCEPT !.todo = @ \ {i}, !.o = i.o]
  /\ UNCHANGED <<arrival, run, leases, fact, bill, external, ctl, post, crashes, faults>>

(* The instance stops before its recovery is through.                      *)
RecoverCrash ==
  /\ recovery.todo # {}
  /\ crashes < MaxCrashes
  /\ crashes' = crashes + 1
  /\ recovery' = [recovery EXCEPT !.todo = {}, !.o = "none"]
  /\ UNCHANGED <<durable, external, ctl, post, notify, faults>>

Recover ==
  \/ RecoverList
  \/ \E i \in recovery.todo : RecoverTerminal(i) \/ RecoverReopen(i)
  \/ RecoverCrash

RecoveryInit == Init /\ recovery = [starts |-> 0, todo |-> {}, o |-> "none"]
RecoveryNext == (Next /\ UNCHANGED recovery) \/ Recover

RecoverySpec == RecoveryInit /\ [][RecoveryNext]_recoveryVars
=============================================================================
