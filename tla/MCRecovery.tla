----------------------------- MODULE MCRecovery -----------------------------
(* The progress of hosted execution for TLC: two objectives that compete   *)
(* for one slot, or one objective whose cancellation request is delivered  *)
(* and recovered at every start.                                           *)
EXTENDS CancellationRecovery

VARIABLE part    \* what a behaviour is about

OneTenant == {"t"}
SameTenant == [o \in Objectives |-> "t"]

(* Workers do not report by themselves: the controllers end every run.     *)
Queue == recovery'.starts = 0 /\ \A o \in Objectives : post'[o] = PostDone

(* Only objectives that can be cancelled are submitted.                    *)
Requested == \A o \in Objectives \ Cancellable : arrival'[o] = 0

MCInit == RecoveryInit /\ part \in {"queue", "recovery"}

MCNext ==
  /\ RecoveryNext
  /\ part = "queue" => Queue
  /\ part = "recovery" => Requested
  /\ UNCHANGED part

MCSpec == MCInit /\ [][MCNext]_<<recoveryVars, part>> /\ Fairness
=============================================================================
