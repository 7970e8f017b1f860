--------------------------- MODULE ObjectiveTruth ---------------------------
(***************************************************************************)
(* What a user may rely on about an objective, whatever controllers,       *)
(* workers, crashes and cancellation requests do behind it: it is accepted *)
(* once, it ends at most once, and a cancellation request is answered by   *)
(* the very fact that ends the objective: observed when that fact is the   *)
(* cancellation, failed when completion or failure won the race.           *)
(*                                                                         *)
(* HostedExecution.tla is shown to implement it.                           *)
(***************************************************************************)
CONSTANT Objectives

VARIABLES phase,      \* phase[o]: the objective's recorded phase
          request     \* request[o]: the status of its cancellation request

vars == <<phase, request>>

TerminalPhases == {"completed", "failed", "cancelled"}

Init == /\ phase = [o \in Objectives |-> "none"]
        /\ request = [o \in Objectives |-> "none"]

Accept(o) == /\ phase[o] = "none"
             /\ phase' = [phase EXCEPT ![o] = "accepted"]
             /\ UNCHANGED request

Request(o) == /\ phase[o] \notin TerminalPhases
              /\ request[o] = "none"
              /\ request' = [request EXCEPT ![o] = "requested"]
              /\ UNCHANGED phase

Answer(status, p) ==
  IF p = "cancelled"
  THEN IF status \in {"requested", "failed"} THEN "observed" ELSE status
  ELSE IF status = "requested" THEN "failed" ELSE status

Finish(o, p) == /\ phase[o] = "accepted"
                /\ phase' = [phase EXCEPT ![o] = p]
                /\ request' = [request EXCEPT ![o] = Answer(@, p)]

Next == \E o \in Objectives :
          Accept(o) \/ Request(o) \/ \E p \in TerminalPhases : Finish(o, p)

Spec == Init /\ [][Next]_vars
=============================================================================
