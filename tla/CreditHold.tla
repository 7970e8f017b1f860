----------------------------- MODULE CreditHold -----------------------------
(***************************************************************************)
(* What the credit ledger promises the execution path about one objective: *)
(* at most one hold is ever taken for it, and the hold ends at most once,  *)
(* either given back or turned into one measured charge that no later      *)
(* retry, duplicate event or refund can change.                            *)
(*                                                                         *)
(* Billing.tla (gateway/app/billing.py) is shown to implement it.          *)
(***************************************************************************)
EXTENDS Integers

CONSTANT Objectives      \* the objectives of one account

VARIABLES hold,          \* hold[o]: the state of o's reservation
          charge         \* charge[o]: the measured cost, once settled

vars == <<hold, charge>>

HoldStates == {"none", "reserved", "released", "settled"}

Init == /\ hold = [o \in Objectives |-> "none"]
        /\ charge = [o \in Objectives |-> 0]

Reserve(o) == /\ hold[o] = "none"
              /\ hold' = [hold EXCEPT ![o] = "reserved"]
              /\ UNCHANGED charge

Release(o) == /\ hold[o] = "reserved"
              /\ hold' = [hold EXCEPT ![o] = "released"]
              /\ UNCHANGED charge

Settle(o) == /\ hold[o] = "reserved"
             /\ hold' = [hold EXCEPT ![o] = "settled"]
             /\ charge'[o] \in Nat
             /\ charge' = [charge EXCEPT ![o] = charge'[o]]

Next == \E o \in Objectives : Reserve(o) \/ Release(o) \/ Settle(o)

Spec == Init /\ [][Next]_vars
=============================================================================
