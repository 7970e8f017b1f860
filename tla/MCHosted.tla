------------------------------ MODULE MCHosted ------------------------------
(* One or two objectives and two gateway instances for TLC.                *)
EXTENDS HostedExecution, TLC

OneTenant == {"t"}
SameTenant == [o \in Objectives |-> "t"]
Symmetry == Permutations(Controllers)
=============================================================================
