------------------------ MODULE ObjectiveProjection -------------------------
(***************************************************************************)
(* The public state of one objective, projected from persisted facts       *)
(* (structured_runtime.persist_objective_state, deployment_mode).  Every   *)
(* writer of a fact persists the projection in its own transaction, so a   *)
(* projection that is refused takes the fact down with it.                 *)
(***************************************************************************)
EXTENDS Integers, FiniteSets

VARIABLES
  facts,       \* submission status, execution phases, terminal phase, cancellation
  projection   \* objective_state_projections: the row of the objective

projectionVars == <<facts, projection>>

Terminals == {"succeeded", "failed", "cancelled"}
Uncertain == {"unknown", "recovering", "waiting_for_input"}
Stages == {"unobserved", "submitting", "queued", "accepted", "running", "terminal"}
Order == [unobserved |-> 0, submitting |-> 1, queued |-> 2, accepted |-> 3, running |-> 4, terminal |-> 5]

NoFacts == [submission |-> "none", phases |-> {}, terminal |-> "none", cancel |-> FALSE]
NoProjection == [state |-> "none", stage |-> "unobserved", cancel |-> "none"]

(* Running evidence is never erased by a late accepted event.              *)
Phase(f) == IF "working" \in f.phases THEN "working"
            ELSE IF "accepted" \in f.phases THEN "accepted" ELSE "none"

(* project_objective_state *)
Stage(f) ==
  CASE f.terminal # "none"            -> "terminal"
    [] OTHER ->
       CASE Phase(f) = "working"      -> "running"
         [] Phase(f) = "accepted"     -> "accepted"
         [] OTHER -> IF f.submission = "accepted" THEN "queued"
                     ELSE IF f.submission = "submitting" THEN "submitting" ELSE "unobserved"

StateOf(f, waiting, recovering) ==
  IF f.terminal # "none" THEN f.terminal
  ELSE IF recovering THEN "recovering"
  ELSE IF waiting THEN "waiting_for_input"
  ELSE IF Stage(f) = "unobserved" THEN "unknown" ELSE Stage(f)

Project(f, waiting, recovering) ==
  LET state == StateOf(f, waiting, recovering)
  IN [state |-> state, stage |-> Stage(f),
      cancel |-> IF state = "cancelled" THEN "observed" ELSE IF f.cancel THEN "requested" ELSE "none"]

(* advance_objective_state: an uncertain update keeps the progress made.   *)
(* Mutant: the update is taken as it is. *)
AdvancedAsIs(p) == p

Advanced(p) ==
  IF projection.state \notin Terminals /\ p.state \in Uncertain
     /\ Order[p.stage] < Order[projection.stage]
  THEN [p EXCEPT !.stage = projection.stage] ELSE p

Allowed(from, to) ==
  CASE from \in Terminals \cup {"unknown", "recovering", "waiting_for_input"} ->
         from \in Uncertain \/ to = from
    [] from = "none" -> TRUE
    [] OTHER -> to \notin Uncertain \cup Terminals => Order[to] >= Order[from]

Accepts(p) ==
  /\ Allowed(projection.state, p.state)
  /\ Order[p.stage] >= Order[projection.stage]
  /\ projection.cancel # "none" => p.cancel # "none"

(* persist_objective_state: nothing is written without a row to project;   *)
(* the revision counts the changes.  A refused projection raises, and the  *)
(* transaction of the caller is rolled back.                               *)
Persist(f, waiting, recovering) ==
  LET p == Advanced(Project(f, waiting, recovering))
  IN IF f.submission = "none" /\ f.phases = {} THEN UNCHANGED projection
     ELSE Accepts(p) /\ projection' = p
-----------------------------------------------------------------------------
(* What the transactions of the other components make of the facts:        *)
(* claim, accept and fail of a submission, its recovery, the execution     *)
(* events of an objective without a terminal one, a cancellation request.  *)
Claims(f)   == IF f.submission = "none" THEN {[f EXCEPT !.submission = "submitting"]} ELSE {}
AcceptsOf(f) == IF f.submission = "none" THEN {} ELSE {[f EXCEPT !.submission = "accepted"]}
Failures(f) == IF f.submission \in {"none", "accepted"} THEN {}
               ELSE {[f EXCEPT !.submission = "failed"]}

(* A retry's claim and an invalid stored contract do not persist.          *)
Unpersisted(f) == IF f.submission \in {"submitting", "failed"}
                  THEN {[f EXCEPT !.submission = s] : s \in {"submitting", "failed"}} ELSE {}
Recoveries(f) == IF f.submission \in {"submitting", "failed"}
                 THEN {[f EXCEPT !.submission = "submitting"]} ELSE {}
Events(f)   == IF f.terminal # "none" THEN {}
               ELSE IF f.phases = {} THEN {[f EXCEPT !.phases = {"accepted"}]}
               ELSE {[f EXCEPT !.phases = @ \cup {"working"}]}
                    \cup {[f EXCEPT !.terminal = t] : t \in Terminals}
CancelRequests(f) == IF (f.submission # "none" \/ f.phases # {}) /\ f.terminal = "none"
                     THEN {[f EXCEPT !.cancel = TRUE]} ELSE {}

Moves(f) == Claims(f) \cup AcceptsOf(f) \cup Failures(f) \cup Events(f) \cup CancelRequests(f)

RecordFact(waiting) ==
  \/ \E f \in Moves(facts) : facts' = f /\ Persist(f, waiting, FALSE)
  \/ \E f \in Recoveries(facts) : facts' = f /\ Persist(f, waiting, TRUE)
  \/ facts' \in Unpersisted(facts) /\ UNCHANGED projection

ProjectionInit == facts = NoFacts /\ projection = NoProjection

(* No writer's transaction is ever rolled back because the projection of   *)
(* its facts would be refused, in whatever order submissions, recoveries,  *)
(* events, decisions and cancellations are recorded.                       *)
NothingIsRefused ==
  /\ \A f \in Moves(facts), waiting \in BOOLEAN : Accepts(Advanced(Project(f, waiting, FALSE)))
  /\ \A f \in Recoveries(facts), waiting \in BOOLEAN : Accepts(Advanced(Project(f, waiting, TRUE)))
  /\ projection.state # "none" =>
       \A waiting \in BOOLEAN : Accepts(Advanced(Project(facts, waiting, FALSE)))
=============================================================================
