----------------------------- MODULE MCEvidence -----------------------------
(* Decisions and the activity projection are fed by Firstmate and share no *)
(* table: a behaviour is about one of them, and within it about one of the *)
(* kinds of trouble it may meet.                                           *)
EXTENDS Decisions, Activity, TLC

CONSTANTS s1, s2

VARIABLE part    \* what a behaviour is about

DecisionParts == {"facts", "races", "bound"}
ActivityParts == {"branch", "captain", "fleet", "client"}

Reordering == Permutations({s1, s2})

MCInit ==
  /\ DecisionInit /\ ActivityInit
  /\ part \in DecisionParts \cup ActivityParts
  /\ deployment \in (CASE part = "races" -> {"local", "hosted"}
                       [] part = "bound" -> {"personal"}
                       [] OTHER          -> {"local"})
  /\ policy \in (CASE part = "branch"  -> {"from-start"}
                   [] part = "captain" -> {"tail", "after:1"}
                   [] OTHER            -> {"tail"})
-----------------------------------------------------------------------------
(* The work is accepted and started before the task is first held.         *)
Working == [submission |-> "accepted", phases |-> {"accepted", "working"}, terminal |-> "none", cancel |-> FALSE]
Starting ==
  {NoFacts, [NoFacts EXCEPT !.submission = "submitting"], [NoFacts EXCEPT !.submission = "accepted"],
   [Working EXCEPT !.phases = {"accepted"}], Working}
Untouched ==
  hold' = NoHold /\ newest' = 0 /\ pushes' = << >> /\ expired' = {} /\ scope' = "authorized"
WorkStarts == facts # Working => facts' \in Starting /\ Untouched

NoFaults == scope' = "authorized" /\ expired' = {} /\ hold'.req = 0 /\ hold'.wording = "plain"
OneServer == Cardinality({i \in DecisionServers : executor'[i] # Unlocked}) <= 1

DecisionPart ==
  CASE part = "facts" -> newest' = 0 /\ hold'.life <= 1 /\ NoFaults
    [] part = "races" -> WorkStarts /\ (facts = Working => facts' = facts) /\ NoFaults
                         /\ answer'[2].claim <= 1 /\ (newest' = 2 => newest = 2 \/ answer[1].claim > 0)
    [] part = "bound" ->
         /\ WorkStarts
         /\ facts = Working => facts' \in {Working, [Working EXCEPT !.terminal = "failed"]}
         /\ hold'.life <= 1 /\ hold'.req <= 1 /\ newest' <= 1 /\ 2 \notin expired' /\ OneServer
         /\ confirmations \subseteq confirmations' \/ answer' # answer
-----------------------------------------------------------------------------
BranchSteps == {"branch-row", "branch-bind", "branch-apply"}
CaptainSteps == {"captain-row", "captain-bind", "captain-apply", "ack"}
Skips(steps) == \A i \in Reconcilers : reconciler'[i].pc \notin steps
OnlyJournal(s) == fleet' = NoFleet /\ UNCHANGED clientVars /\ \A t \in Journals \ {s} : journal'[t] = << >>
OnlyFleet == (\A s \in Journals : journal'[s] = << >>) /\ Skips(BranchSteps \cup CaptainSteps \cup {"captain"})
ToldFirst(s) == rewrites' = 0 /\ journal'[s] # << >> => journal'[s][1] = "told"
ToldOnly(s) == rewrites' = 0 => \A n \in DOMAIN journal'[s] : journal'[s][n] = "told"

ActivityPart ==
  CASE part = "branch"  -> OnlyJournal("branch") /\ ToldFirst("branch") /\ Skips(CaptainSteps)
    [] part = "captain" -> OnlyJournal("captain") /\ ToldOnly("captain") /\ Skips(BranchSteps)
    [] part = "fleet"   -> OnlyFleet /\ UNCHANGED clientVars
    [] part = "client"  -> /\ OnlyFleet /\ Cardinality({i \in Reconcilers : reconciler'[i].pc # "idle"}) <= 1
                           /\ fleet' # fleet => fleet'.at > fleet.at

MCNext ==
  \/ part \in DecisionParts /\ DecisionNext /\ DecisionPart /\ UNCHANGED <<activityVars, part>>
  \/ part \in ActivityParts /\ ActivityNext /\ ActivityPart /\ UNCHANGED <<decisionsVars, part>>

MCSpec == MCInit /\ [][MCNext]_<<decisionsVars, activityVars, part>>
=============================================================================
