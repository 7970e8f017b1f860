----------------------------- MODULE Decisions ------------------------------
(***************************************************************************)
(* Captain decisions (firstmate_decisions.py) of one task.  Firstmate      *)
(* holds the task, each hold with a lifecycle identity of its own, and     *)
(* pushes complete projections of what is open, which arrive in any order  *)
(* and any number of times.  The owner answers with a chat message, in two *)
(* steps; every gateway process serializes them with its own lock, which   *)
(* it keeps while it runs Firstmate's command.                             *)
(***************************************************************************)
EXTENDS ObjectiveProjection, Sequences

CONSTANTS
  DecisionServers,  \* gateway processes
  MaxLives,         \* bound on the holds of the task
  MaxPushes,        \* bound on the projections Firstmate makes
  MaxAnswers,       \* bound on the owner's chat messages
  MaxClaims         \* bound on the executions of one answer

ASSUME DecisionConstants ==
  /\ MaxLives \in Nat /\ MaxPushes \in Nat /\ MaxAnswers \in Nat /\ MaxClaims \in Nat

Lives == 1 .. MaxLives
Answers == 1 .. MaxAnswers
Wordings == {"plain", "risky"}
Requests == 0 .. 2    \* the request an event is bound to, 0 if none

VARIABLES
  deployment,  \* how the gateway runs: local, personal or hosted
  hold,        \* Firstmate: the latest hold of the task
  released,    \* Firstmate: <<l, m>> when hold l was released by answer m
  pushes,      \* the projections Firstmate made, in the order of observed_at
  lastPush,    \* firstmate_decision_sources.last_observed_at
  decision,    \* firstmate_decisions: the row of each hold
  newest,      \* the latest user message of the conversation
  confirmations, \* usable firstmate_decision_answer_confirmations
  answer,      \* firstmate_decision_answers: the row of each message
  executor,    \* what a process does under its lock
  delivery,    \* hosted_decision_deliveries
  expired,     \* requests that have expired
  scope        \* whether project and repository are still authorized

decisionVars == <<deployment, hold, released, pushes, lastPush, decision, newest, confirmations,
                  answer, executor, delivery, expired, scope>>
decisionsVars == <<projectionVars, decisionVars>>

NoHold == [life |-> 0, open |-> FALSE, wording |-> "plain", req |-> 0]
NoDecision == [state |-> "none", rev |-> 0, wording |-> "plain", req |-> 0, created |-> 0]
NoAnswer == [life |-> 0, rev |-> 0, status |-> "none", claim |-> 0, leased |-> FALSE]
Unlocked == [pc |-> "idle", m |-> 0, claim |-> 0, resumed |-> FALSE, result |-> "none"]

Waiting(d) == \E l \in Lives : d[l].state \in {"pending", "answering"}
-----------------------------------------------------------------------------
DecisionInit ==
  /\ ProjectionInit
  /\ deployment \in {"local", "personal", "hosted"}
  /\ hold = NoHold /\ released = {} /\ pushes = << >> /\ lastPush = 0
  /\ decision = [l \in Lives |-> NoDecision]
  /\ newest = 0 /\ confirmations = {}
  /\ answer = [m \in Answers |-> NoAnswer]
  /\ executor = [i \in DecisionServers |-> Unlocked]
  /\ delivery = [x \in Lives \X Answers |-> "none"]
  /\ expired = {} /\ scope = "authorized"
-----------------------------------------------------------------------------
(* Firstmate: a task is held again after its hold was closed, a hold may   *)
(* be reworded or bound to a new request, or closed by the captain.  The   *)
(* order of wordings and requests bounds how often.                        *)
Hold(req) ==
  /\ ~hold.open /\ hold.life < MaxLives
  /\ hold' = [life |-> hold.life + 1, open |-> TRUE, wording |-> "plain", req |-> req]
  /\ UNCHANGED released

Reword(wording, req) ==
  /\ hold.open /\ <<wording, req>> # <<hold.wording, hold.req>>
  /\ wording = "risky" \/ wording = hold.wording
  /\ req = 0 \/ req > hold.req
  /\ hold' = [hold EXCEPT !.wording = wording, !.req = req]
  /\ UNCHANGED released

CloseHold ==
  /\ hold.open
  /\ hold' = [hold EXCEPT !.open = FALSE]
  /\ UNCHANGED released

Push ==
  /\ Len(pushes) < MaxPushes
  /\ pushes' = Append(pushes, IF hold.open THEN hold ELSE NoHold)
  /\ UNCHANGED <<hold, released>>

Firstmate ==
  /\ \/ /\ \/ \E req \in Requests : Hold(req) \/ \E w \in Wordings : Reword(w, req)
           \/ CloseHold
        /\ UNCHANGED pushes
     \/ Push
  /\ UNCHANGED <<projectionVars, deployment, lastPush, decision, newest, confirmations, answer,
                 executor, delivery, expired, scope>>
-----------------------------------------------------------------------------
(* _request_scope: the request names work that exists in an active project.*)
InScope(req) == req = 0 \/ (facts.phases # {} /\ scope # "archived")

(* _require_current_request of an answer.                                  *)
Answerable(d) ==
  /\ d.req = 0 => deployment # "personal"
  /\ d.req # 0 => d.req \notin expired /\ InScope(d.req) /\ scope = "authorized"
                  /\ facts.terminal = "none"

Locked(i) == executor[i].pc # "idle"

(* A bound request is not downgraded, nor replaced under an answer.        *)
Rebindable(d, h) ==
  d.req \in {0, h.req} \/ (h.req # 0 /\ d.state \notin {"answering", "answered"})

(* How the row of the hold a projection shows is brought up to date ...    *)
Shown(d, h) ==
  CASE d.state = "none" -> [state |-> "pending", rev |-> 1, wording |-> h.wording, req |-> h.req,
                            created |-> newest]
    [] d.state = "resolved" \/ (d.state = "pending" /\ <<d.wording, d.req>> # <<h.wording, h.req>>) ->
         [d EXCEPT !.state = "pending", !.rev = @ + 1, !.wording = h.wording, !.req = h.req]
    [] OTHER -> d

(* ... and the row of one it does not show.                                *)
Hidden(d) ==
  IF d.state \in {"pending", "answering", "answered"}
  THEN [d EXCEPT !.state = "resolved", !.rev = @ + 1] ELSE d

Applied(h) == [l \in Lives |-> IF l = h.life THEN Shown(decision[l], h) ELSE Hidden(decision[l])]

(* ingest_events and apply_snapshot: a projection older than the last one  *)
(* is ignored, the last one may be applied again.                          *)
(* Mutant: the order of observation is not looked at. *)
AnyOrder(t) == TRUE

Fresh(t) == t >= lastPush

ApplySnapshot(t) ==
  LET h == pushes[t]
  IN /\ Fresh(t)
     /\ InScope(h.req)
     /\ h.life # 0 => Rebindable(decision[h.life], h)
     /\ decision' = Applied(h)
     /\ lastPush' = t
     /\ Persist(facts, Waiting(Applied(h)), FALSE)
     /\ UNCHANGED <<facts, deployment, hold, released, pushes, newest, confirmations, answer,
                    executor, delivery, expired, scope>>

(* A hosted workload posts through a service, and so a lock, of its own.   *)
IngestEvents(i, t) == (deployment = "hosted" \/ ~Locked(i)) /\ ApplySnapshot(t)
-----------------------------------------------------------------------------
(* The owner writes the next chat message.                                 *)
SendAnswer ==
  /\ newest < MaxAnswers
  /\ newest' = newest + 1
  /\ UNCHANGED <<projectionVars, deployment, hold, released, pushes, lastPush, decision,
                 confirmations, answer, executor, delivery, expired, scope>>

(* _answer_request: a message that answers nothing yet, and is the newest. *)
Unused(m) == answer[m].status = "none" /\ m = newest

(* prepare_confirmation for the revision the model was shown.              *)
PrepareConfirmation(m, l) ==
  LET d == decision[l]
  IN /\ Unused(m)
     /\ d.state = "pending" /\ Answerable(d) /\ m > d.created /\ d.wording # "risky"
     /\ confirmations' = confirmations \cup {[m |-> m, life |-> l, rev |-> d.rev]}
     /\ UNCHANGED <<projectionVars, deployment, hold, released, pushes, lastPush, decision, newest,
                    answer, executor, delivery, expired, scope>>

PrepareToolAnswer(i, m, l) == ~Locked(i) /\ PrepareConfirmation(m, l)

(* execute_tool_answer: the lock is kept until the command has ended.      *)
Execute(i, m, resumed) ==
  executor' = [executor EXCEPT ![i] = [pc |-> "check", m |-> m, claim |-> answer[m].claim + 1,
                                       resumed |-> resumed, result |-> "none"]]

(* claim_answer with a confirmation ...                                    *)
ClaimAnswer(i, c) ==
  LET d == decision[c.life]
  IN /\ ~Locked(i)
     /\ c \in confirmations
     /\ Unused(c.m)
     /\ d.rev = c.rev /\ d.state = "pending" /\ Answerable(d)
     /\ \A m \in Answers : ~(answer[m].life = c.life /\ answer[m].rev = c.rev
                             /\ answer[m].status \in {"pending", "succeeded"})
     /\ confirmations' = confirmations \ {c}
     /\ answer' = [answer EXCEPT ![c.m] = [life |-> c.life, rev |-> c.rev, status |-> "pending",
                                           claim |-> 1, leased |-> TRUE]]
     /\ decision' = [decision EXCEPT ![c.life].state = "answering"]
     /\ Execute(i, c.m, FALSE)
     /\ UNCHANGED <<projectionVars, deployment, hold, released, pushes, lastPush, newest, delivery,
                    expired, scope>>

(* ... or again when the lease of a pending answer has run out.            *)
ResumeAnswer(i, m) ==
  LET a == answer[m]
  IN /\ ~Locked(i)
     /\ a.status = "pending" /\ ~a.leased /\ a.claim < MaxClaims
     /\ decision[a.life].rev = a.rev /\ Answerable(decision[a.life])
     /\ answer' = [answer EXCEPT ![m].claim = @ + 1, ![m].leased = TRUE]
     /\ Execute(i, m, TRUE)
     /\ UNCHANGED <<projectionVars, deployment, hold, released, pushes, lastPush, decision, newest,
                    confirmations, delivery, expired, scope>>

(* open_identity: Firstmate's own, or the hosted gateway's latest row.     *)
OpenIdentities ==
  IF deployment # "hosted" THEN {IF hold.open THEN hold.life ELSE 0}
  ELSE LET open == {l \in Lives : decision[l].state \in {"pending", "answering"}}
       IN IF open = {} THEN {0} ELSE open

GoOn(i, pc, result) == executor' = [executor EXCEPT ![i].pc = pc, ![i].result = result]

CheckIdentity(i) ==
  LET x == executor[i]
  IN /\ x.pc = "check"
     /\ \E current \in OpenIdentities :
          IF current = answer[x.m].life \/ (current = 0 /\ x.resumed)
          THEN GoOn(i, "answer", "none") ELSE GoOn(i, "finish", "stale")
     /\ UNCHANGED <<hold, released, delivery>>

(* fm-captain-hold.sh answer --release is given the task, not the identity.*)
(* A closed hold accepts the replay of the answer that released it.        *)
CommandAnswer(i) ==
  LET m == executor[i].m
  IN /\ executor[i].pc = "answer" /\ deployment # "hosted"
     /\ \/ /\ hold.open
           /\ hold' = [hold EXCEPT !.open = FALSE]
           /\ released' = released \cup {<<hold.life, m>>}
           /\ GoOn(i, "finish", "ok")
        \/ /\ ~hold.open /\ <<hold.life, m>> \in released
           /\ GoOn(i, "finish", "ok") /\ UNCHANGED <<hold, released>>
        \/ <<hold.life, m>> \notin released /\ GoOn(i, "finish", "rejected") /\ UNCHANGED <<hold, released>>
     /\ UNCHANGED delivery

(* The hosted adapter leaves the answer for the worker and waits for it.   *)
Deliver(i) ==
  LET x == <<answer[executor[i].m].life, executor[i].m>>
  IN /\ executor[i].pc = "answer" /\ deployment = "hosted"
     /\ facts.terminal = "none"
     /\ delivery' = [delivery EXCEPT ![x] = IF @ = "none" THEN "pending" ELSE @]
     /\ GoOn(i, "wait", "none")
     /\ UNCHANGED <<hold, released>>

AwaitDelivery(i) ==
  LET x == <<answer[executor[i].m].life, executor[i].m>>
  IN /\ executor[i].pc = "wait" /\ delivery[x] \in {"accepted", "rejected"}
     /\ GoOn(i, "finish", IF delivery[x] = "accepted" THEN "ok" ELSE "rejected")
     /\ UNCHANGED <<hold, released, delivery>>

(* The command fails, times out or is killed with the process.             *)
AbandonAnswer(i) ==
  /\ Locked(i)
  /\ executor' = [executor EXCEPT ![i] = Unlocked]
  /\ UNCHANGED <<hold, released, delivery>>

RunCommand(i) ==
  /\ CheckIdentity(i) \/ CommandAnswer(i) \/ Deliver(i) \/ AwaitDelivery(i) \/ AbandonAnswer(i)
  /\ UNCHANGED <<projectionVars, deployment, pushes, lastPush, decision, newest, confirmations,
                 answer, expired, scope>>

(* ack_hosted_decision_answer, after the worker has applied the answer.    *)
AcknowledgeDelivery(l, m) ==
  /\ delivery[l, m] = "pending"
  /\ \/ /\ hold.open /\ hold.life = l
        /\ hold' = [hold EXCEPT !.open = FALSE]
        /\ released' = released \cup {<<l, m>>}
        /\ delivery' = [delivery EXCEPT ![<<l, m>>] = "accepted"]
     \/ /\ delivery' = [delivery EXCEPT ![<<l, m>>] = "rejected"]
        /\ UNCHANGED <<hold, released>>
  /\ UNCHANGED <<projectionVars, deployment, pushes, lastPush, decision, newest, confirmations,
                 answer, executor, expired, scope>>

(* finish_answer: only the current claim of a pending answer settles it,   *)
(* and only the revision that is being answered moves.                     *)
(* Mutants: the claim is not compared; the revision is not compared. *)
SettlesAny(x) == answer[x.m].status = "pending"
Settles(x) == answer[x.m].status = "pending" /\ answer[x.m].claim = x.claim

MovesAny(l, a) == TRUE
MovesDecision(l, a) == l = a.life /\ decision[l].rev = a.rev /\ decision[l].state = "answering"

Finished(a, result) ==
  [l \in Lives |->
     IF l # a.life \/ ~MovesDecision(l, a) THEN decision[l]
     ELSE CASE result = "ok"    -> [decision[l] EXCEPT !.state = "answered"]
            [] result = "stale" -> [decision[l] EXCEPT !.state = "resolved", !.rev = @ + 1]
            [] OTHER            -> [decision[l] EXCEPT !.state = "pending"]]

FinishAnswer(i) ==
  LET x == executor[i]
  IN /\ x.pc = "finish"
     /\ executor' = [executor EXCEPT ![i] = Unlocked]
     /\ \/ /\ Settles(x)
           /\ answer' = [answer EXCEPT ![x.m].status = IF x.result = "ok" THEN "succeeded" ELSE "failed"]
           /\ decision' = Finished(answer[x.m], x.result)
           /\ Persist(facts, Waiting(Finished(answer[x.m], x.result)), FALSE)
        \/ ~Settles(x) /\ UNCHANGED <<answer, decision, projection>>
     /\ UNCHANGED <<facts, deployment, hold, released, pushes, lastPush, newest, confirmations,
                    delivery, expired, scope>>
-----------------------------------------------------------------------------
(* Time passes: a lease, a confirmation or a request runs out.             *)
Expire ==
  /\ \/ \E m \in Answers : /\ answer[m].leased
                           /\ answer' = [answer EXCEPT ![m].leased = FALSE]
                           /\ UNCHANGED <<confirmations, expired>>
     \/ \E c \in confirmations : confirmations' = confirmations \ {c} /\ UNCHANGED <<answer, expired>>
     \/ \E r \in Requests \ (expired \cup {0}) :
          expired' = expired \cup {r} /\ UNCHANGED <<answer, confirmations>>
  /\ UNCHANGED <<projectionVars, deployment, hold, released, pushes, lastPush, decision, newest,
                 executor, delivery, scope>>

(* The project is archived or its repository is no longer granted.         *)
LoseScope(s) ==
  /\ scope = "authorized" /\ scope' = s
  /\ UNCHANGED <<projectionVars, deployment, hold, released, pushes, lastPush, decision, newest,
                 confirmations, answer, executor, delivery, expired>>

OtherFact == RecordFact(Waiting(decision)) /\ UNCHANGED decisionVars

DecisionNext ==
  \/ Firstmate
  \/ SendAnswer
  \/ OtherFact
  \/ Expire
  \/ \E s \in {"archived", "revoked"} : LoseScope(s)
  \/ \E i \in DecisionServers :
       \/ \E t \in 1 .. Len(pushes) : IngestEvents(i, t)
       \/ \E m \in Answers, l \in Lives : PrepareToolAnswer(i, m, l)
       \/ \E c \in confirmations : ClaimAnswer(i, c)
       \/ \E m \in Answers : ResumeAnswer(i, m)
       \/ RunCommand(i)
       \/ FinishAnswer(i)
  \/ \E l \in Lives, m \in Answers : AcknowledgeDelivery(l, m)

DecisionSpec == DecisionInit /\ [][DecisionNext]_decisionsVars
-----------------------------------------------------------------------------
(* Older projections cannot reopen newer state: what the owner is asked,   *)
(* or has answered, is what the newest projection applied so far holds     *)
(* open, whatever order the projections arrive in.                         *)
DecisionsFollowNewest ==
  [][\A l \in Lives : decision'[l].state \in {"pending", "answering", "answered"} =>
                        lastPush' >= lastPush /\ pushes'[lastPush'].life = l]_decisionsVars

(* A decision is offered for an answer only while no answer to it is under *)
(* way or recorded, and is shown as answered only when one succeeded.      *)
AnswersTo(l, status) ==
  {m \in Answers : answer[m].life = l /\ answer[m].rev = decision[l].rev /\ answer[m].status = status}
StateMatchesAnswers ==
  \A l \in Lives :
    LET n(status) == Cardinality(AnswersTo(l, status))
    IN /\ decision[l].state \in {"none", "pending", "resolved"} => n("pending") + n("succeeded") = 0
       /\ decision[l].state = "answering" => n("pending") = 1 /\ n("succeeded") = 0
       /\ decision[l].state = "answered"  => n("pending") = 0 /\ n("succeeded") = 1

(* A process whose lease was taken over cannot settle the answer: while    *)
(* the process with the current claim is at work the answer is pending.    *)
ExecutorsAreFenced ==
  \A i \in DecisionServers :
    LET x == executor[i]
    IN Locked(i) /\ x.claim = answer[x.m].claim => answer[x.m].status = "pending"

(* docs/magi-firstmate-decisions-v1.md: reclaiming an expired lease is an  *)
(* idempotent recovery, so an answer that Firstmate has recorded and       *)
(* released the hold with is not reported as failed.                       *)
RecoveredOutcomeIsTrue ==
  \A m \in Answers : answer[m].status = "failed" => <<answer[m].life, m>> \notin released
=============================================================================
