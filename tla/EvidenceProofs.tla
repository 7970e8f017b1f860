--------------------------- MODULE EvidenceProofs ---------------------------
(***************************************************************************)
(* Proofs about what is projected from Firstmate.                          *)
(*                                                                         *)
(* Decisions and the ObjectiveProjection it extends: no writer's           *)
(* transaction is refused, older projections of a hold change nothing, and *)
(* an answer is settled once, by its current executor.                     *)
(*                                                                         *)
(* Activity: the projection matches its sources whichever process wins a   *)
(* race, and no client misses what is open whichever answers it loses.     *)
(***************************************************************************)
EXTENDS Decisions, Activity, LedgerFacts, FiniteSetTheorems, TLAPS

(* The objective.  High is the progress that the facts stand for: that of  *)
(* the projected stage, except that a failed submission was once made.     *)
Facts == [submission : {"none", "submitting", "accepted", "failed"},
          phases : SUBSET {"accepted", "working"},
          terminal : Terminals \cup {"none"}, cancel : BOOLEAN]
Ordinary == {"submitting", "queued", "accepted", "running"}
Projections == [state : Terminals \cup Uncertain \cup Ordinary \cup {"none"}, stage : Stages,
                cancel : {"none", "requested", "observed"}]

High(f) ==
  IF f.terminal # "none" THEN 5
  ELSE IF "working" \in f.phases THEN 4
  ELSE IF "accepted" \in f.phases THEN 3
  ELSE IF f.submission = "accepted" THEN 2
  ELSE IF f.submission = "none" THEN 0 ELSE 1

(* What the stored projection p may say of the facts f.                    *)
Covered(p, f) ==
  /\ p \in Projections
  /\ p.state \in Terminals => f.terminal = p.state
  /\ p.state \in Ordinary => p.stage = p.state
  /\ Order[p.stage] <= High(f)
  /\ p.cancel # "none" => f.cancel \/ f.terminal = "cancelled"

(* Facts only grow.                                                        *)
Follows(f, g) ==
  /\ g \in Facts
  /\ High(f) <= High(g)
  /\ f.terminal # "none" => g.terminal = f.terminal
  /\ f.cancel => g.cancel

ProjectionInv == facts \in Facts /\ Covered(projection, facts)
-----------------------------------------------------------------------------
LEMMA Ranks ==
  /\ Order["unobserved"] = 0 /\ Order["submitting"] = 1 /\ Order["queued"] = 2
  /\ Order["accepted"] = 3 /\ Order["running"] = 4 /\ Order["terminal"] = 5
  /\ \A s \in Stages : Order[s] \in 0 .. 5
BY DEF Order, Stages

LEMMA HighIsNat == ASSUME NEW f \in Facts PROVE High(f) \in 0 .. 5
BY DEF High

(* The stage of the facts is their progress, or nothing was observed.      *)
LEMMA StageIsHigh ==
  ASSUME NEW f \in Facts
  PROVE  /\ Stage(f) \in Stages
         /\ Stage(f) # "unobserved" => Order[Stage(f)] = High(f)
         /\ Order[Stage(f)] <= High(f)
         /\ Stage(f) = "terminal" <=> f.terminal # "none"
<1>1. CASE f.terminal # "none"
  <2>1. Stage(f) = "terminal" /\ High(f) = 5
    BY <1>1 DEF Stage, High
  <2> QED BY <1>1, <2>1, Ranks DEF Stages
<1>2. CASE f.terminal = "none" /\ "working" \in f.phases
  <2>1. Stage(f) = "running" /\ High(f) = 4
    BY <1>2 DEF Stage, High, Phase
  <2> QED BY <1>2, <2>1, Ranks DEF Stages
<1>3. CASE f.terminal = "none" /\ "working" \notin f.phases /\ "accepted" \in f.phases
  <2>1. Stage(f) = "accepted" /\ High(f) = 3
    BY <1>3 DEF Stage, High, Phase
  <2> QED BY <1>3, <2>1, Ranks DEF Stages
<1>4. CASE f.terminal = "none" /\ "working" \notin f.phases /\ "accepted" \notin f.phases
  <2>1. Phase(f) = "none"
    BY <1>4 DEF Phase
  <2>2. CASE f.submission = "accepted"
    <3>1. Stage(f) = "queued" /\ High(f) = 2
      BY <1>4, <2>1, <2>2 DEF Stage, High
    <3> QED BY <1>4, <3>1, Ranks DEF Stages
  <2>3. CASE f.submission = "submitting"
    <3>1. Stage(f) = "submitting" /\ High(f) = 1
      BY <1>4, <2>1, <2>3 DEF Stage, High
    <3> QED BY <1>4, <3>1, Ranks DEF Stages
  <2>4. CASE f.submission \in {"none", "failed"}
    <3>1. Stage(f) = "unobserved" /\ High(f) \in {0, 1}
      BY <1>4, <2>1, <2>4 DEF Stage, High
    <3> QED BY <1>4, <3>1, Ranks DEF Stages
  <2> QED BY <2>2, <2>3, <2>4 DEF Facts
<1> QED BY <1>1, <1>2, <1>3, <1>4

(* What is projected from facts.                                           *)
LEMMA Projecting ==
  ASSUME NEW f \in Facts, NEW waiting \in BOOLEAN, NEW recovering \in BOOLEAN
  PROVE  LET p == Project(f, waiting, recovering)
         IN /\ p \in Projections /\ p.stage = Stage(f)
            /\ f.terminal # "none" => p.state = f.terminal
            /\ f.terminal = "none" => p.state \in Uncertain \/ (p.state = Stage(f) /\ p.state \in Ordinary)
            /\ p.cancel # "none" <=> f.cancel \/ f.terminal = "cancelled"
<1> DEFINE s == StateOf(f, waiting, recovering)
<1>1. f.terminal # "none" => s = f.terminal /\ s \in Terminals
  BY DEF StateOf, Facts
<1>2. f.terminal = "none" => s \in Uncertain \/ (s = Stage(f) /\ s \in Ordinary)
  <2>1. f.terminal = "none" => Stage(f) \in Ordinary \cup {"unobserved"}
    BY StageIsHigh DEF Stages, Ordinary
  <2> QED BY <2>1 DEF StateOf, Uncertain
<1>3. s = "cancelled" <=> f.terminal = "cancelled"
  BY <1>1, <1>2 DEF Uncertain, Ordinary
<1>4. Stage(f) \in Stages
  BY StageIsHigh
<1> DEFINE c == IF s = "cancelled" THEN "observed" ELSE IF f.cancel THEN "requested" ELSE "none"
<1>5. c \in {"none", "requested", "observed"} /\ (c # "none" <=> f.cancel \/ f.terminal = "cancelled")
  BY <1>3
<1>6. s \in Terminals \cup Uncertain \cup Ordinary \cup {"none"}
  BY <1>1, <1>2
<1>7. Project(f, waiting, recovering) = [state |-> s, stage |-> Stage(f), cancel |-> c]
  BY DEF Project
<1> HIDE DEF s, c
<1> QED BY <1>1, <1>2, <1>4, <1>5, <1>6, <1>7 DEF Projections

(* A projection of facts that only grew is accepted.                       *)
LEMMA Accepted ==
  ASSUME facts \in Facts, Covered(projection, facts), NEW f, Follows(facts, f),
         NEW waiting \in BOOLEAN, NEW recovering \in BOOLEAN
  PROVE  LET p == Advanced(Project(f, waiting, recovering))
         IN Accepts(p) /\ Covered(p, f)
<1> DEFINE p == Project(f, waiting, recovering)
           a == Advanced(p)
<1>1. /\ f \in Facts /\ High(facts) <= High(f)
      /\ facts.terminal # "none" => f.terminal = facts.terminal
      /\ facts.cancel => f.cancel
  BY DEF Follows
<1>2. /\ p \in Projections /\ p.stage = Stage(f)
      /\ f.terminal # "none" => p.state = f.terminal
      /\ f.terminal = "none" => p.state \in Uncertain \/ (p.state = Stage(f) /\ p.state \in Ordinary)
      /\ p.cancel # "none" <=> f.cancel \/ f.terminal = "cancelled"
  BY <1>1, Projecting
<1>3. /\ projection \in Projections
      /\ projection.state \in Terminals => facts.terminal = projection.state
      /\ projection.state \in Ordinary => projection.stage = projection.state
      /\ Order[projection.stage] <= High(facts)
      /\ projection.cancel # "none" => facts.cancel \/ facts.terminal = "cancelled"
  BY DEF Covered
<1>4. /\ Stage(f) \in Stages
      /\ Stage(f) # "unobserved" => Order[Stage(f)] = High(f)
      /\ Order[Stage(f)] <= High(f)
      /\ Stage(f) = "terminal" <=> f.terminal # "none"
  BY <1>1, StageIsHigh
<1>5. High(facts) \in Int /\ High(f) \in Int /\ \A s \in Stages : Order[s] \in Int
  BY <1>1, HighIsNat, Ranks
<1>6. Order[projection.stage] <= High(f) /\ Order[projection.stage] \in Int
  BY <1>1, <1>3, <1>5 DEF Projections
<1>7. p.state \notin Uncertain => Order[p.stage] = High(f)
  <2>1. p.state \notin Uncertain => Stage(f) # "unobserved"
    BY <1>2, <1>4 DEF Ordinary
  <2> QED BY <2>1, <1>2, <1>4
<1>8. a = p \/ (p.state \in Uncertain /\ a = [p EXCEPT !.stage = projection.stage])
  BY DEF Advanced
<1>9. a \in Projections /\ a.state = p.state /\ a.cancel = p.cancel
  BY <1>2, <1>3, <1>8 DEF Projections
<1>10. projection.state \in Terminals => p.state = projection.state
  BY <1>1, <1>2, <1>3 DEF Terminals
<1>11. Order[a.stage] >= Order[projection.stage]
  <2>1. CASE p.state \notin Uncertain
    BY <2>1, <1>6, <1>7, <1>8
  <2>2. CASE p.state \in Uncertain
    <3>1. projection.state \notin Terminals
      BY <1>10, <2>2 DEF Terminals, Uncertain
    <3>2. CASE Order[p.stage] < Order[projection.stage]
      <4>1. a = [p EXCEPT !.stage = projection.stage]
        BY <2>2, <3>1, <3>2 DEF Advanced
      <4>2. a.stage = projection.stage
        BY <4>1, <1>2 DEF Projections
      <4> QED BY <4>2, <1>6
    <3>3. CASE ~(Order[p.stage] < Order[projection.stage])
      <4>1. a = p
        BY <3>3 DEF Advanced
      <4>2. Order[p.stage] \in Int
        BY <1>2, <1>4, <1>5
      <4> HIDE DEF p, a
      <4> QED BY <4>1, <4>2, <3>3, <1>6
    <3> QED BY <3>2, <3>3
  <2> QED BY <2>1, <2>2
<1>12. Order[a.stage] <= High(f)
  <2>1. a.stage = p.stage \/ a.stage = projection.stage
    BY <1>8, <1>2 DEF Projections
  <2> HIDE DEF a, p
  <2> QED BY <2>1, <1>2, <1>4, <1>6
<1> HIDE DEF a, p
<1>13. Allowed(projection.state, a.state)
  <2>1. CASE projection.state \in Terminals
    BY <2>1, <1>9, <1>10 DEF Allowed
  <2>2. CASE projection.state \in Uncertain
    BY <2>2 DEF Allowed, Uncertain
  <2>3. CASE projection.state = "none"
    BY <2>3 DEF Allowed, Uncertain, Terminals
  <2>4. CASE projection.state \in Ordinary
    <3>1. p.state \notin Uncertain \cup Terminals => p.state = Stage(f) /\ p.state \in Ordinary
      BY <1>1, <1>2 DEF Facts
    <3>2. p.state \notin Uncertain \cup Terminals => Order[p.state] >= Order[projection.state]
      BY <3>1, <2>4, <1>2, <1>3, <1>6, <1>7
    <3> QED BY <2>4, <3>2, <1>9 DEF Allowed, Ordinary, Uncertain, Terminals
  <2> QED BY <2>1, <2>2, <2>3, <2>4, <1>3 DEF Projections
<1>14. projection.cancel # "none" => a.cancel # "none"
  BY <1>1, <1>2, <1>3, <1>9
<1>15. Accepts(a)
  BY <1>11, <1>13, <1>14 DEF Accepts
<1>16. a.state \in Terminals => f.terminal = a.state
  BY <1>1, <1>2, <1>9 DEF Terminals, Uncertain, Ordinary
<1>17. a.state \in Ordinary => a.stage = a.state
  <2>1. a.state \in Ordinary => p.state \notin Uncertain
    BY <1>9 DEF Ordinary, Uncertain
  <2>2. a.state \in Ordinary => f.terminal = "none"
    BY <1>1, <1>2, <1>9 DEF Ordinary, Terminals, Facts
  <2> QED BY <2>1, <2>2, <1>2, <1>8, <1>9
<1>18. Covered(a, f)
  BY <1>9, <1>12, <1>16, <1>17, <1>2 DEF Covered
<1> QED BY <1>15, <1>18 DEF a, p

LEMMA FollowsItself == ASSUME NEW f \in Facts PROVE Follows(f, f)
BY HighIsNat DEF Follows

(* Every writer's facts follow the ones it read.                           *)
LEMMA MovesFollow ==
  ASSUME NEW f \in Facts, NEW g \in Moves(f) \cup Recoveries(f) \cup Unpersisted(f)
  PROVE  Follows(f, g)
<1>1. CASE g \in Claims(f)
  <2>1. f.submission = "none" /\ g = [f EXCEPT !.submission = "submitting"]
    BY <1>1 DEF Claims
  <2>2. g \in Facts /\ g.terminal = f.terminal /\ g.phases = f.phases /\ g.cancel = f.cancel
        /\ g.submission = "submitting"
    BY <2>1 DEF Facts
  <2>3. High(f) <= High(g)
    BY <2>1, <2>2 DEF High
  <2> QED BY <2>2, <2>3 DEF Follows
<1>2. CASE g \in AcceptsOf(f)
  <2>1. g = [f EXCEPT !.submission = "accepted"]
    BY <1>2 DEF AcceptsOf
  <2>2. g \in Facts /\ g.terminal = f.terminal /\ g.phases = f.phases /\ g.cancel = f.cancel
        /\ g.submission = "accepted"
    BY <2>1 DEF Facts
  <2>3. High(f) <= High(g)
    BY <2>1, <2>2 DEF High
  <2> QED BY <2>2, <2>3 DEF Follows
<1>3. CASE g \in Failures(f) \cup Recoveries(f) \cup Unpersisted(f)
  <2>1. f.submission \in {"submitting", "failed"}
    BY <1>3 DEF Failures, Recoveries, Unpersisted, Facts
  <2>2. PICK s \in {"submitting", "failed"} : g = [f EXCEPT !.submission = s]
    BY <1>3 DEF Failures, Recoveries, Unpersisted
  <2>3. g \in Facts /\ g.terminal = f.terminal /\ g.phases = f.phases /\ g.cancel = f.cancel
        /\ g.submission \in {"submitting", "failed"}
    BY <2>2 DEF Facts
  <2>4. High(f) <= High(g)
    BY <2>1, <2>3 DEF High
  <2> QED BY <2>3, <2>4 DEF Follows
<1>4. CASE g \in Events(f)
  <2>1. f.terminal = "none"
    BY <1>4 DEF Events
  <2>2. CASE g = [f EXCEPT !.phases = {"accepted"}] /\ f.phases = {}
    <3>1. g \in Facts /\ g.terminal = f.terminal /\ g.phases = {"accepted"} /\ g.cancel = f.cancel
          /\ g.submission = f.submission
      BY <2>2 DEF Facts
    <3>2. High(f) <= High(g)
      BY <2>1, <2>2, <3>1 DEF High
    <3> QED BY <3>1, <3>2 DEF Follows
  <2>3. CASE g = [f EXCEPT !.phases = f.phases \cup {"working"}]
    <3>1. g \in Facts /\ g.terminal = f.terminal /\ g.phases = f.phases \cup {"working"}
          /\ g.cancel = f.cancel /\ g.submission = f.submission
      BY <2>3 DEF Facts
    <3>2. High(f) <= High(g)
      BY <2>1, <3>1 DEF High
    <3> QED BY <3>1, <3>2 DEF Follows
  <2>4. CASE \E t \in Terminals : g = [f EXCEPT !.terminal = t]
    <3>1. PICK t \in Terminals : g = [f EXCEPT !.terminal = t]
      BY <2>4
    <3>2. g \in Facts /\ g.terminal = t /\ g.cancel = f.cancel /\ t # "none"
      BY <3>1 DEF Facts, Terminals
    <3>3. High(g) = 5 /\ High(f) \in 0 .. 5
      BY <3>2, HighIsNat DEF High
    <3> QED BY <2>1, <3>2, <3>3 DEF Follows
  <2> QED BY <1>4, <2>1, <2>2, <2>3, <2>4 DEF Events
<1>5. CASE g \in CancelRequests(f)
  <2>1. g = [f EXCEPT !.cancel = TRUE]
    BY <1>5 DEF CancelRequests
  <2>2. g \in Facts /\ g.terminal = f.terminal /\ g.phases = f.phases /\ g.cancel = TRUE
        /\ g.submission = f.submission
    BY <2>1 DEF Facts
  <2>3. High(f) <= High(g)
    BY <2>2, HighIsNat DEF High
  <2> QED BY <2>2, <2>3 DEF Follows
<1> QED BY <1>1, <1>2, <1>3, <1>4, <1>5 DEF Moves

LEMMA Persisting ==
  ASSUME ProjectionInv, NEW f, Follows(facts, f), facts' = f,
         NEW waiting \in BOOLEAN, NEW recovering \in BOOLEAN, Persist(f, waiting, recovering)
  PROVE  ProjectionInv'
<1>1. Covered(Advanced(Project(f, waiting, recovering)), f) /\ f \in Facts
  BY Accepted DEF ProjectionInv, Follows
<1>2. CASE projection' = projection
  <2>1. Covered(projection, f)
    <3>1. Order[projection.stage] \in Int /\ High(facts) \in Int /\ High(f) \in Int
      BY <1>1, HighIsNat, Ranks DEF ProjectionInv, Covered, Projections
    <3>2. Order[projection.stage] <= High(f)
      BY <3>1 DEF ProjectionInv, Covered, Follows
    <3> QED BY <3>2 DEF ProjectionInv, Covered, Follows, Terminals
  <2> QED BY <1>1, <1>2, <2>1 DEF ProjectionInv
<1>3. CASE projection' = Advanced(Project(f, waiting, recovering))
  BY <1>1, <1>3 DEF ProjectionInv
<1> QED BY <1>2, <1>3 DEF Persist
-----------------------------------------------------------------------------
(* The decisions.                                                          *)
Holds == [life : 0 .. MaxLives, open : BOOLEAN, wording : Wordings, req : Requests]
Open == {"pending", "answering", "answered"}
DecisionRows == [state : Open \cup {"none", "resolved"}, rev : Nat, wording : Wordings,
                 req : Requests, created : Nat]
AnswerRows == [life : 0 .. MaxLives, rev : Nat, status : {"none", "pending", "succeeded", "failed"},
               claim : Nat, leased : BOOLEAN]
Executors == [pc : {"idle", "check", "answer", "wait", "finish"}, m : 0 .. MaxAnswers, claim : Nat,
              resumed : BOOLEAN, result : {"none", "ok", "stale", "rejected"}]

DecisionTypes ==
  /\ hold \in Holds /\ pushes \in Seq(Holds) /\ lastPush \in Nat /\ newest \in Nat
  /\ decision \in [Lives -> DecisionRows]
  /\ confirmations \in SUBSET [m : Answers, life : Lives, rev : Nat]
  /\ answer \in [Answers -> AnswerRows]
  /\ executor \in [DecisionServers -> Executors]

(* What is open is what the newest applied projection shows.               *)
NewestInv ==
  \A l \in Lives : decision[l].state \in Open =>
                     lastPush \in 1 .. Len(pushes) /\ pushes[lastPush].life = l

(* Every execution has a claim of its own, and only the current one finds  *)
(* its answer pending.                                                     *)
Holder(x, ans) ==
  /\ x.m \in Answers /\ 1 <= x.claim /\ x.claim <= ans[x.m].claim
  /\ x.claim = ans[x.m].claim => ans[x.m].status = "pending"
FencedInv ==
  /\ \A m \in Answers : answer[m].status = "none" => answer[m].claim = 0
  /\ \A i \in DecisionServers : executor[i].pc # "idle" => Holder(executor[i], answer)
  /\ \A i, j \in DecisionServers :
       i # j /\ executor[i].pc # "idle" /\ executor[j].pc # "idle" /\ executor[i].m = executor[j].m
       => executor[i].claim # executor[j].claim

(* The answers to the revision of a decision that its state stands for.    *)
At(a, l, r, status) == a.life = l /\ a.rev = r /\ a.status = status
Only(ans, l, r, status, other) ==
  \E m \in Answers : /\ At(ans[m], l, r, status)
                     /\ \A n \in Answers : ~At(ans[n], l, r, other)
                                           /\ (At(ans[n], l, r, status) => n = m)
Match(d, l, ans) ==
  /\ d.state = "none" => d.rev = 0
  /\ \A m \in Answers : ans[m].status \in {"pending", "succeeded"} /\ ans[m].life = l => ans[m].rev <= d.rev
  /\ d.state \in {"none", "pending", "resolved"} =>
       \A m \in Answers : ~At(ans[m], l, d.rev, "pending") /\ ~At(ans[m], l, d.rev, "succeeded")
  /\ d.state = "answering" => Only(ans, l, d.rev, "pending", "succeeded")
  /\ d.state = "answered"  => Only(ans, l, d.rev, "succeeded", "pending")
MatchInv == \A l \in Lives : Match(decision[l], l, answer)

DecisionInv == ProjectionInv /\ DecisionTypes /\ NewestInv /\ FencedInv /\ MatchInv
-----------------------------------------------------------------------------
LEMMA InitialDecisions == DecisionInit => DecisionInv
<1> SUFFICES ASSUME DecisionInit PROVE DecisionInv
  OBVIOUS
<1> USE DecisionConstants
<1>1. facts = NoFacts /\ projection = NoProjection
  BY DEF DecisionInit, ProjectionInit
<1>2. NoFacts \in Facts /\ NoProjection \in Projections
  BY DEF NoFacts, NoProjection, Facts, Projections, Stages
<1>3. High(NoFacts) = 0
  BY DEF High, NoFacts
<1>4. ProjectionInv
  BY <1>1, <1>2, <1>3, Ranks DEF ProjectionInv, Covered, NoProjection, Terminals, Ordinary
<1>5. NoHold \in Holds /\ NoDecision \in DecisionRows /\ NoAnswer \in AnswerRows /\ Unlocked \in Executors
  BY DEF NoHold, NoDecision, NoAnswer, Unlocked, Holds, DecisionRows, AnswerRows, Executors,
         Wordings, Requests
<1>6. DecisionTypes
  BY <1>5 DEF DecisionInit, DecisionTypes
<1>7. NewestInv
  BY DEF DecisionInit, NewestInv, NoDecision, Open
<1>8. FencedInv
  BY DEF DecisionInit, FencedInv, NoAnswer, Unlocked
<1>9. MatchInv
  BY DEF DecisionInit, MatchInv, Match, At, NoAnswer, NoDecision
<1> QED BY <1>4, <1>6, <1>7, <1>8, <1>9 DEF DecisionInv

(* A new revision has no answers yet.                                      *)
LEMMA NewRevision ==
  ASSUME NEW l \in Lives, NEW d \in DecisionRows, NEW e \in DecisionRows,
         answer \in [Answers -> AnswerRows], Match(d, l, answer),
         e.rev > d.rev, e.state \in {"pending", "resolved"}
  PROVE  Match(e, l, answer)
<1>1. \A m \in Answers : answer[m].rev \in Nat
  BY DEF AnswerRows
<1>2. d.rev \in Nat /\ e.rev \in Nat
  BY DEF DecisionRows
<1>3. \A m \in Answers : answer[m].status \in {"pending", "succeeded"} /\ answer[m].life = l =>
                           answer[m].rev <= d.rev
  BY DEF Match
<1>4. \A m \in Answers : answer[m].status \in {"pending", "succeeded"} /\ answer[m].life = l =>
                           answer[m].rev < e.rev
  BY <1>1, <1>2, <1>3
<1>5. \A m \in Answers : ~At(answer[m], l, e.rev, "pending") /\ ~At(answer[m], l, e.rev, "succeeded")
  BY <1>1, <1>2, <1>4 DEF At
<1> QED BY <1>1, <1>2, <1>4, <1>5 DEF Match

(* How a projection changes the row of a hold.                             *)
LEMMA AppliedRow ==
  ASSUME NEW l \in Lives, NEW d \in DecisionRows, NEW h \in Holds, newest \in Nat,
         answer \in [Answers -> AnswerRows], Match(d, l, answer)
  PROVE  LET e == IF l = h.life THEN Shown(d, h) ELSE Hidden(d)
         IN /\ e \in DecisionRows /\ Match(e, l, answer)
            /\ e.state \in Open => l = h.life
<1>0. d.rev \in Nat /\ d.rev + 1 \in Nat /\ d.rev + 1 > d.rev
  BY DEF DecisionRows
<1>1. CASE l = h.life
  <2>1. CASE d.state = "none"
    <3> DEFINE e == [state |-> "pending", rev |-> 1, wording |-> h.wording, req |-> h.req,
                     created |-> newest]
    <3>1. Shown(d, h) = e
      BY <2>1 DEF Shown
    <3>2. e \in DecisionRows /\ e.rev = 1 /\ e.state = "pending"
      BY DEF DecisionRows, Holds, Open
    <3>3. d.rev = 0
      BY <2>1 DEF Match
    <3> HIDE DEF e
    <3>4. Match(e, l, answer)
      BY <3>2, <3>3, NewRevision
    <3> QED BY <1>1, <3>1, <3>2, <3>4
  <2>2. CASE d.state = "resolved" \/ (d.state = "pending" /\ <<d.wording, d.req>> # <<h.wording, h.req>>)
    <3> DEFINE e == [d EXCEPT !.state = "pending", !.rev = @ + 1, !.wording = h.wording, !.req = h.req]
    <3>1. Shown(d, h) = e
      <4>1. d.state # "none"
        BY <2>2
      <4> QED BY <2>2, <4>1 DEF Shown
    <3>2. ASSUME NEW v \in Nat
          PROVE  LET x == [d EXCEPT !.state = "pending", !.rev = v, !.wording = h.wording, !.req = h.req]
                 IN x \in DecisionRows /\ x.rev = v /\ x.state = "pending"
      BY DEF DecisionRows, Holds, Open
    <3>3. e \in DecisionRows /\ e.rev = d.rev + 1 /\ e.state = "pending"
      BY <1>0, <3>2
    <3> HIDE DEF e
    <3>4. Match(e, l, answer)
      BY <1>0, <3>3, NewRevision
    <3> QED BY <1>1, <3>1, <3>3, <3>4
  <2>3. CASE ~(d.state = "none") /\ ~(d.state = "resolved" \/ (d.state = "pending" /\ <<d.wording, d.req>> # <<h.wording, h.req>>))
    <3>1. Shown(d, h) = d
      BY <2>3 DEF Shown
    <3> QED BY <1>1, <3>1
  <2> QED BY <2>1, <2>2, <2>3
<1>2. CASE l # h.life /\ d.state \in Open
  <2> DEFINE e == [d EXCEPT !.state = "resolved", !.rev = @ + 1]
  <2>1. Hidden(d) = e
    BY <1>2 DEF Hidden, Open
  <2>2. ASSUME NEW v \in Nat
        PROVE  LET x == [d EXCEPT !.state = "resolved", !.rev = v]
               IN x \in DecisionRows /\ x.rev = v /\ x.state = "resolved"
    BY DEF DecisionRows
  <2>3. e \in DecisionRows /\ e.rev = d.rev + 1 /\ e.state = "resolved"
    BY <1>0, <2>2
  <2> HIDE DEF e
  <2>4. Match(e, l, answer)
    BY <1>0, <2>3, NewRevision
  <2> QED BY <1>2, <2>1, <2>3, <2>4 DEF Open
<1>3. CASE l # h.life /\ d.state \notin Open
  <2>1. Hidden(d) = d
    BY <1>3 DEF Hidden, Open
  <2> QED BY <1>3, <2>1
<1> QED BY <1>1, <1>2, <1>3
-----------------------------------------------------------------------------
LEMMA FirstmateStep == DecisionInv /\ Firstmate => DecisionInv'
<1> SUFFICES ASSUME DecisionInv, Firstmate PROVE DecisionInv'
  OBVIOUS
<1>0. /\ UNCHANGED <<facts, projection, lastPush, decision, newest, confirmations, answer, executor>>
      /\ DecisionTypes /\ ProjectionInv /\ NewestInv /\ FencedInv /\ MatchInv
  BY DEF Firstmate, DecisionInv, projectionVars
<1>1. hold' \in Holds
  <2>0. hold \in Holds
    BY <1>0 DEF DecisionTypes
  <2>1. CASE \E req \in Requests : Hold(req)
    <3>1. PICK req \in Requests : Hold(req)
      BY <2>1
    <3>2. hold.life + 1 \in 0 .. MaxLives
      BY <2>0, <3>1, DecisionConstants DEF Hold, Holds
    <3> QED BY <3>1, <3>2 DEF Hold, Holds, Wordings
  <2>2. CASE \E req \in Requests : \E w \in Wordings : Reword(w, req)
    <3>1. PICK req \in Requests, w \in Wordings : Reword(w, req)
      BY <2>2
    <3> QED BY <2>0, <3>1 DEF Reword, Holds
  <2>3. CASE CloseHold
    BY <2>0, <2>3 DEF CloseHold, Holds
  <2>4. CASE Push
    BY <2>0, <2>4 DEF Push
  <2> QED BY <2>1, <2>2, <2>3, <2>4 DEF Firstmate
<1>2. /\ pushes' \in Seq(Holds) /\ Len(pushes) <= Len(pushes')
      /\ \A t \in 1 .. Len(pushes) : pushes'[t] = pushes[t]
  <2>1. CASE pushes' = pushes
    BY <2>1, <1>0 DEF DecisionTypes
  <2>2. CASE Push
    <3> DEFINE h == IF hold.open THEN hold ELSE NoHold
    <3>1. h \in Holds
      BY <1>0, DecisionConstants DEF DecisionTypes, Holds, NoHold, Wordings, Requests
    <3>2. pushes' = Append(pushes, h)
      BY <2>2 DEF Push
    <3> HIDE DEF h
    <3> QED BY <1>0, <3>1, <3>2 DEF DecisionTypes
  <2> QED BY <2>1, <2>2 DEF Firstmate
<1>3. DecisionTypes'
  BY <1>0, <1>1, <1>2 DEF DecisionTypes
<1>4. Len(pushes) \in Nat /\ Len(pushes') \in Nat
  BY <1>0, <1>2 DEF DecisionTypes
<1>5. NewestInv'
  BY <1>0, <1>2, <1>4 DEF NewestInv
<1>6. ProjectionInv' /\ FencedInv' /\ MatchInv'
  BY <1>0 DEF ProjectionInv, FencedInv, MatchInv
<1> QED BY <1>3, <1>5, <1>6 DEF DecisionInv

LEMMA SendAnswerStep == DecisionInv /\ SendAnswer => DecisionInv'
BY DEF SendAnswer, DecisionInv, DecisionTypes, ProjectionInv, NewestInv, FencedInv, MatchInv,
       projectionVars

LEMMA FactStep == DecisionInv /\ OtherFact => DecisionInv'
<1> SUFFICES ASSUME DecisionInv, OtherFact PROVE DecisionInv'
  OBVIOUS
<1>1. DecisionTypes' /\ NewestInv' /\ FencedInv' /\ MatchInv'
  BY DEF OtherFact, DecisionInv, DecisionTypes, NewestInv, FencedInv, MatchInv, decisionVars
<1> DEFINE w == Waiting(decision)
<1>2. w \in BOOLEAN /\ ProjectionInv /\ facts \in Facts
  BY DEF Waiting, DecisionInv, ProjectionInv
<1> HIDE DEF w
<1>3. RecordFact(w)
  BY DEF OtherFact, w
<1>4. ProjectionInv'
  <2>1. CASE \E f \in Moves(facts) : facts' = f /\ Persist(f, w, FALSE)
    <3>1. PICK f \in Moves(facts) : facts' = f /\ Persist(f, w, FALSE)
      BY <2>1
    <3>2. Follows(facts, f)
      BY <1>2, MovesFollow
    <3> QED BY <1>2, <3>1, <3>2, Persisting
  <2>2. CASE \E f \in Recoveries(facts) : facts' = f /\ Persist(f, w, TRUE)
    <3>1. PICK f \in Recoveries(facts) : facts' = f /\ Persist(f, w, TRUE)
      BY <2>2
    <3>2. Follows(facts, f)
      BY <1>2, MovesFollow
    <3> QED BY <1>2, <3>1, <3>2, Persisting
  <2>3. CASE facts' \in Unpersisted(facts) /\ UNCHANGED projection
    <3>1. Follows(facts, facts')
      BY <1>2, <2>3, MovesFollow
    <3>2. Order[projection.stage] \in Int /\ High(facts) \in Int /\ High(facts') \in Int
      BY <1>2, <3>1, HighIsNat, Ranks DEF ProjectionInv, Covered, Projections, Follows
    <3>3. Order[projection.stage] <= High(facts')
      BY <1>2, <3>1, <3>2 DEF ProjectionInv, Covered, Follows
    <3> QED BY <1>2, <2>3, <3>1, <3>3 DEF ProjectionInv, Covered, Follows, Terminals
  <2> QED BY <1>3, <2>1, <2>2, <2>3 DEF RecordFact
<1> QED BY <1>1, <1>4 DEF DecisionInv

(* Rewriting answers without their subject, status or claim.               *)
LEMMA SameAnswers ==
  ASSUME DecisionInv, answer' \in [Answers -> AnswerRows],
         \A m \in Answers : /\ answer'[m].life = answer[m].life /\ answer'[m].rev = answer[m].rev
                            /\ answer'[m].status = answer[m].status
         , UNCHANGED decision
  PROVE  MatchInv'
BY DEF DecisionInv, MatchInv, Match, At, Only

LEMMA ExpireStep == DecisionInv /\ Expire => DecisionInv'
<1> SUFFICES ASSUME DecisionInv, Expire PROVE DecisionInv'
  OBVIOUS
<1>0. /\ UNCHANGED <<facts, projection, hold, pushes, lastPush, decision, newest, executor>>
      /\ DecisionTypes /\ ProjectionInv /\ NewestInv /\ FencedInv /\ MatchInv
  BY DEF Expire, DecisionInv, projectionVars
<1>1. confirmations' \subseteq confirmations
  BY DEF Expire
<1>2. /\ answer' \in [Answers -> AnswerRows]
      /\ \A m \in Answers : /\ answer'[m].life = answer[m].life /\ answer'[m].rev = answer[m].rev
                            /\ answer'[m].status = answer[m].status /\ answer'[m].claim = answer[m].claim
  <2>1. CASE answer' = answer
    BY <1>0, <2>1 DEF DecisionTypes
  <2>2. CASE \E m \in Answers : answer' = [answer EXCEPT ![m].leased = FALSE]
    <3>1. PICK m \in Answers : answer' = [answer EXCEPT ![m].leased = FALSE]
      BY <2>2
    <3>2. answer \in [Answers -> AnswerRows]
      BY <1>0 DEF DecisionTypes
    <3> QED BY <3>1, <3>2 DEF AnswerRows
  <2> QED BY <2>1, <2>2 DEF Expire
<1>3. DecisionTypes'
  BY <1>0, <1>1, <1>2 DEF DecisionTypes
<1>4. FencedInv'
  BY <1>0, <1>2 DEF FencedInv, Holder
<1>5. MatchInv'
  BY <1>0, <1>2, SameAnswers
<1>6. ProjectionInv' /\ NewestInv'
  BY <1>0 DEF ProjectionInv, NewestInv
<1> QED BY <1>3, <1>4, <1>5, <1>6 DEF DecisionInv

LEMMA ScopeStep == ASSUME NEW s, DecisionInv, LoseScope(s) PROVE DecisionInv'
BY DEF LoseScope, DecisionInv, DecisionTypes, ProjectionInv, NewestInv, FencedInv, MatchInv,
       projectionVars

LEMMA IngestStep ==
  ASSUME NEW i \in DecisionServers, NEW t \in 1 .. Len(pushes), DecisionInv, IngestEvents(i, t)
  PROVE  DecisionInv' /\ lastPush' >= lastPush
<1> DEFINE h == pushes[t]
           w == Waiting(Applied(h))
<1>0. /\ UNCHANGED <<facts, hold, pushes, newest, confirmations, answer, executor>>
      /\ DecisionTypes /\ ProjectionInv /\ FencedInv /\ MatchInv
      /\ t >= lastPush /\ lastPush' = t /\ decision' = Applied(h) /\ Persist(facts, w, FALSE)
  BY DEF IngestEvents, ApplySnapshot, Fresh, DecisionInv
<1>1. h \in Holds /\ t \in Nat
  BY <1>0 DEF DecisionTypes
<1>2. w \in BOOLEAN
  BY DEF Waiting
<1> HIDE DEF h, w
<1>3. ASSUME NEW l \in Lives
      PROVE  /\ decision'[l] \in DecisionRows /\ Match(decision'[l], l, answer)
             /\ decision'[l].state \in Open => l = h.life
  <2>1. decision'[l] = IF l = h.life THEN Shown(decision[l], h) ELSE Hidden(decision[l])
    BY <1>0 DEF Applied
  <2>2. decision[l] \in DecisionRows /\ Match(decision[l], l, answer)
    BY <1>0 DEF DecisionTypes, MatchInv
  <2> QED BY <1>0, <1>1, <2>1, <2>2, AppliedRow DEF DecisionTypes
<1>4. decision' \in [Lives -> DecisionRows]
  BY <1>0, <1>3 DEF Applied
<1>5. DecisionTypes'
  BY <1>0, <1>1, <1>4 DEF DecisionTypes
<1>6. NewestInv'
  BY <1>0, <1>3 DEF NewestInv, h
<1>7. MatchInv' /\ FencedInv'
  BY <1>0, <1>3 DEF MatchInv, FencedInv
<1>8. ProjectionInv'
  <2>1. Follows(facts, facts)
    BY <1>0, FollowsItself DEF ProjectionInv
  <2> QED BY <1>0, <1>2, <2>1, Persisting
<1> QED BY <1>0, <1>5, <1>6, <1>7, <1>8 DEF DecisionInv

LEMMA PrepareStep ==
  ASSUME NEW i \in DecisionServers, NEW m \in Answers, NEW l \in Lives, DecisionInv,
         PrepareToolAnswer(i, m, l)
  PROVE  DecisionInv'
<1>0. /\ UNCHANGED <<facts, projection, hold, pushes, lastPush, decision, newest, answer, executor>>
      /\ DecisionTypes /\ ProjectionInv /\ NewestInv /\ FencedInv /\ MatchInv
      /\ confirmations' = confirmations \cup {[m |-> m, life |-> l, rev |-> decision[l].rev]}
  BY DEF PrepareToolAnswer, PrepareConfirmation, DecisionInv, projectionVars
<1>1. decision[l].rev \in Nat
  BY <1>0 DEF DecisionTypes, DecisionRows
<1>2. confirmations' \in SUBSET [m : Answers, life : Lives, rev : Nat]
  BY <1>0, <1>1 DEF DecisionTypes
<1>3. DecisionTypes'
  BY <1>0, <1>2 DEF DecisionTypes
<1>4. ProjectionInv' /\ NewestInv' /\ FencedInv' /\ MatchInv'
  BY <1>0 DEF ProjectionInv, NewestInv, FencedInv, MatchInv
<1> QED BY <1>3, <1>4 DEF DecisionInv

(* A process starts a new claim c on answer m, above the ones before it.   *)
LEMMA NewClaim ==
  ASSUME DecisionInv, NEW i \in DecisionServers, NEW m \in Answers, NEW x \in Executors,
         executor' = [executor EXCEPT ![i] = x], x.m = m, x.claim = answer[m].claim + 1,
         answer' \in [Answers -> AnswerRows], answer'[m].claim = x.claim, answer'[m].status = "pending",
         \A n \in Answers \ {m} : answer'[n] = answer[n]
  PROVE  FencedInv'
<1>0. executor \in [DecisionServers -> Executors] /\ answer \in [Answers -> AnswerRows] /\ FencedInv
  BY DEF DecisionInv, DecisionTypes
<1>1. /\ \A n \in Answers : answer[n].claim \in Nat /\ answer'[n].claim \in Nat
      /\ \A j \in DecisionServers : executor[j].claim \in Nat
      /\ x.claim \in Nat /\ x.claim >= 1
  BY <1>0 DEF AnswerRows, Executors
<1>2. executor'[i] = x /\ \A j \in DecisionServers \ {i} : executor'[j] = executor[j]
  BY <1>0
<1>3. ASSUME NEW n \in Answers, answer'[n].status = "none" PROVE answer'[n].claim = 0
  BY <1>0, <1>3 DEF FencedInv
<1>4. ASSUME NEW j \in DecisionServers \ {i}, executor[j].pc # "idle", executor[j].m = m
      PROVE  executor[j].claim < x.claim
  BY <1>0, <1>1, <1>4 DEF FencedInv, Holder
<1>5. ASSUME NEW j \in DecisionServers, executor'[j].pc # "idle" PROVE Holder(executor'[j], answer')
  <2>1. CASE j = i
    BY <1>1, <1>2, <2>1 DEF Holder
  <2>2. CASE j # i /\ executor[j].m = m
    <3>1. executor'[j] = executor[j]
      BY <1>2, <2>2
    <3>2. executor[j].claim < x.claim
      BY <1>4, <1>5, <2>2, <3>1
    <3>3. 1 <= executor[j].claim
      BY <1>0, <1>5, <3>1 DEF FencedInv, Holder
    <3> QED BY <1>1, <2>2, <3>1, <3>2, <3>3 DEF Holder
  <2>3. CASE j # i /\ executor[j].m # m
    <3>1. executor'[j] = executor[j]
      BY <1>2, <2>3
    <3>2. Holder(executor[j], answer)
      BY <1>0, <1>5, <3>1 DEF FencedInv
    <3> QED BY <2>3, <3>1, <3>2 DEF Holder
  <2> QED BY <2>1, <2>2, <2>3
<1>6. ASSUME NEW j \in DecisionServers, NEW k \in DecisionServers, j # k,
             executor'[j].pc # "idle", executor'[k].pc # "idle", executor'[j].m = executor'[k].m
      PROVE  executor'[j].claim # executor'[k].claim
  <2>1. CASE j # i /\ k # i
    BY <1>0, <1>2, <1>6, <2>1 DEF FencedInv
  <2>2. CASE j = i
    <3>1. executor[k].claim < x.claim /\ executor'[k] = executor[k] /\ executor'[j] = x
      BY <1>2, <1>4, <1>6, <2>2
    <3> QED BY <1>1, <3>1
  <2>3. CASE k = i
    <3>1. executor[j].claim < x.claim /\ executor'[j] = executor[j] /\ executor'[k] = x
      BY <1>2, <1>4, <1>6, <2>3
    <3> QED BY <1>1, <3>1
  <2> QED BY <2>1, <2>2, <2>3
<1> QED BY <1>3, <1>5, <1>6 DEF FencedInv

LEMMA ClaimStep ==
  ASSUME NEW i \in DecisionServers, NEW c \in confirmations, DecisionInv, ClaimAnswer(i, c)
  PROVE  DecisionInv'
<1> DEFINE d == decision[c.life]
           a == [life |-> c.life, rev |-> c.rev, status |-> "pending", claim |-> 1, leased |-> TRUE]
           x == [pc |-> "check", m |-> c.m, claim |-> answer[c.m].claim + 1, resumed |-> FALSE,
                 result |-> "none"]
<1>0. /\ UNCHANGED <<facts, projection, hold, pushes, lastPush, newest>>
      /\ DecisionTypes /\ ProjectionInv /\ NewestInv /\ FencedInv /\ MatchInv
      /\ answer[c.m].status = "none" /\ d.rev = c.rev /\ d.state = "pending"
      /\ confirmations' = confirmations \ {c}
      /\ answer' = [answer EXCEPT ![c.m] = a]
      /\ decision' = [decision EXCEPT ![c.life].state = "answering"]
      /\ executor' = [executor EXCEPT ![i] = x]
  BY DEF ClaimAnswer, Execute, Unused, DecisionInv, projectionVars
<1>1. c.m \in Answers /\ c.life \in Lives /\ c.rev \in Nat
  BY <1>0 DEF DecisionTypes
<1>2. answer[c.m].claim = 0
  BY <1>0, <1>1 DEF FencedInv
<1>3. a \in AnswerRows /\ x \in Executors /\ x.claim = 1
  BY <1>1, <1>2, DecisionConstants DEF AnswerRows, Executors, Lives, Answers
<1>4. /\ answer' \in [Answers -> AnswerRows] /\ answer'[c.m] = a
      /\ \A n \in Answers \ {c.m} : answer'[n] = answer[n]
  BY <1>0, <1>1, <1>3 DEF DecisionTypes
<1> DEFINE e == [d EXCEPT !.state = "answering"]
<1>5. d \in DecisionRows /\ e \in DecisionRows /\ e.state = "answering" /\ e.rev = c.rev
  BY <1>0, <1>1 DEF DecisionTypes, DecisionRows, Open
<1>6. /\ decision' \in [Lives -> DecisionRows] /\ decision'[c.life] = e
      /\ \A l \in Lives \ {c.life} : decision'[l] = decision[l]
  BY <1>0, <1>1, <1>5 DEF DecisionTypes
<1>7. executor' \in [DecisionServers -> Executors]
  BY <1>0, <1>3 DEF DecisionTypes
<1>8. DecisionTypes'
  BY <1>0, <1>4, <1>6, <1>7 DEF DecisionTypes
<1>9. FencedInv'
  <2>1. x.m = c.m /\ x.claim = answer[c.m].claim + 1 /\ a.claim = x.claim /\ a.status = "pending"
    BY <1>2, <1>3
  <2>2. executor' = [executor EXCEPT ![i] = x] /\ x \in Executors
    BY <1>0, <1>3
  <2> HIDE DEF x, a
  <2> QED BY <2>1, <2>2, <1>1, <1>4, NewClaim
<1>10. NewestInv'
  <2>1. \A l \in Lives : decision'[l].state \in Open => decision[l].state \in Open
    BY <1>0, <1>1, <1>6 DEF Open
  <2> QED BY <2>1, <1>0 DEF NewestInv
<1>11. a.life = c.life /\ a.rev = c.rev /\ a.status = "pending" /\ d.rev = c.rev /\ d.state = "pending"
  BY <1>0
<1> HIDE DEF d, a, e
<1>12. MatchInv'
  <2> SUFFICES ASSUME NEW l \in Lives PROVE Match(decision'[l], l, answer')
    BY DEF MatchInv
  <2>0. Match(decision[l], l, answer)
    BY <1>0 DEF MatchInv
  <2>1. CASE l # c.life
    <3>1. decision'[l] = decision[l]
      BY <1>6, <2>1
    <3>2. \A n \in Answers, s \in {"pending", "succeeded"} : \A r :
            At(answer'[n], l, r, s) <=> At(answer[n], l, r, s)
      BY <1>0, <1>4, <1>11, <2>1 DEF At
    <3>3. \A n \in Answers : answer'[n].status \in {"pending", "succeeded"} /\ answer'[n].life = l
                             => answer[n].status \in {"pending", "succeeded"} /\ answer[n].life = l
                                /\ answer'[n].rev = answer[n].rev
      BY <1>4, <1>11, <2>1
    <3> QED BY <2>0, <3>1, <3>2, <3>3 DEF Match, Only
  <2>2. CASE l = c.life
    <3>1. decision[l] = d /\ decision'[l] = e
      BY <1>6, <2>2 DEF d
    <3>2. \A n \in Answers : ~At(answer[n], l, c.rev, "pending") /\ ~At(answer[n], l, c.rev, "succeeded")
      BY <2>0, <3>1, <1>11 DEF Match
    <3>3. At(answer'[c.m], l, c.rev, "pending") /\ ~At(answer'[c.m], l, c.rev, "succeeded")
      BY <1>4, <1>11, <2>2 DEF At
    <3>4. Only(answer', l, c.rev, "pending", "succeeded")
      BY <1>1, <1>4, <3>2, <3>3 DEF Only
    <3>5. \A n \in Answers : answer'[n].status \in {"pending", "succeeded"} /\ answer'[n].life = l
                             => answer'[n].rev <= c.rev
      BY <1>1, <1>4, <1>11, <2>0, <3>1 DEF Match
    <3> QED BY <1>5, <3>1, <3>4, <3>5 DEF Match
  <2> QED BY <2>1, <2>2
<1>13. ProjectionInv'
  BY <1>0 DEF ProjectionInv
<1> QED BY <1>8, <1>9, <1>10, <1>12, <1>13 DEF DecisionInv

LEMMA ResumeStep ==
  ASSUME NEW i \in DecisionServers, NEW m \in Answers, DecisionInv, ResumeAnswer(i, m)
  PROVE  DecisionInv'
<1> DEFINE a == answer[m]
           b == [a EXCEPT !.claim = a.claim + 1, !.leased = TRUE]
           x == [pc |-> "check", m |-> m, claim |-> a.claim + 1, resumed |-> TRUE, result |-> "none"]
<1>0. /\ UNCHANGED <<facts, projection, hold, pushes, lastPush, newest, decision, confirmations>>
      /\ DecisionTypes /\ ProjectionInv /\ NewestInv /\ FencedInv /\ MatchInv
      /\ a.status = "pending"
      /\ answer' = [answer EXCEPT ![m].claim = @ + 1, ![m].leased = TRUE]
      /\ executor' = [executor EXCEPT ![i] = x]
  BY DEF ResumeAnswer, Execute, DecisionInv, projectionVars
<1>1. a \in AnswerRows /\ a.claim + 1 \in Nat /\ answer \in [Answers -> AnswerRows]
  BY <1>0 DEF DecisionTypes, AnswerRows
<1>2. ASSUME NEW v \in Nat
      PROVE  LET y == [a EXCEPT !.claim = v, !.leased = TRUE]
             IN /\ y \in AnswerRows /\ y.claim = v /\ y.status = a.status
                /\ y.life = a.life /\ y.rev = a.rev
  BY <1>1 DEF AnswerRows
<1>3. /\ b \in AnswerRows /\ b.claim = a.claim + 1 /\ b.status = "pending"
      /\ b.life = a.life /\ b.rev = a.rev
  BY <1>0, <1>1, <1>2
<1>4. x \in Executors /\ x.m = m /\ x.claim = a.claim + 1
  BY <1>1, DecisionConstants DEF Executors, Answers
<1>5. answer'[m] = b /\ \A n \in Answers \ {m} : answer'[n] = answer[n]
  BY <1>0, <1>1
<1>6. answer' \in [Answers -> AnswerRows]
  <2>1. DOMAIN answer' = Answers /\ answer' = [n \in Answers |-> answer'[n]]
    BY <1>0, <1>1
  <2>2. \A n \in Answers : answer'[n] \in AnswerRows
    BY <1>1, <1>3, <1>5
  <2> HIDE DEF b
  <2> QED BY <2>1, <2>2
<1> HIDE DEF b, x
<1>7. executor' \in [DecisionServers -> Executors]
  BY <1>0, <1>4 DEF DecisionTypes
<1>8. DecisionTypes'
  BY <1>0, <1>6, <1>7 DEF DecisionTypes
<1>9. FencedInv'
  BY <1>0, <1>3, <1>4, <1>5, <1>6, NewClaim
<1>10. MatchInv'
  BY <1>0, <1>3, <1>5, <1>6, SameAnswers
<1>11. ProjectionInv' /\ NewestInv'
  BY <1>0 DEF ProjectionInv, NewestInv
<1> QED BY <1>8, <1>9, <1>10, <1>11 DEF DecisionInv

(* Executions that go on or end keep the claims apart.                     *)
LEMMA FewerExecutions ==
  ASSUME DecisionInv, UNCHANGED answer,
         \A j \in DecisionServers : executor'[j].pc # "idle" =>
           /\ executor[j].pc # "idle"
           /\ executor'[j].m = executor[j].m /\ executor'[j].claim = executor[j].claim
  PROVE  FencedInv'
BY DEF DecisionInv, FencedInv, Holder

LEMMA CommandStep ==
  ASSUME NEW i \in DecisionServers, DecisionInv, RunCommand(i)
  PROVE  DecisionInv'
<1>0. /\ UNCHANGED <<facts, projection, pushes, lastPush, decision, newest, confirmations, answer>>
      /\ DecisionTypes /\ ProjectionInv /\ NewestInv /\ MatchInv
  BY DEF RunCommand, DecisionInv, projectionVars
<1>1. /\ executor' \in [DecisionServers -> Executors]
      /\ \A j \in DecisionServers : executor'[j].pc # "idle" =>
           /\ executor[j].pc # "idle"
           /\ executor'[j].m = executor[j].m /\ executor'[j].claim = executor[j].claim
  <2>0. executor \in [DecisionServers -> Executors] /\ Unlocked \in Executors
    BY <1>0, DecisionConstants DEF DecisionTypes, Executors, Unlocked
  <2>1. ASSUME NEW pc \in {"answer", "wait", "finish"}, NEW result \in {"none", "ok", "stale", "rejected"},
               GoOn(i, pc, result), executor[i].pc # "idle"
        PROVE  <1>1!1 /\ <1>1!2
    <3>1. executor' = [executor EXCEPT ![i].pc = pc, ![i].result = result]
      BY <2>1 DEF GoOn
    <3> QED BY <2>0, <2>1, <3>1 DEF Executors
  <2>2. CASE CheckIdentity(i)
    BY <2>1, <2>2 DEF CheckIdentity
  <2>3. CASE CommandAnswer(i)
    BY <2>1, <2>3 DEF CommandAnswer
  <2>4. CASE Deliver(i)
    BY <2>1, <2>4 DEF Deliver
  <2>5. CASE AwaitDelivery(i)
    BY <2>1, <2>5 DEF AwaitDelivery
  <2>6. CASE AbandonAnswer(i)
    BY <2>0, <2>6 DEF AbandonAnswer, Unlocked
  <2> QED BY <2>2, <2>3, <2>4, <2>5, <2>6 DEF RunCommand
<1>2. hold' \in Holds
  BY <1>0 DEF RunCommand, CheckIdentity, CommandAnswer, Deliver, AwaitDelivery, AbandonAnswer,
              DecisionTypes, Holds
<1>3. DecisionTypes'
  BY <1>0, <1>1, <1>2 DEF DecisionTypes
<1>4. FencedInv'
  BY <1>0, <1>1, FewerExecutions
<1>5. ProjectionInv' /\ NewestInv' /\ MatchInv'
  BY <1>0 DEF ProjectionInv, NewestInv, MatchInv
<1> QED BY <1>3, <1>4, <1>5 DEF DecisionInv

LEMMA DeliveryStep ==
  ASSUME NEW l \in Lives, NEW m \in Answers, DecisionInv, AcknowledgeDelivery(l, m)
  PROVE  DecisionInv'
<1>0. /\ UNCHANGED <<facts, projection, pushes, lastPush, decision, newest, confirmations, answer, executor>>
      /\ DecisionTypes /\ ProjectionInv /\ NewestInv /\ FencedInv /\ MatchInv
  BY DEF AcknowledgeDelivery, DecisionInv, projectionVars
<1>1. hold' \in Holds
  BY <1>0 DEF AcknowledgeDelivery, DecisionTypes, Holds
<1>2. DecisionTypes'
  BY <1>0, <1>1 DEF DecisionTypes
<1>3. ProjectionInv' /\ NewestInv' /\ FencedInv' /\ MatchInv'
  BY <1>0 DEF ProjectionInv, NewestInv, FencedInv, MatchInv
<1> QED BY <1>2, <1>3 DEF DecisionInv

(* The row of a hold after its answer was settled.                         *)
LEMMA FinishedRow ==
  ASSUME DecisionInv, NEW m \in Answers, answer[m].status = "pending", NEW l \in Lives,
         NEW result \in {"none", "ok", "stale", "rejected"},
         answer' = [answer EXCEPT ![m].status = IF result = "ok" THEN "succeeded" ELSE "failed"]
  PROVE  LET e == Finished(answer[m], result)[l]
         IN /\ e \in DecisionRows /\ Match(e, l, answer')
            /\ e.state \in Open => decision[l].state \in Open
<1> DEFINE a == answer[m]
           s == IF result = "ok" THEN "succeeded" ELSE "failed"
           d == decision[l]
           e == Finished(a, result)[l]
<1>0. /\ answer \in [Answers -> AnswerRows] /\ d \in DecisionRows /\ Match(d, l, answer)
      /\ a.status = "pending"
  BY DEF DecisionInv, DecisionTypes, MatchInv
<1>1. /\ answer'[m].status = s /\ answer'[m].life = a.life /\ answer'[m].rev = a.rev
      /\ \A n \in Answers \ {m} : answer'[n] = answer[n]
  BY <1>0 DEF AnswerRows
<1>2. d.rev \in Nat /\ d.rev + 1 \in Nat /\ \A n \in Answers : answer[n].rev \in Nat
  BY <1>0 DEF DecisionRows, AnswerRows
<1>3. ASSUME NEW n \in Answers, answer'[n].status \in {"pending", "succeeded"}, answer'[n].life = l
      PROVE  answer'[n].rev <= d.rev
  <2>1. answer[n].status \in {"pending", "succeeded"} /\ answer[n].life = l /\ answer'[n].rev = answer[n].rev
    BY <1>0, <1>1, <1>3
  <2> QED BY <1>0, <2>1 DEF Match
<1>4. CASE ~(l = a.life /\ d.rev = a.rev /\ d.state = "answering")
  <2>1. e = d
    BY <1>4 DEF Finished, MovesDecision
  <2>2. ~(a.life = l /\ a.rev = d.rev)
    <3> SUFFICES ASSUME a.life = l, a.rev = d.rev PROVE FALSE
      OBVIOUS
    <3>1. At(answer[m], l, d.rev, "pending")
      BY <1>0 DEF At
    <3>2. d.state \in Open \cup {"none", "resolved"} /\ d.state # "answering"
      BY <1>0, <1>4 DEF DecisionRows
    <3> QED BY <1>0, <3>1, <3>2 DEF Match, Only, Open
  <2>3. \A n \in Answers, t \in {"pending", "succeeded"} :
          At(answer'[n], l, d.rev, t) <=> At(answer[n], l, d.rev, t)
    BY <1>1, <2>2 DEF At
  <2> HIDE DEF e, d, a
  <2>4. Match(d, l, answer')
    BY <1>0, <1>3, <2>3 DEF Match, Only
  <2> QED BY <1>0, <2>1, <2>4 DEF e, d, a
<1>5. CASE l = a.life /\ d.rev = a.rev /\ d.state = "answering"
  <2>0. Only(answer, l, d.rev, "pending", "succeeded") /\ At(answer[m], l, d.rev, "pending")
    BY <1>0, <1>5 DEF Match, At
  <2>1. \A n \in Answers : /\ ~At(answer[n], l, d.rev, "succeeded")
                           /\ (At(answer[n], l, d.rev, "pending") => n = m)
    BY <2>0 DEF Only
  <2>2. \A n \in Answers : ~At(answer'[n], l, d.rev, "pending")
    BY <1>1, <2>1 DEF At
  <2>3. \A n \in Answers \ {m} : ~At(answer'[n], l, d.rev, "succeeded")
    BY <1>1, <2>1
  <2>4. CASE result = "ok"
    <3>1. e = [d EXCEPT !.state = "answered"]
      BY <1>5, <2>4 DEF Finished, MovesDecision
    <3>2. e \in DecisionRows /\ e.state = "answered" /\ e.rev = d.rev
      BY <1>0, <3>1 DEF DecisionRows, Open
    <3>3. At(answer'[m], l, d.rev, "succeeded")
      BY <1>1, <1>5, <2>4 DEF At
    <3>4. Only(answer', l, d.rev, "succeeded", "pending")
      BY <2>2, <2>3, <3>3 DEF Only
    <3>5. d.state \in Open
      BY <1>5 DEF Open
    <3> HIDE DEF e, d
    <3>6. Match(e, l, answer')
      BY <1>3, <3>2, <3>4 DEF Match
    <3> QED BY <3>2, <3>5, <3>6 DEF e, d
  <2>5. CASE result = "stale"
    <3>1. e = [d EXCEPT !.state = "resolved", !.rev = @ + 1]
      BY <1>5, <2>5 DEF Finished, MovesDecision
    <3>2. ASSUME NEW v \in Nat
          PROVE  LET x == [d EXCEPT !.state = "resolved", !.rev = v]
                 IN x \in DecisionRows /\ x.rev = v /\ x.state = "resolved"
      BY <1>0 DEF DecisionRows
    <3>3. e \in DecisionRows /\ e.rev = d.rev + 1 /\ e.state = "resolved"
      BY <1>2, <3>1, <3>2
    <3>4. \A n \in Answers : answer'[n].rev \in Nat
      BY <1>1, <1>2
    <3> HIDE DEF e, d
    <3>5. \A n \in Answers : answer'[n].status \in {"pending", "succeeded"} /\ answer'[n].life = l
                             => answer'[n].rev < e.rev
      BY <1>2, <1>3, <3>3, <3>4
    <3>6. \A n \in Answers : ~At(answer'[n], l, e.rev, "pending") /\ ~At(answer'[n], l, e.rev, "succeeded")
      BY <1>2, <3>3, <3>4, <3>5 DEF At
    <3>7. Match(e, l, answer')
      BY <1>2, <3>3, <3>4, <3>5, <3>6 DEF Match
    <3> QED BY <3>3, <3>7 DEF e, d, Open
  <2>6. CASE result \in {"none", "rejected"}
    <3>1. e = [d EXCEPT !.state = "pending"]
      BY <1>5, <2>6 DEF Finished, MovesDecision
    <3>2. e \in DecisionRows /\ e.state = "pending" /\ e.rev = d.rev /\ d.state \in Open
      BY <1>0, <1>5, <3>1 DEF DecisionRows, Open
    <3>3. ~At(answer'[m], l, d.rev, "succeeded")
      BY <1>1, <2>6 DEF At
    <3> HIDE DEF e, d
    <3>4. Match(e, l, answer')
      BY <1>3, <2>2, <2>3, <3>2, <3>3 DEF Match
    <3> QED BY <3>2, <3>4 DEF e, d
  <2> QED BY <2>4, <2>5, <2>6
<1> QED BY <1>4, <1>5

LEMMA FinishStep ==
  ASSUME NEW i \in DecisionServers, DecisionInv, FinishAnswer(i)
  PROVE  DecisionInv'
<1> DEFINE x == executor[i]
           m == x.m
<1>0. /\ UNCHANGED <<facts, hold, pushes, lastPush, newest, confirmations>>
      /\ DecisionTypes /\ ProjectionInv /\ NewestInv /\ FencedInv /\ MatchInv
      /\ x.pc = "finish" /\ executor' = [executor EXCEPT ![i] = Unlocked]
  BY DEF FinishAnswer, DecisionInv
<1>1. /\ executor' \in [DecisionServers -> Executors]
      /\ executor'[i].pc = "idle" /\ \A j \in DecisionServers \ {i} : executor'[j] = executor[j]
  BY <1>0, DecisionConstants DEF DecisionTypes, Executors, Unlocked
<1>2. m \in Answers /\ x \in Executors /\ x.result \in {"none", "ok", "stale", "rejected"}
  BY <1>0 DEF FencedInv, Holder, DecisionTypes, Executors
<1>3. CASE ~Settles(x) /\ UNCHANGED <<answer, decision, projection>>
  <2>1. DecisionTypes' /\ ProjectionInv' /\ NewestInv' /\ MatchInv'
    BY <1>0, <1>1, <1>3 DEF DecisionTypes, ProjectionInv, NewestInv, MatchInv
  <2>2. FencedInv'
    BY <1>1, <1>3, FewerExecutions
  <2> QED BY <2>1, <2>2 DEF DecisionInv
<1>4. CASE /\ Settles(x)
           /\ answer' = [answer EXCEPT ![m].status = IF x.result = "ok" THEN "succeeded" ELSE "failed"]
           /\ decision' = Finished(answer[m], x.result)
           /\ Persist(facts, Waiting(Finished(answer[m], x.result)), FALSE)
  <2>0. answer[m].status = "pending" /\ answer[m].claim = x.claim
    BY <1>4 DEF Settles
  <2>1. ASSUME NEW l \in Lives
        PROVE  /\ decision'[l] \in DecisionRows /\ Match(decision'[l], l, answer')
               /\ decision'[l].state \in Open => decision[l].state \in Open
    BY <1>2, <1>4, <2>0, FinishedRow
  <2>2. decision' \in [Lives -> DecisionRows]
    BY <1>4, <2>1 DEF Finished
  <2>3. /\ answer' \in [Answers -> AnswerRows]
        /\ \A n \in Answers : \/ answer'[n].claim = answer[n].claim /\ answer'[n].status # "none"
                              \/ answer'[n] = answer[n]
        /\ answer'[m].claim = answer[m].claim
        /\ \A n \in Answers \ {m} : answer'[n] = answer[n]
    <3>1. answer \in [Answers -> AnswerRows]
      BY <1>0 DEF DecisionTypes
    <3>2. answer' = [answer EXCEPT ![m] = [answer[m] EXCEPT !.status = IF x.result = "ok" THEN "succeeded" ELSE "failed"]]
      BY <1>4
    <3> QED BY <1>2, <3>1, <3>2 DEF AnswerRows
  <2>4. DecisionTypes'
    BY <1>0, <1>1, <2>2, <2>3 DEF DecisionTypes
  <2>5. NewestInv' /\ MatchInv'
    BY <1>0, <2>1 DEF NewestInv, MatchInv
  <2>6. FencedInv'
    <3>1. ASSUME NEW j \in DecisionServers, executor'[j].pc # "idle" PROVE Holder(executor'[j], answer')
      <4>1. j # i /\ executor'[j] = executor[j]
        BY <1>1, <3>1
      <4>2. Holder(executor[j], answer)
        BY <1>0, <3>1, <4>1 DEF FencedInv
      <4>3. CASE executor[j].m = m
        <5>1. executor[j].claim # x.claim
          BY <1>0, <3>1, <4>1, <4>3 DEF FencedInv
        <5> QED BY <2>0, <2>3, <4>1, <4>2, <4>3, <5>1 DEF Holder
      <4>4. CASE executor[j].m # m
        BY <2>3, <4>1, <4>2, <4>4 DEF Holder
      <4> QED BY <4>3, <4>4
    <3>2. \A n \in Answers : answer'[n].status = "none" => answer'[n].claim = 0
      BY <1>0, <2>3 DEF FencedInv
    <3>3. \A j, k \in DecisionServers :
            j # k /\ executor'[j].pc # "idle" /\ executor'[k].pc # "idle" /\ executor'[j].m = executor'[k].m
            => executor'[j].claim # executor'[k].claim
      BY <1>0, <1>1 DEF FencedInv
    <3> QED BY <3>1, <3>2, <3>3 DEF FencedInv
  <2>7. ProjectionInv'
    <3> DEFINE w == Waiting(Finished(answer[m], x.result))
    <3>1. w \in BOOLEAN
      BY DEF Waiting
    <3> HIDE DEF w
    <3>2. Persist(facts, w, FALSE)
      BY <1>4 DEF w
    <3>3. Follows(facts, facts)
      BY <1>0, FollowsItself DEF ProjectionInv
    <3> QED BY <1>0, <3>1, <3>2, <3>3, Persisting
  <2> QED BY <2>4, <2>5, <2>6, <2>7 DEF DecisionInv
<1> QED BY <1>3, <1>4 DEF FinishAnswer
-----------------------------------------------------------------------------
LEMMA DecisionStep == DecisionInv /\ [DecisionNext]_decisionsVars => DecisionInv'
<1> SUFFICES ASSUME DecisionInv, [DecisionNext]_decisionsVars PROVE DecisionInv'
  OBVIOUS
<1>1. CASE UNCHANGED decisionsVars
  BY <1>1 DEF decisionsVars, decisionVars, projectionVars, DecisionInv, DecisionTypes, ProjectionInv,
              NewestInv, FencedInv, MatchInv
<1>2. CASE DecisionNext
  BY <1>2, FirstmateStep, SendAnswerStep, FactStep, ExpireStep, ScopeStep, IngestStep, PrepareStep,
     ClaimStep, ResumeStep, CommandStep, FinishStep, DeliveryStep DEF DecisionNext
<1> QED BY <1>1, <1>2

(* The decisions and the projection of their objective keep their          *)
(* inductive invariant, whatever order Firstmate's projections, the        *)
(* owner's answers and the processes' steps come in.                       *)
THEOREM DecisionInvariance == DecisionSpec => []DecisionInv
<1>1. DecisionInit => DecisionInv
  BY InitialDecisions
<1> QED BY <1>1, DecisionStep, PTL DEF DecisionSpec

(* persist_objective_state never raises: every projection of the facts a   *)
(* writer records is accepted, so no writer's transaction is rolled back.  *)
THEOREM WritersAreNotRefused == DecisionSpec => []NothingIsRefused
<1>1. DecisionInv => NothingIsRefused
  <2> SUFFICES ASSUME DecisionInv PROVE NothingIsRefused
    OBVIOUS
  <2>1. facts \in Facts /\ Covered(projection, facts)
    BY DEF DecisionInv, ProjectionInv
  <2>2. ASSUME NEW f \in Moves(facts) \cup Recoveries(facts) \cup {facts},
               NEW w \in BOOLEAN, NEW r \in BOOLEAN
        PROVE  Accepts(Advanced(Project(f, w, r)))
    <3>1. Follows(facts, f)
      BY <2>1, MovesFollow, FollowsItself
    <3> QED BY <2>1, <3>1, Accepted
  <2> QED BY <2>2 DEF NothingIsRefused
<1> QED BY <1>1, DecisionInvariance, PTL

(* finish_answer is fenced by claim_count: a process whose lease was taken *)
(* over can settle nothing, and the current one finds the answer pending.  *)
THEOREM FencedExecutors == DecisionSpec => []ExecutorsAreFenced
<1>1. DecisionInv => ExecutorsAreFenced
  BY DEF DecisionInv, FencedInv, Holder, ExecutorsAreFenced, Locked
<1> QED BY <1>1, DecisionInvariance, PTL

(* The state of a decision agrees with its answers: it is offered only     *)
(* while none is under way or recorded, answering stands for exactly one   *)
(* pending answer and answered for exactly one that succeeded.             *)
THEOREM AnsweredOnce == DecisionSpec => []StateMatchesAnswers
<1>1. ASSUME NEW l \in Lives, NEW status
      PROVE  (\A m \in Answers : ~At(answer[m], l, decision[l].rev, status)) =>
               Cardinality(AnswersTo(l, status)) = 0
  <2> SUFFICES ASSUME \A m \in Answers : ~At(answer[m], l, decision[l].rev, status)
               PROVE  Cardinality(AnswersTo(l, status)) = 0
    OBVIOUS
  <2>1. AnswersTo(l, status) = {}
    BY DEF AnswersTo, At
  <2> QED BY <2>1, FS_EmptySet
<1>2. ASSUME NEW l \in Lives, NEW status, NEW m \in Answers, At(answer[m], l, decision[l].rev, status),
             \A n \in Answers : At(answer[n], l, decision[l].rev, status) => n = m
      PROVE  Cardinality(AnswersTo(l, status)) = 1
  <2>1. AnswersTo(l, status) = {m}
    BY <1>2 DEF AnswersTo, At
  <2> QED BY <2>1, FS_Singleton
<1>3. DecisionInv => StateMatchesAnswers
  <2> SUFFICES ASSUME DecisionInv, NEW l \in Lives
               PROVE  LET n(status) == Cardinality(AnswersTo(l, status))
                      IN /\ decision[l].state \in {"none", "pending", "resolved"} =>
                              n("pending") + n("succeeded") = 0
                         /\ decision[l].state = "answering" => n("pending") = 1 /\ n("succeeded") = 0
                         /\ decision[l].state = "answered"  => n("pending") = 0 /\ n("succeeded") = 1
    BY DEF StateMatchesAnswers
  <2>0. Match(decision[l], l, answer)
    BY DEF DecisionInv, MatchInv
  <2>1. CASE decision[l].state \in {"none", "pending", "resolved"}
    <3>1. Cardinality(AnswersTo(l, "pending")) = 0 /\ Cardinality(AnswersTo(l, "succeeded")) = 0
      BY <2>0, <2>1, <1>1 DEF Match
    <3> QED BY <2>1, <3>1
  <2>2. CASE decision[l].state = "answering"
    <3>1. PICK m \in Answers : /\ At(answer[m], l, decision[l].rev, "pending")
                               /\ \A n \in Answers : /\ ~At(answer[n], l, decision[l].rev, "succeeded")
                                                     /\ (At(answer[n], l, decision[l].rev, "pending") => n = m)
      BY <2>0, <2>2 DEF Match, Only
    <3>2. Cardinality(AnswersTo(l, "pending")) = 1
      BY <3>1, <1>2
    <3>3. Cardinality(AnswersTo(l, "succeeded")) = 0
      BY <3>1, <1>1
    <3> QED BY <2>2, <3>2, <3>3
  <2>3. CASE decision[l].state = "answered"
    <3>1. PICK m \in Answers : /\ At(answer[m], l, decision[l].rev, "succeeded")
                               /\ \A n \in Answers : /\ ~At(answer[n], l, decision[l].rev, "pending")
                                                     /\ (At(answer[n], l, decision[l].rev, "succeeded") => n = m)
      BY <2>0, <2>3 DEF Match, Only
    <3>2. Cardinality(AnswersTo(l, "succeeded")) = 1
      BY <3>1, <1>2
    <3>3. Cardinality(AnswersTo(l, "pending")) = 0
      BY <3>1, <1>1
    <3> QED BY <2>3, <3>2, <3>3
  <2> QED BY <2>1, <2>2, <2>3
<1> QED BY <1>3, DecisionInvariance, PTL

(* apply_snapshot ignores older projections: what is open after a step is  *)
(* what the newest applied projection holds open, and that never goes back.*)
THEOREM OlderProjectionsChangeNothing == DecisionSpec => DecisionsFollowNewest
<1> DEFINE Body == \A l \in Lives : decision'[l].state \in {"pending", "answering", "answered"} =>
                     lastPush' >= lastPush /\ pushes'[lastPush'].life = l
<1>1. DecisionInv /\ DecisionNext => Body
  <2> SUFFICES ASSUME DecisionInv, DecisionNext PROVE Body
    OBVIOUS
  <2>1. NewestInv'
    BY DecisionStep DEF DecisionInv
  <2>2. lastPush' >= lastPush
    <3>1. CASE UNCHANGED lastPush
      BY <3>1 DEF DecisionInv, DecisionTypes
    <3>2. CASE \E i \in DecisionServers, t \in 1 .. Len(pushes) : IngestEvents(i, t)
      BY <3>2, IngestStep
    <3>3. OtherFact => UNCHANGED lastPush
      BY DEF OtherFact, decisionVars
    <3> QED BY <3>1, <3>2, <3>3 DEF DecisionNext, Firstmate, SendAnswer, Expire, LoseScope,
              PrepareToolAnswer, PrepareConfirmation, ClaimAnswer, ResumeAnswer, RunCommand,
              FinishAnswer, AcknowledgeDelivery
  <2> QED BY <2>1, <2>2 DEF NewestInv, Open
<1>2. DecisionInv /\ [DecisionNext]_decisionsVars => [Body]_decisionsVars
  BY <1>1
<1> QED BY <1>2, DecisionInvariance, PTL DEF DecisionSpec, DecisionsFollowNewest
-----------------------------------------------------------------------------
(* Activity.  What the store holds, and what an activity may be.           *)
LineTexts == {"told", "retold", "silent"}
ActivityStates == {"none", "told", "retold", "active", "completed", "awaiting-user", "resolved"}
ActivityRecords == [rev : Nat, state : ActivityStates]
LedgerEntries == [key : Keys, rev : Nat]
Stores == [records : [Keys -> ActivityRecords], changes : Seq(LedgerEntries)]
Activities == [key : Keys, state : ActivityStates]

(* A record that differs has a higher revision, which the part of the      *)
(* ledger behind the cursor tells of.                                      *)
ToldBehind(st, k, cursor) == \E n \in cursor + 1 .. Len(st.changes) : st.changes[n].key = k
Grows(st, to) ==
  /\ to \in Stores
  /\ Len(st.changes) <= Len(to.changes)
  /\ \A n \in 1 .. Len(st.changes) : to.changes[n] = st.changes[n]
  /\ \A k \in Keys :
       \/ to.records[k] = st.records[k]
       \/ to.records[k].rev > st.records[k].rev /\ ToldBehind(to, k, Len(st.changes))

(* What an activity makes of a record.                                     *)
Becomes(record, state) ==
  IF state \in {"none", record.state} THEN record ELSE [rev |-> record.rev + 1, state |-> state]

LEMMA UpsertIs ==
  ASSUME NEW st \in Stores, NEW c \in Activities
  PROVE  /\ Grows(st, Upsert(st, c))
         /\ Upsert(st, c).records = [st.records EXCEPT ![c.key] = Becomes(st.records[c.key], c.state)]
<1> DEFINE k == c.key
           rev == st.records[k].rev + 1
           new == [rev |-> rev, state |-> c.state]
           entry == [key |-> k, rev |-> rev]
           to == Upsert(st, c)
           l == Len(st.changes)
<1>1. /\ k \in Keys /\ c.state \in ActivityStates /\ st.records \in [Keys -> ActivityRecords]
      /\ st.changes \in Seq(LedgerEntries) /\ l \in Nat
  BY DEF Stores, Activities
<1>2. rev \in Nat /\ rev > st.records[k].rev /\ new \in ActivityRecords /\ entry \in LedgerEntries
  BY <1>1 DEF ActivityRecords, LedgerEntries
<1>3. CASE c.state \in {"none", st.records[k].state}
  <2>1. to = st
    BY <1>3 DEF Upsert
  <2>2. [st.records EXCEPT ![k] = Becomes(st.records[k], c.state)] = st.records
    BY <1>1, <1>3 DEF Becomes
  <2> QED
    BY <1>1, <2>1, <2>2 DEF Grows
<1>4. CASE c.state \notin {"none", st.records[k].state}
  <2>1. to = [records |-> [st.records EXCEPT ![k] = new], changes |-> Append(st.changes, entry)]
    BY <1>4 DEF Upsert
  <2> HIDE DEF to, new, entry, rev
  <2>2. to.records = [st.records EXCEPT ![k] = new] /\ to.changes = Append(st.changes, entry) /\ to \in Stores
    BY <1>1, <1>2, <2>1 DEF Stores
  <2>3. /\ Len(to.changes) = l + 1 /\ to.changes[l + 1] = entry
        /\ \A n \in 1 .. l : to.changes[n] = st.changes[n]
    BY <1>1, <1>2, <2>2
  <2>4. \A j \in Keys \ {k} : to.records[j] = st.records[j]
    BY <1>1, <2>2
  <2>5. to.records[k] = new /\ new.rev = rev
    BY <1>1, <2>2 DEF new
  <2>6. ToldBehind(to, k, l)
    BY <1>1, <2>3 DEF ToldBehind, entry
  <2>7. Grows(st, to)
    BY <1>1, <1>2, <2>2, <2>3, <2>4, <2>5, <2>6 DEF Grows
  <2>8. Becomes(st.records[k], c.state) = new
    BY <1>4 DEF Becomes, new, rev
  <2> QED
    BY <2>2, <2>7, <2>8 DEF to
<1> QED
  BY <1>3, <1>4

LEMMA GrowsMore ==
  ASSUME NEW a \in Stores, NEW b, NEW c, Grows(a, b), Grows(b, c) PROVE Grows(a, c)
<1> DEFINE l == Len(a.changes)
           m == Len(b.changes)
           n == Len(c.changes)
<1>1. /\ b \in Stores /\ c \in Stores /\ l \in Nat /\ m \in Nat /\ n \in Nat /\ l <= m /\ m <= n
      /\ \A k \in Keys : a.records[k].rev \in Nat /\ b.records[k].rev \in Nat /\ c.records[k].rev \in Nat
  BY DEF Grows, Stores, ActivityRecords
<1>2. \A x \in 1 .. l : c.changes[x] = a.changes[x]
  <2>1. ASSUME NEW x \in 1 .. l PROVE c.changes[x] = a.changes[x]
    <3>1. x \in 1 .. m
      BY <1>1
    <3>2. b.changes[x] = a.changes[x] /\ c.changes[x] = b.changes[x]
      BY <3>1 DEF Grows
    <3> QED
      BY <3>2
  <2> QED
    BY <2>1
<1>3. ASSUME NEW k \in Keys, c.records[k] # a.records[k]
      PROVE  c.records[k].rev > a.records[k].rev /\ ToldBehind(c, k, l)
  <2>1. CASE c.records[k] # b.records[k]
    <3>1. c.records[k].rev > b.records[k].rev /\ ToldBehind(c, k, m)
      BY <2>1 DEF Grows
    <3>2. b.records[k].rev >= a.records[k].rev
      BY <1>1 DEF Grows
    <3>3. ToldBehind(c, k, l)
      BY <1>1, <3>1 DEF ToldBehind
    <3> QED
      BY <1>1, <3>1, <3>2, <3>3
  <2>2. CASE c.records[k] = b.records[k]
    <3>1. b.records[k].rev > a.records[k].rev /\ ToldBehind(b, k, l)
      BY <1>3, <2>2 DEF Grows
    <3>2. PICK x \in l + 1 .. m : b.changes[x].key = k
      BY <3>1 DEF ToldBehind
    <3>3. x \in 1 .. m /\ x \in l + 1 .. n
      BY <1>1
    <3>4. c.changes[x] = b.changes[x]
      BY <3>3 DEF Grows
    <3>5. ToldBehind(c, k, l)
      BY <3>2, <3>3, <3>4 DEF ToldBehind
    <3> QED
      BY <2>2, <3>1, <3>5
  <2> QED
    BY <2>1, <2>2
<1>4. l <= n
  BY <1>1
<1> QED
  BY <1>1, <1>2, <1>3, <1>4 DEF Grows
-----------------------------------------------------------------------------
(* FoldLeft, taken apart into the stores between two activities.           *)
Folding(st, cs, S, h) ==
  h = [s \in SUBSET S |-> IF s = {} THEN st ELSE Upsert(h[s \ {Max(s)}], cs[Max(s)])]

LEMMA ProjectedIsFold ==
  ASSUME NEW st, NEW cs
  PROVE  Projected(st, cs) = (CHOOSE h : Folding(st, cs, DOMAIN cs, h))[DOMAIN cs]
BY Zenon DEF Projected, FoldLeft, MapThenFoldSet, Folding

LEMMA GreatestLine ==
  ASSUME NEW l \in Nat, NEW s \in SUBSET (1 .. l), s # {}
  PROVE  Max(s) \in s /\ \A x \in s : x <= Max(s)
<1> DEFINE T == {l - x : x \in s}
<1>1. T \in SUBSET Nat /\ T # {}
  OBVIOUS
<1>2. PICK y \in T : \A z \in T : y <= z
  BY <1>1, LeastNatural
<1>3. PICK x \in s : y = l - x
  BY <1>2
<1>4. ASSUME NEW z \in s PROVE x >= z
  <2>1. l - z \in T /\ x \in Nat /\ z \in Nat
    OBVIOUS
  <2>2. l - x <= l - z
    BY <1>2, <1>3, <2>1
  <2> QED
    BY <2>1, <2>2
<1>5. \E m \in s : \A z \in s : m >= z
  BY <1>4
<1>6. Max(s) \in s /\ \A z \in s : Max(s) >= z
  BY <1>5 DEF Max
<1>7. ASSUME NEW z \in s PROVE z <= Max(s)
  <2>0. \A e \in s : e \in Nat
    OBVIOUS
  <2>1. z \in Nat /\ Max(s) \in Nat /\ Max(s) >= z
    BY <1>6, <2>0
  <2> QED
    BY <2>1
<1> QED
  BY <1>6, <1>7

LEMMA FoldingExists ==
  ASSUME NEW st, NEW cs, NEW l \in Nat PROVE \E h : Folding(st, cs, 1 .. l, h)
<1> DEFINE S == 1 .. l
           UpTo(n) == {s \in SUBSET S : Cardinality(s) <= n}
           Folds(n, h) == h = [s \in UpTo(n) |-> IF s = {} THEN st ELSE Upsert(h[s \ {Max(s)}], cs[Max(s)])]
           T == {n \in Nat : ~ \E h : Folds(n, h)}
<1>0. IsFiniteSet(S) /\ \A s \in SUBSET S : IsFiniteSet(s) /\ Cardinality(s) \in Nat /\ (Cardinality(s) = 0 <=> s = {})
  <2>1. IsFiniteSet(S)
    BY FS_Interval
  <2> HIDE DEF S
  <2>2. \A s \in SUBSET S : IsFiniteSet(s)
    BY <2>1, FS_Subset
  <2> QED
    BY <2>1, <2>2, FS_CardinalityType, FS_EmptySet
<1>1. ASSUME NEW s \in SUBSET S, s # {} PROVE s \ {Max(s)} \in SUBSET S /\ Cardinality(s \ {Max(s)}) = Cardinality(s) - 1
  BY <1>0, <1>1, GreatestLine, FS_RemoveElement
<1> HIDE DEF S
<1>2. T = {}
  <2> SUFFICES ASSUME T # {} PROVE FALSE
    OBVIOUS
  <2>1. PICK n \in T : \A m \in T : n <= m
    <3>1. T \in SUBSET Nat
      OBVIOUS
    <3> HIDE DEF T
    <3> QED
      BY <3>1, LeastNatural
  <2>2. n \in Nat /\ ~ \E h : Folds(n, h)
    BY <2>1
  <2>3. CASE n = 0
    <3> DEFINE h == [s \in UpTo(0) |-> st]
    <3>1. \A s \in UpTo(0) : s = {}
      BY <1>0
    <3>2. Folds(0, h)
      BY <3>1
    <3> QED
      BY <2>2, <2>3, <3>2
  <2>4. CASE n # 0
    <3>1. n - 1 \in Nat /\ n - 1 \notin T
      <4> HIDE DEF T
      <4>1. n - 1 \in Nat /\ ~(n <= n - 1)
        BY <2>2, <2>4
      <4> QED
        BY <2>1, <4>1
    <3>2. PICK g : Folds(n - 1, g)
      BY <3>1
    <3> DEFINE h == [s \in UpTo(n) |-> IF s = {} THEN st ELSE Upsert(g[s \ {Max(s)}], cs[Max(s)])]
    <3>3. ASSUME NEW s \in UpTo(n), s # {} PROVE g[s \ {Max(s)}] = h[s \ {Max(s)}]
      <4> DEFINE u == s \ {Max(s)}
      <4>1. u \in UpTo(n - 1) /\ u \in UpTo(n)
        BY <1>0, <1>1, <2>2, <3>3
      <4> HIDE DEF u
      <4>2. g[u] = IF u = {} THEN st ELSE Upsert(g[u \ {Max(u)}], cs[Max(u)])
        BY <3>2, <4>1
      <4>3. h[u] = IF u = {} THEN st ELSE Upsert(g[u \ {Max(u)}], cs[Max(u)])
        BY <4>1
      <4> QED
        BY <4>2, <4>3 DEF u
    <3>4. Folds(n, h)
      BY <3>3
    <3> QED
      BY <2>2, <3>4
  <2> QED
    BY <2>3, <2>4
<1>3. Cardinality(S) \in Nat /\ UpTo(Cardinality(S)) = SUBSET S
  BY <1>0, FS_Subset
<1>4. PICK h : Folds(Cardinality(S), h)
  BY <1>2, <1>3
<1>5. Folding(st, cs, S, h)
  BY <1>3, <1>4 DEF Folding
<1> QED
  BY <1>5 DEF S

(* The store after n of the activities.                                    *)
Passing(st, cs, h) ==
  /\ h[0] = st /\ h[Len(cs)] = Projected(st, cs)
  /\ \A n \in 1 .. Len(cs) : h[n] = Upsert(h[n - 1], cs[n])

LEMMA ProjectedPasses ==
  ASSUME NEW st, NEW C, NEW cs \in Seq(C) PROVE \E h : Passing(st, cs, h)
<1> DEFINE l == Len(cs)
           g == CHOOSE h : Folding(st, cs, 1 .. l, h)
           h == [n \in 0 .. l |-> g[1 .. n]]
<1>1. l \in Nat /\ DOMAIN cs = 1 .. l
  OBVIOUS
<1> HIDE DEF l
<1>2. Folding(st, cs, 1 .. l, g)
  BY <1>1, FoldingExists
<1>3. Projected(st, cs) = g[1 .. l]
  BY <1>1, ProjectedIsFold
<1> HIDE DEF g
<1>4. h[0] = st /\ h[l] = Projected(st, cs)
  <2>1. 1 .. 0 = {} /\ {} \in SUBSET (1 .. l) /\ 0 \in 0 .. l /\ l \in 0 .. l
    BY <1>1
  <2>2. g[{}] = st
    BY <1>2, <2>1 DEF Folding
  <2> QED
    BY <1>3, <2>1, <2>2
<1>5. ASSUME NEW n \in 1 .. l PROVE h[n] = Upsert(h[n - 1], cs[n])
  <2> DEFINE s == 1 .. n
  <2>1. s \in SUBSET (1 .. l) /\ s # {} /\ n \in s /\ n \in 0 .. l /\ n - 1 \in 0 .. l /\ n \in Nat
    BY <1>1
  <2>2. Max(s) = n
    <3>1. Max(s) \in s /\ n <= Max(s)
      BY <1>1, <2>1, GreatestLine
    <3>2. Max(s) <= n /\ Max(s) \in Nat
      BY <2>1, <3>1
    <3> QED
      BY <2>1, <3>1, <3>2
  <2>3. s \ {n} = 1 .. (n - 1)
    BY <2>1
  <2>4. g[s] = Upsert(g[s \ {Max(s)}], cs[Max(s)])
    <3> HIDE DEF s
    <3> QED
      BY <1>2, <2>1 DEF Folding
  <2> QED
    BY <2>1, <2>2, <2>3, <2>4
<1> QED
  BY <1>4, <1>5 DEF Passing, l

(* A batch of activities only adds to the store.                           *)
LEMMA ProjectedGrows ==
  ASSUME NEW st \in Stores, NEW cs \in Seq(Activities) PROVE Grows(st, Projected(st, cs))
<1>1. PICK h : Passing(st, cs, h)
  BY ProjectedPasses
<1> DEFINE T == {n \in 0 .. Len(cs) : ~Grows(st, h[n])}
<1>2. T = {}
  <2> SUFFICES ASSUME T # {} PROVE FALSE
    OBVIOUS
  <2>1. PICK n \in T : \A m \in T : n <= m
    <3>1. T \in SUBSET Nat
      OBVIOUS
    <3> HIDE DEF T
    <3> QED
      BY <3>1, LeastNatural
  <2>2. n \in 0 .. Len(cs) /\ ~Grows(st, h[n])
    BY <2>1
  <2>3. n # 0
    <3>1. Grows(st, st)
      BY DEF Grows, Stores
    <3> QED
      BY <1>1, <2>2, <3>1 DEF Passing
  <2>4. Grows(st, h[n - 1])
    <3>1. n - 1 \in 0 .. Len(cs) /\ ~(n <= n - 1)
      BY <2>2, <2>3
    <3>2. n - 1 \notin T
      <4> HIDE DEF T
      <4> QED
        BY <2>1, <3>1
    <3> QED
      BY <3>1, <3>2
  <2>5. n \in 1 .. Len(cs) /\ cs[n] \in Activities
    BY <2>2, <2>3
  <2>6. h[n] = Upsert(h[n - 1], cs[n]) /\ h[n - 1] \in Stores
    BY <1>1, <2>4, <2>5 DEF Passing, Grows
  <2>7. Grows(h[n - 1], h[n])
    BY <2>5, <2>6, UpsertIs
  <2>8. Grows(st, h[n])
    BY <2>4, <2>7, GrowsMore
  <2> QED
    BY <2>2, <2>8
<1>3. Len(cs) \in 0 .. Len(cs)
  OBVIOUS
<1> QED
  BY <1>1, <1>2, <1>3 DEF Passing
-----------------------------------------------------------------------------
(* What a batch makes of the records, if no two activities are about the   *)
(* same one.                                                               *)
LEMMA ProjectedRecords ==
  ASSUME NEW st \in Stores, NEW cs \in Seq(Activities),
         \A m, n \in 1 .. Len(cs) : cs[m].key = cs[n].key => m = n
  PROVE  /\ \A n \in 1 .. Len(cs) :
              Projected(st, cs).records[cs[n].key] = Becomes(st.records[cs[n].key], cs[n].state)
         /\ \A k \in Keys : (\A n \in 1 .. Len(cs) : cs[n].key # k) => Projected(st, cs).records[k] = st.records[k]
<1>1. PICK h : Passing(st, cs, h)
  BY ProjectedPasses
<1> DEFINE l == Len(cs)
           Done(to, n) ==
             /\ to \in Stores
             /\ \A m \in 1 .. n : to.records[cs[m].key] = Becomes(st.records[cs[m].key], cs[m].state)
             /\ \A k \in Keys : (\A m \in 1 .. n : cs[m].key # k) => to.records[k] = st.records[k]
           T == {n \in 0 .. l : ~Done(h[n], n)}
<1>2. l \in Nat /\ \A m \in 1 .. l : cs[m] \in Activities /\ cs[m].key \in Keys
  <2>1. \A c \in Activities : c.key \in Keys
    BY DEF Activities
  <2>2. l \in Nat /\ \A m \in 1 .. l : cs[m] \in Activities
    OBVIOUS
  <2> QED
    BY <2>1, <2>2
<1>3. T = {}
  <2> SUFFICES ASSUME T # {} PROVE FALSE
    OBVIOUS
  <2>1. PICK n \in T : \A m \in T : n <= m
    <3>1. T \in SUBSET Nat
      OBVIOUS
    <3> HIDE DEF T
    <3> QED
      BY <3>1, LeastNatural
  <2>2. n \in 0 .. l /\ ~Done(h[n], n)
    BY <2>1
  <2>3. n # 0
    BY <1>1, <2>2 DEF Passing
  <2>4. n \in 1 .. l /\ n - 1 \in 0 .. l /\ ~(n <= n - 1)
    BY <1>2, <2>2, <2>3
  <2>5. Done(h[n - 1], n - 1)
    <3>1. n - 1 \notin T
      <4> HIDE DEF T
      <4> QED
        BY <2>1, <2>4
    <3> QED
      BY <2>4, <3>1
  <2> DEFINE a == h[n - 1]
             b == h[n]
             k == cs[n].key
  <2>6. b = Upsert(a, cs[n]) /\ a \in Stores /\ k \in Keys /\ cs[n] \in Activities
    BY <1>1, <1>2, <2>4, <2>5 DEF Passing
  <2>7. Grows(a, b) /\ b.records = [a.records EXCEPT ![k] = Becomes(a.records[k], cs[n].state)]
    <3> HIDE DEF a, b
    <3> QED
      BY <2>6, UpsertIs
  <2>8. b \in Stores /\ a.records \in [Keys -> ActivityRecords]
    BY <2>6, <2>7 DEF Grows, Stores
  <2>9. b.records[k] = Becomes(a.records[k], cs[n].state) /\ \A j \in Keys \ {k} : b.records[j] = a.records[j]
    BY <2>6, <2>7, <2>8
  <2>10. a.records[k] = st.records[k]
    <3>1. \A m \in 1 .. n - 1 : m \in 1 .. l /\ m # n
      BY <2>4
    <3>2. \A m \in 1 .. n - 1 : cs[m].key # k
      BY <2>4, <3>1
    <3> QED
      BY <2>5, <2>6, <3>2
  <2>11. ASSUME NEW m \in 1 .. n PROVE b.records[cs[m].key] = Becomes(st.records[cs[m].key], cs[m].state)
    <3>1. CASE m = n
      BY <2>9, <2>10, <3>1
    <3>2. CASE m # n
      <4>1. m \in 1 .. n - 1 /\ m \in 1 .. l
        BY <2>4, <3>2
      <4>2. cs[m].key # k /\ cs[m].key \in Keys
        BY <1>2, <2>4, <3>2, <4>1
      <4> QED
        BY <2>5, <2>9, <4>1, <4>2
    <3> QED
      BY <3>1, <3>2
  <2>12. ASSUME NEW j \in Keys, \A m \in 1 .. n : cs[m].key # j PROVE b.records[j] = st.records[j]
    <3>1. n \in 1 .. n /\ \A m \in 1 .. n - 1 : m \in 1 .. n
      BY <2>4
    <3>2. j # k /\ \A m \in 1 .. n - 1 : cs[m].key # j
      BY <2>12, <3>1
    <3> QED
      BY <2>5, <2>9, <3>2
  <2> QED
    BY <2>2, <2>8, <2>11, <2>12
<1>4. Done(h[l], l)
  <2>1. l \in 0 .. l
    BY <1>2
  <2> HIDE DEF Done
  <2> QED
    BY <1>3, <2>1
<1> QED
  BY <1>1, <1>4 DEF Passing
-----------------------------------------------------------------------------
(* What the sources have delivered.  A line without an event has no record.*)
BoundedLines == {rows \in Seq(LineTexts) : Len(rows) <= MaxLines}
SourceRows ==
  [state : {"none", "available", "fault"}, cursor : Nat, prefix : BoundedLines, tail : Nat, accepted : Nat]
SoundRows == {row \in SourceRows : Len(row.prefix) = row.cursor /\ (row.state = "none" => row.cursor = 0)}

Delivered(src, evs, records) ==
  /\ evs \in SUBSET (Journals \X (1 .. MaxLines) \X LineTexts)
  /\ \A e \in evs : e[2] <= src[e[1]].cursor /\ src[e[1]].prefix[e[2]] = e[3]
  /\ \A e \in evs : \A n \in e[2] .. src[e[1]].cursor : \E d \in evs : d[1] = e[1] /\ d[2] = n
  /\ \A e \in evs : e[3] # "silent" => records[<<e[1], e[2]>>] = [rev |-> 1, state |-> e[3]]
  /\ \A s \in Journals, n \in 1 .. MaxLines :
       (\A e \in evs : ~(e[1] = s /\ e[2] = n)) => records[<<s, n>>] = NoRecord

(* The lines that a batch brings are the ones behind the cursor.           *)
LEMMA FreshLines ==
  ASSUME NEW src \in [Journals -> SoundRows], NEW evs, NEW records, Delivered(src, evs, records),
         NEW s \in Journals, NEW l \in Nat
  PROVE  {n \in src[s].cursor + 1 .. l : \A e \in evs : <<e[1], e[2]>> # <<s, n>>} = src[s].cursor + 1 .. l
<1> SUFFICES ASSUME NEW n \in src[s].cursor + 1 .. l, NEW e \in evs, e[1] = s, e[2] = n PROVE FALSE
  OBVIOUS
<1>1. e[2] <= src[s].cursor /\ e[2] \in Nat /\ src[s].cursor \in Nat
  BY DEF Delivered, SoundRows, SourceRows
<1> QED
  BY <1>1

(* The lines behind the cursor c that have an activity, the events they    *)
(* become, and the store after a batch in which the told ones have one.    *)
ToldLines(rows, c) == {n \in c + 1 .. Len(rows) : rows[n] # "silent"}
EventsFrom(s, rows, c) == {<<s, n, rows[n]>> : n \in c + 1 .. Len(rows)}
AfterBatch(st, s, rows, told) ==
  Projected(st, [n \in 1 .. Len(rows) |-> RecordOf(s, n, IF n \in told THEN rows[n] ELSE "silent")])

(* The rows go on where the source s stands in src, and new is at their    *)
(* end.                                                                    *)
Continues(src, s, rows, new) ==
  /\ src \in [Journals -> SoundRows] /\ new \in [Journals -> SoundRows]
  /\ s \in Journals /\ rows \in BoundedLines
  /\ src[s].cursor <= Len(rows) /\ \A n \in 1 .. src[s].cursor : rows[n] = src[s].prefix[n]
  /\ new[s].cursor = Len(rows) /\ new[s].prefix = rows
  /\ \A j \in Journals \ {s} : new[j] = src[j]

SameFleet(st, to) == \A k \in FleetKeys : to.records[k] = st.records[k]

LEMMA BatchDelivered ==
  ASSUME NEW src, NEW s, NEW rows, NEW new, Continues(src, s, rows, new),
         NEW evs, NEW st \in Stores, Delivered(src, evs, st.records)
  PROVE  /\ Grows(st, AfterBatch(st, s, rows, ToldLines(rows, src[s].cursor)))
         /\ SameFleet(st, AfterBatch(st, s, rows, ToldLines(rows, src[s].cursor)))
         /\ Delivered(new, evs \cup EventsFrom(s, rows, src[s].cursor),
                      AfterBatch(st, s, rows, ToldLines(rows, src[s].cursor)).records)
<1> DEFINE l == Len(rows)
           c == src[s].cursor
           told == ToldLines(rows, c)
           cs == [n \in 1 .. l |-> RecordOf(s, n, IF n \in told THEN rows[n] ELSE "silent")]
           to == AfterBatch(st, s, rows, told)
           added == {<<s, n, rows[n]>> : n \in c + 1 .. l}
           all == evs \cup added
<1>0. to = Projected(st, cs)
  BY DEF AfterBatch
<1> HIDE DEF to
<1>22. /\ src \in [Journals -> SoundRows] /\ new \in [Journals -> SoundRows]
       /\ s \in Journals /\ rows \in BoundedLines
       /\ c <= l /\ \A n \in 1 .. c : rows[n] = src[s].prefix[n]
       /\ new[s].cursor = l /\ new[s].prefix = rows
       /\ \A j \in Journals \ {s} : new[j] = src[j]
  BY DEF Continues
<1> USE <1>22
<1>1. /\ l \in Nat /\ c \in Nat /\ c <= l /\ l <= MaxLines /\ MaxLines \in Nat
      /\ \A n \in 1 .. l : rows[n] \in LineTexts /\ n \in 1 .. MaxLines
      /\ \A n \in c + 1 .. l : n \in 1 .. l
  <2>1. rows \in Seq(LineTexts) /\ l <= MaxLines
    BY DEF BoundedLines
  <2>2. l \in Nat /\ MaxLines \in Nat /\ \A n \in 1 .. l : rows[n] \in LineTexts
    BY <2>1, ActivityConstants
  <2>3. c \in Nat
    BY DEF SoundRows, SourceRows
  <2> HIDE DEF l, c
  <2>4. c <= l
    BY DEF l, c
  <2> QED
    BY <2>1, <2>2, <2>3, <2>4
<1>21. \A n : n \in told <=> n \in c + 1 .. l /\ rows[n] # "silent"
  BY DEF ToldLines
<1> HIDE DEF l, c, told
<1>2. \A n \in 1 .. MaxLines : <<s, n>> \in Keys /\ <<s, n>> \notin FleetKeys
  BY DEF Keys, LineKeys, FleetKeys, Journals
<1>10. \A n \in told : n \in 1 .. l /\ n \in c + 1 .. l /\ rows[n] # "silent"
  BY <1>1, <1>21
<1>3. \A n \in 1 .. l : /\ cs[n] \in Activities /\ cs[n].key = <<s, n>>
                        /\ n \in told => cs[n].state = rows[n]
                        /\ n \notin told => cs[n].state = "none"
  <2>1. ASSUME NEW n \in 1 .. l, n \in told
        PROVE  cs[n] = [key |-> <<s, n>>, state |-> rows[n]] /\ rows[n] \in ActivityStates
    BY <1>1, <1>10, <2>1 DEF RecordOf, LineTexts, ActivityStates, l
  <2>2. ASSUME NEW n \in 1 .. l, n \notin told
        PROVE  cs[n] = [key |-> <<s, n>>, state |-> "none"] /\ "none" \in ActivityStates
    BY <2>2 DEF RecordOf, ActivityStates, l
  <2> HIDE DEF cs
  <2>3. \A n \in 1 .. l : <<s, n>> \in Keys
    BY <1>1, <1>2
  <2>4. ASSUME NEW n \in 1 .. l, NEW state \in ActivityStates, cs[n] = [key |-> <<s, n>>, state |-> state]
        PROVE  cs[n] \in Activities /\ cs[n].key = <<s, n>> /\ cs[n].state = state
    BY <2>3, <2>4 DEF Activities
  <2>5. ASSUME NEW n \in 1 .. l, n \in told
        PROVE  cs[n] \in Activities /\ cs[n].key = <<s, n>> /\ cs[n].state = rows[n]
    BY <2>1, <2>4, <2>5
  <2>6. ASSUME NEW n \in 1 .. l, n \notin told
        PROVE  cs[n] \in Activities /\ cs[n].key = <<s, n>> /\ cs[n].state = "none"
    BY <2>2, <2>4, <2>6
  <2> QED
    BY ONLY <2>5, <2>6
<1>4. cs \in Seq(Activities) /\ Len(cs) = l
  <2>1. cs \in [1 .. l -> Activities]
    BY <1>3 DEF l
  <2> QED
    BY <1>1, <2>1
<1> HIDE DEF cs
<1>5. Grows(st, to)
  BY <1>0, <1>4, ProjectedGrows
<1>6. \A m, n \in 1 .. Len(cs) : cs[m].key = cs[n].key => m = n
  BY <1>3, <1>4
<1>7. /\ \A n \in 1 .. l : to.records[cs[n].key] = Becomes(st.records[cs[n].key], cs[n].state)
      /\ \A k \in Keys : (\A n \in 1 .. l : cs[n].key # k) => to.records[k] = st.records[k]
  <2>1. st \in Stores
    OBVIOUS
  <2> QED
    BY ONLY <1>0, <1>4, <1>6, <2>1, ProjectedRecords
<1>8. \A n \in 1 .. l : to.records[<<s, n>>] = Becomes(st.records[<<s, n>>], cs[n].state)
  BY <1>3, <1>7
<1>9. /\ \A k \in FleetKeys : to.records[k] = st.records[k]
      /\ \A j \in Journals, n \in 1 .. MaxLines :
           (j # s \/ n \notin told) => to.records[<<j, n>>] = st.records[<<j, n>>]
  <2>1. ASSUME NEW k \in FleetKeys PROVE to.records[k] = st.records[k]
    <3>1. k \in Keys /\ \A n \in 1 .. l : cs[n].key # k
      BY <1>1, <1>2, <1>3 DEF Keys
    <3> QED
      BY <1>7, <3>1
  <2>2. ASSUME NEW j \in Journals, NEW n \in 1 .. MaxLines, j # s \/ n \notin told
        PROVE  to.records[<<j, n>>] = st.records[<<j, n>>]
    <3>1. CASE j = s /\ n \in 1 .. l
      <4>1. cs[n].state = "none"
        BY <1>3, <2>2, <3>1
      <4> QED
        BY <1>8, <3>1, <4>1 DEF Becomes
    <3>2. CASE j # s \/ n \notin 1 .. l
      <4>1. \A m \in 1 .. l : cs[m].key # <<j, n>>
        BY <1>3, <3>2
      <4>2. <<j, n>> \in Keys
        BY DEF Keys, LineKeys
      <4> QED
        BY <1>7, <4>1, <4>2
    <3> QED
      BY <3>1, <3>2
  <2> QED
    BY <2>1, <2>2
<1>11. \A e \in evs : e[1] \in Journals /\ e[2] \in 1 .. MaxLines /\ e[3] \in LineTexts /\ e = <<e[1], e[2], e[3]>>
  BY DEF Delivered
<1>12. \A e \in evs : e[2] <= src[e[1]].cursor /\ src[e[1]].prefix[e[2]] = e[3]
  BY DEF Delivered
<1>13. \A e \in evs : e[1] = s => e[2] <= c /\ e[2] \in 1 .. c /\ e[2] \notin told
  <2>1. ASSUME NEW e \in evs, e[1] = s PROVE e[2] <= c /\ e[2] \in 1 .. c /\ e[2] \notin c + 1 .. l
    <3>1. e[2] <= c
      BY <1>12, <2>1 DEF c
    <3> QED
      BY <1>1, <1>11, <3>1
  <2> QED
    BY <1>10, <2>1
<1>14. \A n \in told : to.records[<<s, n>>] = [rev |-> 1, state |-> rows[n]]
  <2>1. ASSUME NEW n \in told PROVE to.records[<<s, n>>] = [rev |-> 1, state |-> rows[n]]
    <3>1. st.records[<<s, n>>] = NoRecord
      <4>1. n \in 1 .. MaxLines
        BY <1>1, <1>10
      <4>2. \A e \in evs : ~(e[1] = s /\ e[2] = n)
        BY <1>13
      <4> QED
        BY <4>1, <4>2 DEF Delivered
    <3>2. rows[n] \notin {"none", "silent"} /\ cs[n].state = rows[n]
      BY <1>1, <1>3, <1>10 DEF LineTexts
    <3> QED
      BY <1>8, <1>10, <3>1, <3>2 DEF Becomes, NoRecord
  <2> QED
    BY <2>1
<1>15. all \in SUBSET (Journals \X (1 .. MaxLines) \X LineTexts)
  BY <1>1, <1>11
<1>16. ASSUME NEW e \in all PROVE e[2] <= new[e[1]].cursor /\ new[e[1]].prefix[e[2]] = e[3]
  <2>1. CASE e \in added
    BY <1>1, <2>1 DEF l
  <2>2. CASE e \in evs /\ e[1] = s
    <3>1. e[2] \in 1 .. c /\ e[2] <= c /\ src[s].prefix[e[2]] = e[3]
      BY <1>12, <1>13, <2>2
    <3>2. rows[e[2]] = e[3] /\ e[2] <= l
      BY <1>1, <3>1 DEF c
    <3> QED
      BY <2>2, <3>2 DEF l
  <2>3. CASE e \in evs /\ e[1] # s
    BY <1>11, <1>12, <2>3
  <2> QED
    BY <2>1, <2>2, <2>3
<1>17. ASSUME NEW e \in all, NEW n \in e[2] .. new[e[1]].cursor PROVE \E d \in all : d[1] = e[1] /\ d[2] = n
  <2>1. CASE e[1] = s
    <3>1. e[2] \in Nat /\ n \in e[2] .. l /\ e[2] >= 1
      BY <1>1, <1>15, <2>1 DEF l
    <3>2. CASE n \in c + 1 .. l
      <4> DEFINE d == <<s, n, rows[n]>>
      <4>1. d \in all /\ d[1] = s /\ d[2] = n
        BY <3>2
      <4> HIDE DEF d, all
      <4> QED
        BY <2>1, <4>1
    <3>3. CASE n \notin c + 1 .. l
      <4>1. n <= c /\ n \in e[2] .. c
        BY <1>1, <3>1, <3>3
      <4>2. e \in evs
        BY <1>1, <3>1, <4>1
      <4>3. \E d \in evs : d[1] = e[1] /\ d[2] = n
        BY <2>1, <4>1, <4>2 DEF Delivered, c
      <4> QED
        BY <4>3
    <3> QED
      BY <3>2, <3>3
  <2>2. CASE e[1] # s
    <3>1. e \in evs /\ new[e[1]] = src[e[1]]
      BY <1>11, <2>2
    <3>2. \E d \in evs : d[1] = e[1] /\ d[2] = n
      BY <3>1 DEF Delivered
    <3> QED
      BY <3>2
  <2> QED
    BY <2>1, <2>2
<1>18. ASSUME NEW e \in all, e[3] # "silent" PROVE to.records[<<e[1], e[2]>>] = [rev |-> 1, state |-> e[3]]
  <2>1. CASE e \in added
    <3>1. PICK n \in c + 1 .. l : e = <<s, n, rows[n]>>
      BY <2>1
    <3>2. n \in told /\ e[1] = s /\ e[2] = n /\ e[3] = rows[n]
      BY <1>18, <1>21, <3>1
    <3> QED
      BY <1>14, <3>2
  <2>2. CASE e \in evs
    <3>1. st.records[<<e[1], e[2]>>] = [rev |-> 1, state |-> e[3]]
      BY <1>18, <2>2 DEF Delivered
    <3>2. e[1] # s \/ e[2] \notin told
      BY <1>13, <2>2
    <3> QED
      BY <1>9, <1>11, <2>2, <3>1, <3>2
  <2> QED
    BY <2>1, <2>2
<1>19. ASSUME NEW j \in Journals, NEW n \in 1 .. MaxLines, \A e \in all : ~(e[1] = j /\ e[2] = n)
       PROVE  to.records[<<j, n>>] = NoRecord
  <2>1. st.records[<<j, n>>] = NoRecord
    BY <1>19 DEF Delivered
  <2>2. j # s \/ n \notin told
    <3>1. ASSUME j = s, n \in told PROVE FALSE
      <4>1. <<s, n, rows[n]>> \in all
        BY <1>10, <3>1
      <4> QED
        BY <1>19, <3>1, <4>1
    <3> QED
      BY <3>1
  <2> QED
    BY <1>9, <2>1, <2>2
<1>20. Delivered(new, all, to.records)
  <2> HIDE DEF all
  <2> QED
    BY <1>15, <1>16, <1>17, <1>18, <1>19 DEF Delivered
<1> QED
  BY <1>5, <1>9, <1>20 DEF to, told, l, c, EventsFrom, SameFleet
-----------------------------------------------------------------------------
(* The reconcilers.  What one has read of a source is a beginning of it.   *)
Fleets == [at : Nat, task : {"absent", "active", "completed"}, open : BOOLEAN]
BranchKnown == {"branch-bind", "branch-apply"}
CaptainKnown == {"captain-row", "captain-bind", "captain-apply"}
ReconcilerRows ==
  [pc : BranchKnown \cup CaptainKnown \cup {"idle", "fleet", "branch", "branch-row", "captain", "ack"},
   fleet : Fleets, rows : BoundedLines, known : SoundRows]
Begins(known, row) == known.cursor <= row.cursor /\ \A n \in 1 .. known.cursor : row.prefix[n] = known.prefix[n]
Informed(r, src) ==
  /\ r \in ReconcilerRows
  /\ r.pc \in BranchKnown => Begins(r.known, src["branch"])
  /\ r.pc \in CaptainKnown => Begins(r.known, src["captain"])
  /\ r.pc = "ack" => Len(r.rows) <= src["captain"].cursor

SourcesInv ==
  /\ journal \in [Journals -> BoundedLines] /\ fleet \in Fleets /\ fleetRow \in Fleets
  /\ store \in Stores /\ policy \in {"tail", "from-start", "after:1"}
  /\ source \in [Journals -> SoundRows]
  /\ DOMAIN reconciler = Reconcilers
  /\ \A i \in Reconcilers : Informed(reconciler[i], source)
  /\ Delivered(source, events, store.records)
  /\ acked \in Nat /\ acked <= source["captain"].cursor
  /\ FleetIsNewest

LEMMA NothingYet ==
  /\ NoFleet \in Fleets /\ NoSource \in SoundRows /\ Resting \in ReconcilerRows /\ Resting.pc = "idle"
  /\ NoRecord \in ActivityRecords /\ <<>> \in BoundedLines
  /\ Decision \in Keys /\ Objective \in Keys /\ Decision # Objective
  /\ \A pc \in {"idle", "branch", "captain"} :
       [Resting EXCEPT !.pc = pc] \in ReconcilerRows /\ [Resting EXCEPT !.pc = pc].pc = pc
<1>1. NoFleet \in Fleets
  BY DEF NoFleet, Fleets
<1>2. <<>> \in BoundedLines /\ Len(<<>>) = 0
  BY ActivityConstants DEF BoundedLines
<1>3. NoSource \in SoundRows
  BY <1>2 DEF NoSource, SoundRows, SourceRows
<1>4. Resting \in ReconcilerRows /\ Resting.pc = "idle"
  BY <1>1, <1>2, <1>3 DEF Resting, ReconcilerRows
<1>5. \A pc \in {"idle", "branch", "captain"} :
        [Resting EXCEPT !.pc = pc] \in ReconcilerRows /\ [Resting EXCEPT !.pc = pc].pc = pc
  BY <1>4 DEF ReconcilerRows
<1>6. NoRecord \in ActivityRecords
  BY DEF NoRecord, ActivityRecords, ActivityStates
<1>7. Decision \in Keys /\ Objective \in Keys /\ Decision # Objective
  BY DEF Decision, Objective, Keys, FleetKeys
<1> QED
  BY <1>1, <1>2, <1>3, <1>4, <1>5, <1>6, <1>7

LEMMA SourcesStart == ActivityInit => SourcesInv
<1> SUFFICES ASSUME ActivityInit PROVE SourcesInv
  OBVIOUS
<1>1. /\ journal \in [Journals -> BoundedLines] /\ fleet \in Fleets /\ fleetRow \in Fleets
      /\ source \in [Journals -> SoundRows] /\ events = {} /\ acked = 0
      /\ DOMAIN reconciler = Reconcilers /\ \A i \in Reconcilers : reconciler[i] = Resting
      /\ store = [records |-> [k \in Keys |-> NoRecord], changes |-> << >>] /\ fleetRow.open = FALSE
      /\ policy \in {"tail", "from-start", "after:1"}
  BY NothingYet DEF ActivityInit, NoFleet
<1>2. store \in Stores /\ \A k \in Keys : store.records[k] = NoRecord
  BY <1>1, NothingYet DEF Stores
<1>3. \A i \in Reconcilers : Informed(reconciler[i], source)
  BY <1>1, NothingYet DEF Informed, BranchKnown, CaptainKnown
<1>4. \A s \in Journals, n \in 1 .. MaxLines : <<s, n>> \in Keys
  BY DEF Keys, LineKeys
<1>5. Delivered(source, events, store.records)
  BY <1>1, <1>2, <1>4 DEF Delivered
<1>6. source["captain"].cursor \in Nat
  BY <1>1 DEF Journals, SoundRows, SourceRows
<1>7. FleetIsNewest
  BY <1>1, <1>2, NothingYet DEF FleetIsNewest, NoRecord
<1> QED
  BY <1>1, <1>2, <1>3, <1>5, <1>6, <1>7 DEF SourcesInv

(* A source only grows behind what was read of it.                         *)
LEMMA BeginsStill ==
  ASSUME NEW a \in SoundRows, NEW b \in SoundRows, NEW c \in SoundRows, Begins(a, b), Begins(b, c) PROVE Begins(a, c)
<1>1. a.cursor \in Nat /\ b.cursor \in Nat /\ c.cursor \in Nat
  BY DEF SoundRows, SourceRows
<1>2. ASSUME NEW n \in 1 .. a.cursor PROVE n \in 1 .. b.cursor
  BY <1>1 DEF Begins
<1> QED
  BY <1>1, <1>2 DEF Begins

LEMMA InformedStill ==
  ASSUME NEW r, NEW src \in [Journals -> SoundRows], NEW new \in [Journals -> SoundRows], Informed(r, src),
         \A s \in Journals : Begins(src[s], new[s])
  PROVE  Informed(r, new)
<1>1. "branch" \in Journals /\ "captain" \in Journals
  BY DEF Journals
<1>2. r.known \in SoundRows /\ r.rows \in Seq(LineTexts)
  BY DEF Informed, ReconcilerRows, BoundedLines
<1>3. r.pc \in BranchKnown => Begins(r.known, new["branch"])
  BY <1>1, <1>2, BeginsStill DEF Informed
<1>4. r.pc \in CaptainKnown => Begins(r.known, new["captain"])
  BY <1>1, <1>2, BeginsStill DEF Informed
<1>5. src["captain"].cursor \in Nat /\ new["captain"].cursor \in Nat /\ Len(r.rows) \in Nat
  BY <1>1, <1>2 DEF SoundRows, SourceRows
<1>6. r.pc = "ack" => Len(r.rows) <= new["captain"].cursor
  BY <1>1, <1>5 DEF Informed, Begins
<1> QED
  BY <1>3, <1>4, <1>6 DEF Informed

LEMMA SameRow == ASSUME NEW a \in SoundRows PROVE Begins(a, a)
BY DEF Begins, SoundRows, SourceRows

LEMMA ReconcilersStill ==
  ASSUME SourcesInv, NEW i \in Reconcilers, NEW r, GoesWith(i, r), NEW new \in [Journals -> SoundRows],
         \A s \in Journals : Begins(source[s], new[s]), Informed(r, new)
  PROVE  DOMAIN reconciler' = Reconcilers /\ \A j \in Reconcilers : Informed(reconciler'[j], new)
<1>1. DOMAIN reconciler = Reconcilers /\ reconciler' = [reconciler EXCEPT ![i] = r]
  BY DEF SourcesInv, GoesWith
<1>2. ASSUME NEW j \in Reconcilers PROVE Informed(reconciler'[j], new)
  <2>1. CASE j = i
    BY <1>1, <2>1
  <2>2. CASE j # i
    <3>1. Informed(reconciler[j], source) /\ source \in [Journals -> SoundRows]
      BY DEF SourcesInv
    <3>2. Informed(reconciler[j], new)
      BY <3>1, InformedStill
    <3> QED
      BY <1>1, <2>2, <3>2
  <2> QED
    BY <2>1, <2>2
<1> QED
  BY <1>1, <1>2

(* A reconciler moves and the tables stay.                                 *)
LEMMA OnlyReconciler ==
  ASSUME SourcesInv, NEW i \in Reconcilers, NEW r, GoesWith(i, r), Informed(r, source),
         UNCHANGED <<journal, fleet, policy, source, fleetRow, events, store, acked>>
  PROVE  SourcesInv'
<1>1. source \in [Journals -> SoundRows] /\ \A s \in Journals : Begins(source[s], source[s])
  BY SameRow DEF SourcesInv
<1>2. DOMAIN reconciler' = Reconcilers /\ \A j \in Reconcilers : Informed(reconciler'[j], source)
  BY <1>1, ReconcilersStill
<1> QED
  BY <1>2 DEF SourcesInv, FleetIsNewest

LEMMA RestInformed ==
  ASSUME NEW src
  PROVE  /\ Informed(Resting, src)
         /\ \A pc \in {"idle", "branch", "captain"} : Informed([Resting EXCEPT !.pc = pc], src)
BY NothingYet DEF Informed, BranchKnown, CaptainKnown

LEMMA Reading ==
  ASSUME SourcesInv, NEW i \in Reconcilers,
         ReadFleet(i) \/ ReadBranchRows(i) \/ ReadCaptainRows(i) \/ ReadSource(i) \/ ReconcilerStops(i),
         UNCHANGED <<journal, fleet, policy>>
  PROVE  SourcesInv'
<1> DEFINE r == reconciler[i]
<1>1. /\ Informed(r, source) /\ fleet \in Fleets /\ journal["branch"] \in BoundedLines /\ journal["captain"] \in BoundedLines
      /\ source["branch"] \in SoundRows /\ source["captain"] \in SoundRows
  BY DEF SourcesInv, Journals
<1>2. r \in ReconcilerRows
  BY <1>1 DEF Informed
<1>3. UNCHANGED <<source, fleetRow, events, store, acked>>
  BY DEF ReadFleet, ReadBranchRows, ReadCaptainRows, ReadSource, ReconcilerStops
<1>4. CASE ReadFleet(i)
  <2> DEFINE q == [r EXCEPT !.pc = "fleet", !.fleet = fleet]
  <2>1. GoesWith(i, q)
    BY <1>4 DEF ReadFleet
  <2>2. q \in ReconcilerRows /\ q.pc = "fleet"
    BY <1>1, <1>2 DEF ReconcilerRows
  <2> HIDE DEF q
  <2>3. Informed(q, source)
    BY <2>2 DEF Informed, BranchKnown, CaptainKnown
  <2> QED
    BY <1>3, <2>1, <2>3, OnlyReconciler
<1>5. CASE ReadBranchRows(i)
  <2> DEFINE q == [r EXCEPT !.pc = "branch-row", !.rows = journal["branch"]]
  <2>1. GoesWith(i, q)
    BY <1>5 DEF ReadBranchRows
  <2>2. q \in ReconcilerRows /\ q.pc = "branch-row"
    BY <1>1, <1>2 DEF ReconcilerRows
  <2> HIDE DEF q
  <2>3. Informed(q, source)
    BY <2>2 DEF Informed, BranchKnown, CaptainKnown
  <2> QED
    BY <1>3, <2>1, <2>3, OnlyReconciler
<1>6. CASE ReadCaptainRows(i)
  <2> DEFINE q == [r EXCEPT !.pc = "captain-bind", !.rows = journal["captain"]]
  <2>1. GoesWith(i, q) /\ r.pc = "captain-row"
    BY <1>6 DEF ReadCaptainRows
  <2>2. q \in ReconcilerRows /\ q.pc = "captain-bind" /\ q.known = r.known
    BY <1>1, <1>2 DEF ReconcilerRows, CaptainKnown
  <2> HIDE DEF q
  <2>3. Begins(r.known, source["captain"])
    BY <1>1, <2>1 DEF Informed, CaptainKnown
  <2>4. Informed(q, source)
    BY <2>2, <2>3 DEF Informed, BranchKnown, CaptainKnown
  <2> QED
    BY <1>3, <2>1, <2>4, OnlyReconciler
<1>7. CASE ReadSource(i)
  <2>1. CASE GoesWith(i, [r EXCEPT !.pc = "branch-bind", !.known = source["branch"]])
    <3> DEFINE q == [r EXCEPT !.pc = "branch-bind", !.known = source["branch"]]
    <3>1. q \in ReconcilerRows /\ q.pc = "branch-bind" /\ q.known = source["branch"]
      BY <1>1, <1>2 DEF ReconcilerRows, BranchKnown
    <3>2. GoesWith(i, q)
      BY <2>1
    <3> HIDE DEF q
    <3>3. Informed(q, source)
      BY <1>1, <3>1, SameRow DEF Informed, BranchKnown, CaptainKnown
    <3> QED
      BY <1>3, <3>2, <3>3, OnlyReconciler
  <2>2. CASE GoesWith(i, [r EXCEPT !.pc = "captain-row", !.known = source["captain"]])
    <3> DEFINE q == [r EXCEPT !.pc = "captain-row", !.known = source["captain"]]
    <3>1. q \in ReconcilerRows /\ q.pc = "captain-row" /\ q.known = source["captain"]
      BY <1>1, <1>2 DEF ReconcilerRows, CaptainKnown
    <3>2. GoesWith(i, q)
      BY <2>2
    <3> HIDE DEF q
    <3>3. Informed(q, source)
      BY <1>1, <3>1, SameRow DEF Informed, BranchKnown, CaptainKnown
    <3> QED
      BY <1>3, <3>2, <3>3, OnlyReconciler
  <2> QED
    BY <1>7, <2>1, <2>2 DEF ReadSource
<1>8. CASE ReconcilerStops(i)
  BY <1>3, <1>8, RestInformed, OnlyReconciler DEF ReconcilerStops
<1> QED
  BY <1>4, <1>5, <1>6, <1>7, <1>8
-----------------------------------------------------------------------------
(* The fleet snapshot.                                                     *)
LEMMA SnapshotStored ==
  ASSUME NEW st \in Stores, NEW f \in Fleets
  PROVE  LET to == Closed(Projected(st, Candidates(f)), f)
         IN /\ Grows(st, to)
            /\ (to.records[Decision].state = "awaiting-user") <=> f.open
            /\ f.open => to.records[Objective].state = "awaiting-user"
            /\ \A s \in Journals, n \in 1 .. MaxLines : to.records[<<s, n>>] = st.records[<<s, n>>]
<1> DEFINE cs == Candidates(f)
           d == [key |-> Decision, state |-> "awaiting-user"]
           o == [key |-> Objective, state |-> LifecycleState(f)]
           mid == Projected(st, cs)
           to == Closed(mid, f)
<1>1. f.open \in BOOLEAN /\ f.task \in {"absent", "active", "completed"}
  BY DEF Fleets
<1>2. d \in Activities /\ d.key = Decision /\ d.state = "awaiting-user"
  BY NothingYet DEF Activities, ActivityStates
<1>3. LifecycleState(f) # "absent" => o \in Activities /\ o.key = Objective /\ o.state = LifecycleState(f)
  BY <1>1, NothingYet DEF Activities, ActivityStates, LifecycleState
<1>4. \A s \in Journals, n \in 1 .. MaxLines : <<s, n>> \in Keys /\ <<s, n>> # Decision /\ <<s, n>> # Objective
  BY DEF Keys, LineKeys, Journals, Decision, Objective
<1>5. /\ f.open => /\ cs \in Seq(Activities) /\ Len(cs) = 2 /\ cs[1] = d /\ cs[2] = o
                   /\ LifecycleState(f) = "awaiting-user"
      /\ ~f.open /\ f.task # "absent" => cs = <<o>> /\ LifecycleState(f) = f.task
      /\ ~f.open /\ f.task = "absent" => cs = <<>>
  <2>1. CASE f.open
    <3>1. DecisionCandidate(f) = <<d>> /\ LifecycleState(f) = "awaiting-user" /\ ObjectiveCandidate(f) = <<o>>
      BY <2>1 DEF DecisionCandidate, ObjectiveCandidate, LifecycleState
    <3>2. cs = <<d>> \o <<o>>
      BY <3>1 DEF Candidates
    <3>3. d \in Activities /\ o \in Activities
      BY <1>2, <1>3, <3>1
    <3> HIDE DEF d, o, cs
    <3>4. cs \in Seq(Activities) /\ Len(cs) = 2 /\ cs[1] = d /\ cs[2] = o
      BY <3>2, <3>3
    <3> QED
      BY <2>1, <3>1, <3>4
  <2>2. CASE ~f.open
    BY <2>2 DEF Candidates, DecisionCandidate, ObjectiveCandidate, LifecycleState
  <2> QED
    BY <2>1, <2>2
<1> HIDE DEF cs, d, o
<1>6. /\ cs \in Seq(Activities)
      /\ \A n \in 1 .. Len(cs) : cs[n].key \in {Decision, Objective}
      /\ \A m, n \in 1 .. Len(cs) : cs[m].key = cs[n].key => m = n
  <2>1. CASE f.open
    <3>1. d \in Activities /\ o \in Activities /\ d.key = Decision /\ o.key = Objective
      BY <1>2, <1>3, <1>5, <2>1
    <3>2. cs \in Seq(Activities) /\ Len(cs) = 2 /\ cs[1] = d /\ cs[2] = o
      BY <1>5, <2>1
    <3>3. \A n \in 1 .. Len(cs) : n = 1 \/ n = 2
      BY <3>2
    <3> QED
      BY <3>1, <3>2, <3>3, NothingYet
  <2>2. CASE ~f.open /\ f.task # "absent"
    <3>1. cs = <<o>> /\ o \in Activities /\ o.key = Objective
      BY <1>2, <1>3, <1>5, <2>2
    <3>2. cs \in Seq(Activities) /\ Len(cs) = 1 /\ cs[1] = o
      BY <3>1
    <3>3. \A n \in 1 .. Len(cs) : n = 1
      BY <3>2
    <3> QED
      BY <3>1, <3>2, <3>3
  <2>3. CASE ~f.open /\ f.task = "absent"
    <3>1. cs = <<>>
      BY <1>5, <2>3
    <3>2. cs \in Seq(Activities) /\ 1 .. Len(cs) = {}
      BY <3>1
    <3> QED
      BY <3>2
  <2> QED
    BY <1>1, <2>1, <2>2, <2>3
<1>7. /\ \A n \in 1 .. Len(cs) : mid.records[cs[n].key] = Becomes(st.records[cs[n].key], cs[n].state)
      /\ \A k \in Keys : (\A n \in 1 .. Len(cs) : cs[n].key # k) => mid.records[k] = st.records[k]
      /\ Grows(st, mid)
  BY <1>6, ProjectedRecords, ProjectedGrows
<1> HIDE DEF mid
<1>8. mid \in Stores /\ \A k \in Keys : mid.records[k].state \in ActivityStates
  BY <1>7 DEF Grows, Stores, ActivityRecords
<1>9. \A s \in Journals, n \in 1 .. MaxLines : mid.records[<<s, n>>] = st.records[<<s, n>>]
  <2>1. ASSUME NEW s \in Journals, NEW n \in 1 .. MaxLines PROVE mid.records[<<s, n>>] = st.records[<<s, n>>]
    <3> DEFINE k == <<s, n>>
    <3>1. k \in Keys /\ k # Decision /\ k # Objective
      BY <1>4
    <3> HIDE DEF k
    <3>2. \A m \in 1 .. Len(cs) : cs[m].key # k
      BY <1>6, <3>1
    <3>3. mid.records[k] = st.records[k]
      BY <1>7, <3>1, <3>2
    <3> QED
      BY <3>3 DEF k
  <2> QED
    BY <2>1
<1>10. CASE f.open
  <2>1. /\ Len(cs) = 2 /\ cs[1] = d /\ cs[2] = o
        /\ d.key = Decision /\ d.state = "awaiting-user" /\ o.key = Objective /\ o.state = "awaiting-user"
    BY <1>2, <1>3, <1>5, <1>10
  <2>2. mid.records[d.key] = Becomes(st.records[d.key], d.state) /\ mid.records[o.key] = Becomes(st.records[o.key], o.state)
    BY <1>7, <2>1
  <2>3. mid.records[Decision].state = "awaiting-user" /\ mid.records[Objective].state = "awaiting-user"
    BY <2>1, <2>2 DEF Becomes
  <2>4. to = mid
    BY <1>10 DEF Closed
  <2> QED
    BY <1>7, <1>9, <1>10, <2>3, <2>4 DEF to, mid, cs
<1>11. CASE ~f.open
  <2>1. CASE mid.records[Decision].state # "awaiting-user"
    <3>1. to = mid
      BY <2>1 DEF Closed
    <3> QED
      BY <1>7, <1>9, <1>11, <2>1, <3>1 DEF to, mid, cs
  <2>2. CASE mid.records[Decision].state = "awaiting-user"
    <3> DEFINE c == [key |-> Decision, state |-> "resolved"]
    <3>1. to = Upsert(mid, c)
      BY <1>11, <2>2 DEF Closed
    <3>2. c \in Activities /\ c.key = Decision /\ c.state = "resolved"
      BY NothingYet DEF Activities, ActivityStates
    <3> HIDE DEF c, to
    <3>3. /\ Grows(mid, to)
          /\ to.records = [mid.records EXCEPT ![Decision] = Becomes(mid.records[Decision], "resolved")]
      BY <1>8, <3>1, <3>2, UpsertIs
    <3>4. mid.records \in [Keys -> ActivityRecords] /\ Decision \in Keys
      BY <1>8, NothingYet DEF Stores
    <3>5. /\ to.records[Decision].state = "resolved"
          /\ \A s \in Journals, n \in 1 .. MaxLines : to.records[<<s, n>>] = st.records[<<s, n>>]
      BY <1>4, <1>9, <2>2, <3>3, <3>4 DEF Becomes
    <3>6. Grows(st, to)
      BY <1>7, <3>3, GrowsMore
    <3> QED
      BY <1>11, <3>5, <3>6 DEF to, mid, cs
  <2> QED
    BY <2>1, <2>2
<1> QED
  BY <1>1, <1>10, <1>11

LEMMA SnapshotStep ==
  ASSUME SourcesInv, NEW i \in Reconcilers, ReconcileSnapshot(i), UNCHANGED <<journal, fleet, policy>>
  PROVE  SourcesInv' /\ Grows(store, store')
<1> DEFINE f == reconciler[i].fleet
<1>1. f \in Fleets /\ store \in Stores
  BY DEF SourcesInv, Informed, ReconcilerRows
<1>2. /\ GoesWith(i, [Resting EXCEPT !.pc = "branch"]) /\ UNCHANGED <<acked, source, events>>
      /\ Informed([Resting EXCEPT !.pc = "branch"], source)
  BY RestInformed DEF ReconcileSnapshot, Goes
<1>3. CASE UNCHANGED <<store, fleetRow>>
  <2>1. SourcesInv'
    BY <1>2, <1>3, OnlyReconciler
  <2>2. Grows(store, store)
    BY <1>1 DEF Grows, Stores
  <2> QED
    BY <1>3, <2>1, <2>2
<1>4. CASE store' = Closed(Projected(store, Candidates(f)), f) /\ fleetRow' = f
  <2>1. /\ Grows(store, store')
        /\ (store'.records[Decision].state = "awaiting-user") <=> f.open
        /\ f.open => store'.records[Objective].state = "awaiting-user"
        /\ \A s \in Journals, n \in 1 .. MaxLines : store'.records[<<s, n>>] = store.records[<<s, n>>]
    BY <1>1, <1>4, SnapshotStored
  <2>2. FleetIsNewest'
    BY <1>4, <2>1 DEF FleetIsNewest
  <2>3. Delivered(source, events, store'.records)
    <3>1. \A e \in events : e[1] \in Journals /\ e[2] \in 1 .. MaxLines
      BY DEF SourcesInv, Delivered
    <3> QED
      BY <2>1, <3>1 DEF SourcesInv, Delivered
  <2>4. source \in [Journals -> SoundRows] /\ \A s \in Journals : Begins(source[s], source[s])
    BY SameRow DEF SourcesInv
  <2>5. DOMAIN reconciler' = Reconcilers /\ \A j \in Reconcilers : Informed(reconciler'[j], source)
    BY <1>2, <2>4, ReconcilersStill
  <2>6. store' \in Stores /\ fleetRow' \in Fleets
    BY <1>1, <1>4, <2>1 DEF Grows
  <2> QED
    BY <1>2, <2>1, <2>2, <2>3, <2>5, <2>6 DEF SourcesInv
<1> QED
  BY <1>3, <1>4 DEF ReconcileSnapshot
-----------------------------------------------------------------------------
(* A journal is bound to its row: nothing was accepted from it so far.     *)
LEMMA FirstLines ==
  ASSUME NEW rows \in BoundedLines, NEW c \in 0 .. Len(rows)
  PROVE  /\ SubSeq(rows, 1, c) \in BoundedLines /\ Len(SubSeq(rows, 1, c)) = c
         /\ \A n \in 1 .. c : SubSeq(rows, 1, c)[n] = rows[n]
<1>1. rows \in Seq(LineTexts) /\ Len(rows) \in Nat /\ Len(rows) <= MaxLines /\ MaxLines \in Nat
  BY ActivityConstants DEF BoundedLines
<1>2. c \in Nat /\ c <= Len(rows) /\ c <= MaxLines
  BY <1>1
<1>3. /\ SubSeq(rows, 1, c) \in Seq(LineTexts) /\ Len(SubSeq(rows, 1, c)) = c
      /\ \A n \in 1 .. c : SubSeq(rows, 1, c)[n] = rows[n]
  BY <1>1, <1>2
<1> QED
  BY <1>2, <1>3 DEF BoundedLines

LEMMA SourceBound ==
  ASSUME SourcesInv, NEW s \in Journals, NEW new, Unbound(source[s]),
         NEW row \in SoundRows, new = [source EXCEPT ![s] = row]
  PROVE  /\ new \in [Journals -> SoundRows] /\ \A j \in Journals : Begins(source[j], new[j])
         /\ Delivered(new, events, store.records) /\ acked <= new["captain"].cursor
<1>1. /\ source \in [Journals -> SoundRows] /\ Delivered(source, events, store.records)
      /\ acked \in Nat /\ acked <= source["captain"].cursor
  BY DEF SourcesInv
<1>2. source[s].cursor = 0 /\ row.cursor \in Nat
  BY <1>1 DEF Unbound, SoundRows, SourceRows
<1>3. new \in [Journals -> SoundRows] /\ new[s] = row /\ \A j \in Journals \ {s} : new[j] = source[j]
  BY <1>1
<1>4. ASSUME NEW j \in Journals PROVE Begins(source[j], new[j])
  <2>1. CASE j = s
    <3>1. 1 .. source[j].cursor = {}
      BY <1>2, <2>1
    <3> QED
      BY <1>2, <1>3, <2>1, <3>1 DEF Begins
  <2>2. CASE j # s
    BY <1>1, <1>3, <2>2, SameRow
  <2> QED
    BY <2>1, <2>2
<1>5. \A e \in events : e[1] \in Journals /\ e[1] # s /\ new[e[1]] = source[e[1]]
  <2>1. ASSUME NEW e \in events PROVE e[1] \in Journals /\ e[1] # s
    <3>1. e[1] \in Journals /\ e[2] \in 1 .. MaxLines /\ e[2] <= source[e[1]].cursor
      BY <1>1 DEF Delivered
    <3>2. ~(e[2] <= 0)
      BY <3>1
    <3> QED
      BY <1>2, <3>1, <3>2
  <2> QED
    BY <1>3, <2>1
<1>6. Delivered(new, events, store.records)
  BY <1>1, <1>5 DEF Delivered
<1>7. acked <= new["captain"].cursor
  <2>1. CASE s = "captain"
    BY <1>1, <1>2, <1>3, <2>1
  <2>2. CASE s # "captain"
    BY <1>1, <1>3, <2>2 DEF Journals
  <2> QED
    BY <2>1, <2>2
<1> QED
  BY <1>3, <1>4, <1>6, <1>7

LEMMA InitializeStep ==
  ASSUME SourcesInv, NEW i \in Reconcilers, NEW s \in Journals, InitializeSource(i, s), UNCHANGED <<journal, fleet, policy>>
  PROVE  SourcesInv'
<1> DEFINE r == reconciler[i]
           known == IF Unbound(r.known) THEN source'[s] ELSE r.known
           q == [r EXCEPT !.pc = ApplyStep(s), !.known = known]
<1>1. /\ Informed(r, source) /\ r \in ReconcilerRows /\ source \in [Journals -> SoundRows]
      /\ r.rows \in BoundedLines /\ r.known \in SoundRows
  BY DEF SourcesInv, Informed, ReconcilerRows
<1>2. r.pc = BindStep(s) /\ UNCHANGED <<acked, fleetRow, events, store>>
  BY DEF InitializeSource
<1>3. GoesWith(i, q)
  BY <1>1 DEF InitializeSource, ReconcilerRows
<1>4. Begins(r.known, source[s])
  BY <1>1, <1>2 DEF Informed, BindStep, Journals, BranchKnown, CaptainKnown
<1> HIDE DEF r
<1>5. /\ source' \in [Journals -> SoundRows] /\ \A j \in Journals : Begins(source[j], source'[j])
      /\ Delivered(source', events, store.records) /\ acked <= source'["captain"].cursor
  <2>1. CASE UNCHANGED source
    BY <1>1, <2>1, SameRow DEF SourcesInv
  <2>2. CASE \E cursor \in BootstrapCursors(Len(r.rows)) :
               source' = [source EXCEPT ![s] =
                 IF Unbound(@)
                 THEN [state |-> "available", cursor |-> cursor, accepted |-> 0,
                       prefix |-> SubSeq(r.rows, 1, cursor), tail |-> Len(r.rows)]
                 ELSE @]
    <3>1. PICK cursor \in BootstrapCursors(Len(r.rows)) :
               source' = [source EXCEPT ![s] =
                 IF Unbound(@)
                 THEN [state |-> "available", cursor |-> cursor, accepted |-> 0,
                       prefix |-> SubSeq(r.rows, 1, cursor), tail |-> Len(r.rows)]
                 ELSE @]
      BY <2>2
    <3>2. CASE ~Unbound(source[s])
      <4>1. source' = source
        BY <1>1, <3>1, <3>2
      <4> QED
        BY <1>1, <4>1, SameRow DEF SourcesInv
    <3>3. CASE Unbound(source[s])
      <4> DEFINE row == [state |-> "available", cursor |-> cursor, accepted |-> 0,
                         prefix |-> SubSeq(r.rows, 1, cursor), tail |-> Len(r.rows)]
      <4>1. source' = [source EXCEPT ![s] = row]
        BY <1>1, <3>1, <3>3
      <4>2. Len(r.rows) \in Nat
        BY <1>1 DEF BoundedLines
      <4>3. cursor \in 0 .. Len(r.rows)
        BY <4>2 DEF BootstrapCursors, SourcesInv
      <4>4. SubSeq(r.rows, 1, cursor) \in BoundedLines /\ Len(SubSeq(r.rows, 1, cursor)) = cursor
        BY <1>1, <4>3, FirstLines
      <4>5. row \in SoundRows
        BY <4>2, <4>3, <4>4 DEF SoundRows, SourceRows
      <4> HIDE DEF row
      <4> QED
        BY <3>3, <4>1, <4>5, SourceBound
    <3> QED
      BY <3>2, <3>3
  <2> QED
    BY <2>1, <2>2 DEF InitializeSource, r
<1>6. known \in SoundRows /\ Begins(known, source'[s])
  <2>1. CASE Unbound(r.known)
    BY <1>5, <2>1, SameRow
  <2>2. CASE ~Unbound(r.known)
    <3>1. Begins(r.known, source'[s])
      BY <1>1, <1>4, <1>5, BeginsStill
    <3> QED
      BY <1>1, <2>2, <3>1
  <2> QED
    BY <2>1, <2>2
<1> HIDE DEF known
<1>7. q \in ReconcilerRows /\ q.pc = ApplyStep(s) /\ q.known = known
  BY <1>1, <1>6 DEF ReconcilerRows, ApplyStep, BranchKnown, CaptainKnown
<1> HIDE DEF q
<1>8. Informed(q, source')
  BY <1>6, <1>7 DEF Informed, ApplyStep, Journals, BranchKnown, CaptainKnown
<1>9. DOMAIN reconciler' = Reconcilers /\ \A j \in Reconcilers : Informed(reconciler'[j], source')
  <2> DEFINE new == source'
  <2>1. new \in [Journals -> SoundRows] /\ (\A j \in Journals : Begins(source[j], new[j])) /\ Informed(q, new)
    BY <1>5, <1>8
  <2> HIDE DEF new
  <2>2. DOMAIN reconciler' = Reconcilers /\ \A j \in Reconcilers : Informed(reconciler'[j], new)
    BY <1>3, <2>1, ReconcilersStill
  <2> QED
    BY <2>2 DEF new
<1> QED
  BY <1>2, <1>5, <1>9 DEF SourcesInv, FleetIsNewest

(* A batch is accepted.                                                    *)
LEMMA ApplyStepKeeps ==
  ASSUME SourcesInv, NEW i \in Reconcilers, NEW s \in Journals, ApplyBatch(i, s), UNCHANGED <<journal, fleet, policy>>
  PROVE  SourcesInv' /\ Grows(store, store')
<1> DEFINE r == reconciler[i]
           rows == r.rows
           l == Len(rows)
           c == source[s].cursor
           fresh == {n \in r.known.cursor + 1 .. l : \A e \in events : <<e[1], e[2]>> # <<s, n>>}
           told == {n \in fresh : rows[n] # "silent"}
           row == [state |-> "available", cursor |-> l, prefix |-> rows, tail |-> l,
                   accepted |-> source[s].accepted + Cardinality(fresh)]
<1>1. /\ Informed(r, source) /\ r \in ReconcilerRows /\ source \in [Journals -> SoundRows] /\ rows \in BoundedLines
      /\ r.known \in SoundRows /\ store \in Stores /\ Delivered(source, events, store.records)
  BY DEF SourcesInv, Informed, ReconcilerRows
<1>2. /\ r.pc = ApplyStep(s) /\ SamePrefix(r.known, rows) /\ r.known.cursor = c
      /\ UNCHANGED <<acked, fleetRow>>
  BY DEF ApplyBatch, CursorUnmoved
<1>3. Begins(r.known, source[s])
  BY <1>1, <1>2 DEF Informed, ApplyStep, Journals, BranchKnown, CaptainKnown
<1>4. rows \in Seq(LineTexts) /\ l \in Nat /\ l <= MaxLines /\ c \in Nat /\ c <= l
  BY <1>1, <1>2 DEF BoundedLines, SoundRows, SourceRows, SamePrefix
<1>5. \A n \in 1 .. c : rows[n] = source[s].prefix[n]
  <2>1. ASSUME NEW n \in 1 .. c PROVE rows[n] = source[s].prefix[n]
    <3>1. c > 0 /\ c \in 0 .. l
      BY <1>4
    <3>2. r.known.prefix = SubSeq(rows, 1, c)
      BY <1>2, <3>1 DEF SamePrefix
    <3>3. r.known.prefix[n] = rows[n]
      BY <1>1, <3>1, <3>2, FirstLines
    <3> QED
      BY <1>2, <1>3, <3>3 DEF Begins
  <2> QED
    BY <2>1
<1>6. fresh = c + 1 .. l
  BY <1>1, <1>2, <1>4, FreshLines
<1>7. /\ events' = events \cup {<<s, n, rows[n]>> : n \in fresh}
      /\ store' = Projected(store, [n \in 1 .. l |-> RecordOf(s, n, IF n \in told THEN rows[n] ELSE "silent")])
      /\ source' = [source EXCEPT ![s] = row]
      /\ IF s = "branch" THEN Goes(i, "captain") ELSE GoesWith(i, [r EXCEPT !.pc = "ack"])
  BY <1>1 DEF ApplyBatch
<1>8. told = {n \in c + 1 .. l : rows[n] # "silent"}
  BY <1>6
<1>9. row \in SoundRows /\ row.cursor = l /\ row.prefix = rows
  <2>1. IsFiniteSet(fresh)
    <3>1. c + 1 \in Int /\ l \in Int
      BY <1>4
    <3> HIDE DEF fresh, l, c
    <3> QED
      BY <1>6, <3>1, FS_Interval
  <2>2. Cardinality(fresh) \in Nat
    BY <2>1, FS_CardinalityType
  <2>3. source[s].accepted \in Nat
    BY <1>1 DEF SoundRows, SourceRows
  <2> HIDE DEF fresh
  <2> QED
    BY <1>1, <1>4, <2>2, <2>3 DEF SoundRows, SourceRows
<1> HIDE DEF row, told, fresh
<1>10. source' \in [Journals -> SoundRows] /\ source'[s] = row /\ \A j \in Journals \ {s} : source'[j] = source[j]
  BY <1>1, <1>7, <1>9
<1>11. /\ Grows(store, store') /\ \A k \in FleetKeys : store'.records[k] = store.records[k]
       /\ Delivered(source', events', store'.records)
  <2> DEFINE new == source'
             to == store'
             evs == events'
  <2>1. /\ new \in [Journals -> SoundRows] /\ new[s].cursor = l /\ new[s].prefix = rows
        /\ \A j \in Journals \ {s} : new[j] = source[j]
    BY <1>9, <1>10
  <2>2. /\ to = AfterBatch(store, s, rows, ToldLines(rows, source[s].cursor))
        /\ evs = events \cup EventsFrom(s, rows, source[s].cursor)
    BY <1>6, <1>7, <1>8 DEF AfterBatch, ToldLines, EventsFrom
  <2> HIDE DEF new, rows, to, evs
  <2>3. Continues(source, s, rows, new)
    BY <1>1, <1>4, <1>5, <2>1 DEF Continues
  <2>4. store \in Stores /\ Delivered(source, events, store.records)
    BY <1>1
  <2>5. Grows(store, to) /\ (\A k \in FleetKeys : to.records[k] = store.records[k]) /\ Delivered(new, evs, to.records)
    <3>1. Grows(store, AfterBatch(store, s, rows, ToldLines(rows, source[s].cursor)))
      BY ONLY <2>3, <2>4, BatchDelivered
    <3>2. SameFleet(store, AfterBatch(store, s, rows, ToldLines(rows, source[s].cursor)))
      BY ONLY <2>3, <2>4, BatchDelivered
    <3>3. Delivered(new, events \cup EventsFrom(s, rows, source[s].cursor),
                    AfterBatch(store, s, rows, ToldLines(rows, source[s].cursor)).records)
      BY ONLY <2>3, <2>4, BatchDelivered
    <3> QED
      BY <2>2, <3>1, <3>2, <3>3 DEF SameFleet
  <2> QED
    BY <2>5 DEF new, to, evs
<1>12. \A j \in Journals : Begins(source[j], source'[j])
  <2>1. Begins(source[s], source'[s])
    BY <1>4, <1>5, <1>9, <1>10 DEF Begins
  <2> QED
    BY <1>1, <1>10, <2>1, SameRow
<1>13. \E q : GoesWith(i, q) /\ Informed(q, source')
  <2>1. CASE s = "branch"
    BY <1>7, <2>1, RestInformed DEF Goes
  <2>2. CASE s # "branch"
    <3> DEFINE q == [r EXCEPT !.pc = "ack"]
    <3>1. q \in ReconcilerRows /\ q.pc = "ack" /\ q.rows = rows
      BY <1>1 DEF ReconcilerRows
    <3>2. Len(q.rows) <= source'["captain"].cursor
      BY <1>4, <1>9, <1>10, <2>2, <3>1 DEF Journals
    <3>3. GoesWith(i, q)
      BY <1>7, <2>2
    <3> HIDE DEF q
    <3>4. Informed(q, source')
      BY <3>1, <3>2 DEF Informed, BranchKnown, CaptainKnown
    <3> QED
      BY <3>3, <3>4
  <2> QED
    BY <2>1, <2>2
<1>14. DOMAIN reconciler' = Reconcilers /\ \A j \in Reconcilers : Informed(reconciler'[j], source')
  <2> DEFINE new == source'
  <2>1. PICK q : GoesWith(i, q) /\ Informed(q, new)
    BY <1>13
  <2>2. new \in [Journals -> SoundRows] /\ (\A j \in Journals : Begins(source[j], new[j]))
    BY <1>10, <1>12
  <2> HIDE DEF new
  <2>3. DOMAIN reconciler' = Reconcilers /\ \A j \in Reconcilers : Informed(reconciler'[j], new)
    BY <2>1, <2>2, ReconcilersStill
  <2> QED
    BY <2>3 DEF new
<1>15. FleetIsNewest'
  <2>1. Decision \in FleetKeys /\ Objective \in FleetKeys /\ FleetIsNewest
    BY DEF SourcesInv, Decision, Objective, FleetKeys
  <2> QED
    BY <1>2, <1>11, <2>1 DEF FleetIsNewest
<1>16. acked' \in Nat /\ acked' <= source'["captain"].cursor
  <2>1. "captain" \in Journals /\ source["captain"].cursor <= source'["captain"].cursor
    BY <1>12 DEF Journals, Begins
  <2>2. source["captain"].cursor \in Nat /\ source'["captain"].cursor \in Nat
    BY <1>1, <1>10, <2>1 DEF SoundRows, SourceRows
  <2> QED
    BY <1>2, <2>1, <2>2 DEF SourcesInv
<1>17. store' \in Stores
  BY <1>11 DEF Grows
<1>18. SourcesInv'
  BY <1>2, <1>10, <1>11, <1>14, <1>15, <1>16, <1>17 DEF SourcesInv
<1> QED
  BY <1>11, <1>18

LEMMA AcknowledgeStep ==
  ASSUME SourcesInv, NEW i \in Reconcilers, Acknowledge(i), UNCHANGED <<journal, fleet, policy>>
  PROVE  SourcesInv'
<1> DEFINE r == reconciler[i]
<1>1. /\ Informed(r, source) /\ r \in ReconcilerRows /\ UNCHANGED <<source, fleetRow, events, store>>
      /\ r.known.cursor \in Nat /\ Len(r.rows) \in Nat
  BY DEF SourcesInv, Informed, ReconcilerRows, SoundRows, SourceRows, BoundedLines, Acknowledge
<1>2. /\ acked' \in Nat /\ acked' <= source["captain"].cursor
      /\ GoesWith(i, Resting) \/ UNCHANGED reconciler
  <2>1. CASE r.pc = "ack" /\ acked' = Len(r.rows) /\ GoesWith(i, Resting)
    BY <1>1, <2>1 DEF Informed
  <2>2. CASE r.pc = "captain-bind" /\ acked' = r.known.cursor /\ UNCHANGED reconciler
    BY <1>1, <2>2 DEF Informed, CaptainKnown, Begins
  <2> QED
    BY <2>1, <2>2 DEF Acknowledge
<1>3. source \in [Journals -> SoundRows] /\ \A s \in Journals : Begins(source[s], source[s])
  BY SameRow DEF SourcesInv
<1>4. DOMAIN reconciler' = Reconcilers /\ \A j \in Reconcilers : Informed(reconciler'[j], source)
  <2>1. CASE GoesWith(i, Resting)
    BY <1>3, <2>1, RestInformed, ReconcilersStill
  <2>2. CASE UNCHANGED reconciler
    BY <2>2 DEF SourcesInv
  <2> QED
    BY <1>2, <2>1, <2>2
<1> QED
  BY <1>1, <1>2, <1>4 DEF SourcesInv, FleetIsNewest

(* A fault only marks the row.                                             *)
LEMMA FaultStep ==
  ASSUME SourcesInv, NEW i \in Reconcilers, SourceFault(i), UNCHANGED <<journal, fleet, policy>>
  PROVE  SourcesInv'
<1>1. source \in [Journals -> SoundRows] /\ UNCHANGED <<acked, fleetRow, events, store>>
  BY DEF SourcesInv, SourceFault
<1>2. /\ UNCHANGED source \/ \E s \in Journals : Faulted(s)
      /\ \E q : GoesWith(i, q) /\ \A src : Informed(q, src)
  BY RestInformed DEF SourceFault, FleetFault, BranchFault, CaptainFault, Goes, Journals
<1>3. /\ source' \in [Journals -> SoundRows]
      /\ \A j \in Journals : source'[j].cursor = source[j].cursor /\ source'[j].prefix = source[j].prefix
  <2>1. CASE UNCHANGED source
    BY <1>1, <2>1
  <2>2. ASSUME NEW s \in Journals, Faulted(s) PROVE <1>3!1 /\ <1>3!2
    <3> DEFINE row == [source[s] EXCEPT !.state = "fault"]
    <3>1. source' = [source EXCEPT ![s] = row]
      BY <1>1, <2>2 DEF Faulted
    <3>2. row \in SoundRows /\ row.cursor = source[s].cursor /\ row.prefix = source[s].prefix
      BY <1>1 DEF SoundRows, SourceRows
    <3> HIDE DEF row
    <3> QED
      BY <1>1, <3>1, <3>2
  <2> QED
    BY <1>2, <2>1, <2>2
<1>4. \A j \in Journals : Begins(source[j], source'[j])
  BY <1>1, <1>3, SameRow DEF Begins
<1>5. DOMAIN reconciler' = Reconcilers /\ \A j \in Reconcilers : Informed(reconciler'[j], source')
  <2> DEFINE new == source'
  <2>1. PICK q : GoesWith(i, q) /\ Informed(q, new)
    BY <1>2
  <2>2. new \in [Journals -> SoundRows] /\ (\A j \in Journals : Begins(source[j], new[j]))
    BY <1>3, <1>4
  <2> HIDE DEF new
  <2>3. DOMAIN reconciler' = Reconcilers /\ \A j \in Reconcilers : Informed(reconciler'[j], new)
    BY <2>1, <2>2, ReconcilersStill
  <2> QED
    BY <2>3 DEF new
<1>6. Delivered(source', events, store.records)
  <2>1. \A e \in events : e[1] \in Journals
    BY DEF SourcesInv, Delivered
  <2> QED
    BY <1>3, <2>1 DEF SourcesInv, Delivered
<1>7. acked <= source'["captain"].cursor
  BY <1>3 DEF SourcesInv, Journals
<1> QED
  BY <1>1, <1>3, <1>5, <1>6, <1>7 DEF SourcesInv, FleetIsNewest
-----------------------------------------------------------------------------
LEMMA FirstmateKeeps ==
  ASSUME SourcesInv, FirstmateMoves PROVE SourcesInv' /\ UNCHANGED <<store, clientVars>>
<1>1. UNCHANGED <<acked, policy, source, fleetRow, events, store, reconciler, clientVars>>
  BY DEF FirstmateMoves
<1>2. journal' \in [Journals -> BoundedLines] /\ fleet' \in Fleets
  <2>1. journal \in [Journals -> BoundedLines] /\ fleet \in Fleets /\ MaxLines \in Nat
    BY ActivityConstants DEF SourcesInv
  <2>2. ASSUME NEW s \in Journals
        PROVE  journal[s] \in Seq(LineTexts) /\ Len(journal[s]) \in Nat /\ Len(journal[s]) <= MaxLines
    BY <2>1 DEF BoundedLines
  <2>3. \A s \in Journals : Lines(s) \subseteq LineTexts
    BY DEF Lines, LineTexts
  <2>4. ASSUME NEW s \in Journals, NEW line \in Lines(s), AppendLine(s, line) PROVE <1>2
    <3>1. Append(journal[s], line) \in BoundedLines
      <4>1. line \in LineTexts /\ Len(journal[s]) < MaxLines
        BY <2>3, <2>4 DEF AppendLine
      <4>2. Append(journal[s], line) \in Seq(LineTexts) /\ Len(Append(journal[s], line)) = Len(journal[s]) + 1
        BY <2>2, <4>1
      <4> QED
        BY <2>1, <2>2, <4>1, <4>2 DEF BoundedLines
    <3> QED
      BY <2>1, <2>4, <3>1 DEF AppendLine
  <2>5. ASSUME NEW s \in Journals, RewriteJournal(s) PROVE <1>2
    <3>1. UNCHANGED fleet /\ journal[s] # << >>
      BY <2>5 DEF RewriteJournal
    <3>2. CASE journal' = [journal EXCEPT ![s] = Front(@)]
      <4>1. Len(journal[s]) - 1 \in 0 .. Len(journal[s])
        BY <2>2, <3>1
      <4>2. Front(journal[s]) \in BoundedLines
        BY <2>1, <4>1, FirstLines DEF Front
      <4> QED
        BY <2>1, <3>1, <3>2, <4>2
    <3>3. ASSUME NEW n \in 1 .. Len(journal[s]), NEW line \in Lines(s), journal' = [journal EXCEPT ![s][n] = line]
          PROVE  <1>2
      <4> DEFINE rows == [journal[s] EXCEPT ![n] = line]
      <4>1. rows \in BoundedLines
        BY <2>2, <2>3 DEF BoundedLines
      <4>2. journal' = [journal EXCEPT ![s] = rows]
        BY <2>1, <3>3
      <4> HIDE DEF rows
      <4> QED
        BY <2>1, <3>1, <4>1, <4>2
    <3> QED
      BY <2>5, <3>2, <3>3 DEF RewriteJournal
  <2>6. ASSUME NEW at \in 0 .. MaxObserved, NEW task \in {"absent", "active", "completed"},
               NEW open \in BOOLEAN, FleetMoves(at, task, open)
        PROVE  <1>2
    <3>1. at \in Nat
      BY ActivityConstants
    <3> QED
      BY <2>1, <2>6, <3>1 DEF FleetMoves, Fleets
  <2> QED
    BY <2>4, <2>5, <2>6 DEF FirstmateMoves
<1> QED
  BY <1>1, <1>2 DEF SourcesInv, FleetIsNewest

LEMMA ReconcileKeeps ==
  ASSUME SourcesInv, NEW i \in Reconcilers, Reconcile(i)
  PROVE  SourcesInv' /\ UNCHANGED clientVars /\ (UNCHANGED store \/ Grows(store, store'))
<1>1. UNCHANGED <<journal, fleet, policy>> /\ UNCHANGED clientVars
  BY DEF Reconcile, firstmateVars
<1>2. CASE ReadFleet(i) \/ ReadBranchRows(i) \/ ReadCaptainRows(i) \/ ReadSource(i) \/ ReconcilerStops(i)
  <2>1. UNCHANGED store
    BY <1>2 DEF ReadFleet, ReadBranchRows, ReadCaptainRows, ReadSource, ReconcilerStops
  <2> QED
    BY <1>1, <1>2, <2>1, Reading
<1>3. CASE ReconcileSnapshot(i)
  BY <1>1, <1>3, SnapshotStep
<1>4. ASSUME NEW s \in Journals, InitializeSource(i, s) PROVE SourcesInv' /\ UNCHANGED store
  BY <1>1, <1>4, InitializeStep DEF InitializeSource
<1>5. ASSUME NEW s \in Journals, ApplyBatch(i, s) PROVE SourcesInv' /\ Grows(store, store')
  BY <1>1, <1>5, ApplyStepKeeps
<1>6. CASE Acknowledge(i)
  BY <1>1, <1>6, AcknowledgeStep DEF Acknowledge
<1>7. CASE SourceFault(i)
  BY <1>1, <1>7, FaultStep DEF SourceFault
<1> QED
  BY <1>1, <1>2, <1>3, <1>4, <1>5, <1>6, <1>7 DEF Reconcile

LEMMA SourcesStep == SourcesInv /\ [ActivityNext]_activityVars => SourcesInv'
<1> SUFFICES ASSUME SourcesInv, [ActivityNext]_activityVars PROVE SourcesInv'
  OBVIOUS
<1>1. CASE UNCHANGED activityVars
  BY <1>1 DEF activityVars, SourcesInv, FleetIsNewest
<1>2. CASE ClientMoves
  BY <1>2 DEF ClientMoves, firstmateVars, SourcesInv, FleetIsNewest
<1> QED
  BY <1>1, <1>2, FirstmateKeeps, ReconcileKeeps DEF ActivityNext

(* Whichever process wins a race, the sources, the events accepted from    *)
(* them and the records are in step (activity_store.py).                   *)
THEOREM SourcesInvariance == ActivitySpec => []SourcesInv
<1> QED
  BY SourcesStart, SourcesStep, PTL DEF ActivitySpec

(* Journals are delivered once and in full, Firstmate is told only of what *)
(* is stored, and the fleet's records are those of the newest observation. *)
THEOREM SourcesAreProjected == ActivitySpec => []ProjectionMatchesSources
<1>1. SourcesInv => ProjectionMatchesSources
  BY DEF SourcesInv, Delivered, ProjectionMatchesSources, JournalsAreDeliveredOnce
<1> QED
  BY <1>1, SourcesInvariance, PTL
-----------------------------------------------------------------------------
(* What the client knows of a record: its revision, or that the ledger     *)
(* behind the cursor tells of a later one.                                 *)
OpenKeys(st) == {k \in Known(st) : IsFocus(k, st.records[k])}
InView(rev, k, cursor, st) == rev = st.records[k].rev \/ ToldBehind(st, k, cursor)

(* An answer of the gateway, read from an earlier store.                   *)
Page(p, st) ==
  /\ p.cursor \in Nat /\ p.cursor <= Len(st.changes)
  /\ \A x \in p.rows : /\ x.key \in Keys /\ x.rec \in ActivityRecords
                       /\ x.rec.rev <= st.records[x.key].rev /\ InView(x.rec.rev, x.key, p.cursor, st)
  /\ p.kind = "replay" =>
       \E after \in Nat :
         /\ \A x \in p.rows : x.n \in after + 1 .. p.cursor
         /\ \A n \in after + 1 .. p.cursor : \E x \in p.rows : x.n = n /\ x.key = st.changes[n].key
  /\ p.kind # "replay" =>
       \A k \in OpenKeys(st) : (\E x \in p.rows : x.key = k) \/ ToldBehind(st, k, p.cursor)

(* What the client holds is nowhere ahead of the store.                    *)
Screens == [cursor : Nat, seen : [Keys -> ActivityRecords], baseline : BOOLEAN]
Current(c, st) ==
  /\ c \in Screens /\ c.cursor <= Len(st.changes)
  /\ \A k \in Keys : c.seen[k].rev <= st.records[k].rev
  /\ \A k \in OpenKeys(st) : InView(c.seen[k].rev, k, c.cursor, st)

DeliveryInv == Current(client, store) /\ \A p \in responses : Page(p, store)

LEMMA MaxOfTwo ==
  ASSUME NEW a \in Nat, NEW b \in Nat
  PROVE  Max({a, b}) \in {a, b} /\ Max({a, b}) >= a /\ Max({a, b}) >= b
<1> DEFINE Greatest(x) == \A y \in {a, b} : x >= y
<1>1. Max({a, b}) = CHOOSE x \in {a, b} : Greatest(x)
  BY DEF Max
<1>2. \E x \in {a, b} : Greatest(x)
  <2>1. Greatest(a) \/ Greatest(b)
    OBVIOUS
  <2> HIDE DEF Greatest
  <2> QED
    BY <2>1
<1>3. Max({a, b}) \in {a, b} /\ Greatest(Max({a, b}))
  <2> HIDE DEF Greatest
  <2> QED
    BY <1>1, <1>2
<1> QED
  BY <1>3

LEMMA MinOfTwo ==
  ASSUME NEW a \in Nat, NEW b \in Nat
  PROVE  Min({a, b}) \in {a, b} /\ Min({a, b}) <= a /\ Min({a, b}) <= b
<1> DEFINE Least(x) == \A y \in {a, b} : x <= y
<1>1. Min({a, b}) = CHOOSE x \in {a, b} : Least(x)
  BY DEF Min
<1>2. \E x \in {a, b} : Least(x)
  <2>1. Least(a) \/ Least(b)
    OBVIOUS
  <2> HIDE DEF Least
  <2> QED
    BY <2>1
<1>3. Min({a, b}) \in {a, b} /\ Least(Min({a, b}))
  <2> HIDE DEF Least
  <2> QED
    BY <1>1, <1>2
<1> QED
  BY <1>3

(* The store grows: what was shown stays shown or is told of.              *)
LEMMA ToldStill ==
  ASSUME NEW st \in Stores, NEW to, Grows(st, to), NEW k \in Keys, NEW c \in Nat
  PROVE  /\ ToldBehind(st, k, c) => ToldBehind(to, k, c)
         /\ c <= Len(st.changes) /\ to.records[k] # st.records[k] => ToldBehind(to, k, c)
<1>1. /\ Len(st.changes) \in Nat /\ Len(to.changes) \in Nat /\ Len(st.changes) <= Len(to.changes)
      /\ \A n \in 1 .. Len(st.changes) : to.changes[n] = st.changes[n]
  BY DEF Grows, Stores
<1>2. ASSUME ToldBehind(st, k, c) PROVE ToldBehind(to, k, c)
  <2>1. PICK n \in c + 1 .. Len(st.changes) : st.changes[n].key = k
    BY <1>2 DEF ToldBehind
  <2>2. n \in 1 .. Len(st.changes) /\ n \in c + 1 .. Len(to.changes)
    BY <1>1
  <2> QED
    BY <1>1, <2>1, <2>2 DEF ToldBehind
<1>3. ASSUME c <= Len(st.changes), to.records[k] # st.records[k] PROVE ToldBehind(to, k, c)
  <2>1. ToldBehind(to, k, Len(st.changes))
    BY <1>3 DEF Grows
  <2>2. PICK n \in Len(st.changes) + 1 .. Len(to.changes) : to.changes[n].key = k
    BY <2>1 DEF ToldBehind
  <2>3. n \in c + 1 .. Len(to.changes)
    BY <1>1, <1>3
  <2> QED
    BY <2>2, <2>3 DEF ToldBehind
<1> QED
  BY <1>2, <1>3

LEMMA ShownStill ==
  ASSUME NEW st \in Stores, NEW to, Grows(st, to), NEW k \in Keys, NEW c \in Nat, c <= Len(st.changes),
         NEW rev, InView(rev, k, c, st)
  PROVE  InView(rev, k, c, to)
<1>1. CASE to.records[k] = st.records[k]
  BY <1>1, ToldStill DEF InView
<1>2. CASE to.records[k] # st.records[k]
  BY <1>2, ToldStill DEF InView
<1> QED
  BY <1>1, <1>2

LEMMA OpenBefore ==
  ASSUME NEW st \in Stores, NEW to, Grows(st, to), NEW k \in OpenKeys(to), NEW c \in Nat, c <= Len(st.changes)
  PROVE  k \in Keys /\ (k \in OpenKeys(st) \/ ToldBehind(to, k, c))
<1>1. k \in Keys
  BY DEF OpenKeys, Known
<1>2. CASE to.records[k] = st.records[k]
  BY <1>1, <1>2 DEF OpenKeys, Known
<1>3. CASE to.records[k] # st.records[k]
  BY <1>1, <1>3, ToldStill
<1> QED
  BY <1>1, <1>2, <1>3

LEMMA RevisionsGrow ==
  ASSUME NEW st \in Stores, NEW to, Grows(st, to), NEW k \in Keys
  PROVE  st.records[k].rev \in Nat /\ to.records[k].rev \in Nat /\ st.records[k].rev <= to.records[k].rev
<1>1. st.records[k].rev \in Nat /\ to.records[k].rev \in Nat
  BY DEF Grows, Stores, ActivityRecords
<1> QED
  BY <1>1 DEF Grows

LEMMA CurrentStill ==
  ASSUME NEW st \in Stores, NEW to, Grows(st, to), NEW c, Current(c, st)
  PROVE  Current(c, to)
<1>1. c \in Screens /\ c.cursor \in Nat /\ c.seen \in [Keys -> ActivityRecords] /\ c.cursor <= Len(st.changes)
  BY DEF Current, Screens
<1>2. c.cursor <= Len(to.changes)
  <2>1. Len(st.changes) \in Nat /\ Len(to.changes) \in Nat /\ Len(st.changes) <= Len(to.changes)
    BY DEF Grows, Stores
  <2> QED
    BY <1>1, <2>1
<1>3. ASSUME NEW k \in Keys PROVE c.seen[k].rev <= to.records[k].rev
  <2>1. c.seen[k].rev \in Nat /\ c.seen[k].rev <= st.records[k].rev
    BY <1>1 DEF Current, ActivityRecords
  <2> QED
    BY <2>1, RevisionsGrow
<1>4. ASSUME NEW k \in OpenKeys(to) PROVE InView(c.seen[k].rev, k, c.cursor, to)
  <2>1. k \in Keys /\ (k \in OpenKeys(st) \/ ToldBehind(to, k, c.cursor))
    BY <1>1, OpenBefore
  <2>2. CASE k \in OpenKeys(st)
    <3>1. InView(c.seen[k].rev, k, c.cursor, st)
      BY <2>2 DEF Current
    <3> QED
      BY <1>1, <2>1, <3>1, ShownStill
  <2> QED
    BY <2>1, <2>2 DEF InView
<1> QED
  BY <1>1, <1>2, <1>3, <1>4 DEF Current

LEMMA PageStill ==
  ASSUME NEW st \in Stores, NEW to, Grows(st, to), NEW p, Page(p, st)
  PROVE  Page(p, to)
<1>1. p.cursor \in Nat /\ p.cursor <= Len(st.changes)
  BY DEF Page
<1>2. /\ Len(st.changes) \in Nat /\ Len(to.changes) \in Nat /\ Len(st.changes) <= Len(to.changes)
      /\ \A n \in 1 .. Len(st.changes) : to.changes[n] = st.changes[n]
  BY DEF Grows, Stores
<1>3. ASSUME NEW x \in p.rows
      PROVE  /\ x.key \in Keys /\ x.rec \in ActivityRecords
             /\ x.rec.rev <= to.records[x.key].rev /\ InView(x.rec.rev, x.key, p.cursor, to)
  <2>1. /\ x.key \in Keys /\ x.rec \in ActivityRecords
        /\ x.rec.rev <= st.records[x.key].rev /\ InView(x.rec.rev, x.key, p.cursor, st)
    BY DEF Page
  <2>2. x.rec.rev \in Nat
    BY <2>1 DEF ActivityRecords
  <2>3. x.rec.rev <= to.records[x.key].rev
    BY <2>1, <2>2, RevisionsGrow
  <2>4. InView(x.rec.rev, x.key, p.cursor, to)
    BY <1>1, <2>1, ShownStill
  <2> QED
    BY <2>1, <2>3, <2>4
<1>4. ASSUME p.kind = "replay"
      PROVE  \E after \in Nat :
               /\ \A x \in p.rows : x.n \in after + 1 .. p.cursor
               /\ \A n \in after + 1 .. p.cursor : \E x \in p.rows : x.n = n /\ x.key = to.changes[n].key
  <2>1. PICK after \in Nat :
               /\ \A x \in p.rows : x.n \in after + 1 .. p.cursor
               /\ \A n \in after + 1 .. p.cursor : \E x \in p.rows : x.n = n /\ x.key = st.changes[n].key
    BY <1>4 DEF Page
  <2>2. \A n \in after + 1 .. p.cursor : to.changes[n] = st.changes[n]
    BY <1>1, <1>2
  <2> QED
    BY <2>1, <2>2
<1>5. ASSUME p.kind # "replay", NEW k \in OpenKeys(to)
      PROVE  (\E x \in p.rows : x.key = k) \/ ToldBehind(to, k, p.cursor)
  <2>1. k \in Keys /\ (k \in OpenKeys(st) \/ ToldBehind(to, k, p.cursor))
    BY <1>1, OpenBefore
  <2>2. CASE k \in OpenKeys(st)
    <3>1. (\E x \in p.rows : x.key = k) \/ ToldBehind(st, k, p.cursor)
      BY <1>5, <2>2 DEF Page
    <3> QED
      BY <1>1, <2>1, <3>1, ToldStill
  <2> QED
    BY <2>1, <2>2
<1>6. p.cursor <= Len(to.changes)
  BY <1>1, <1>2
<1> QED
  BY <1>1, <1>3, <1>4, <1>5, <1>6 DEF Page
-----------------------------------------------------------------------------
(* The pages as they are read.                                             *)
LEMMA ReplayIsPage ==
  ASSUME store \in Stores, NEW after \in Nat, after < Len(store.changes)
  PROVE  Page(ReplayPage(after), store)
<1> DEFINE l == Len(store.changes)
           last == Min({after + PageSize, l})
           p == ReplayPage(after)
           rows == {Row(n, store.changes[n].key) : n \in after + 1 .. last}
<1>1. l \in Nat /\ after + PageSize \in Nat
  BY ActivityConstants DEF Stores
<1>2. last \in Nat /\ last <= l
  <2> HIDE DEF l
  <2> QED
    BY <1>1, MinOfTwo
<1>3. p.kind = "replay" /\ p.cursor = last /\ p.rows = rows
  BY DEF ReplayPage
<1> HIDE DEF last, p
<1>4. ASSUME NEW n \in after + 1 .. last
      PROVE  LET k == store.changes[n].key
             IN k \in Keys /\ store.records[k] \in ActivityRecords /\ store.records[k].rev \in Nat
  <2>1. n \in 1 .. l
    BY <1>1, <1>2
  <2>2. store.changes[n] \in LedgerEntries /\ store.records \in [Keys -> ActivityRecords]
    BY <2>1 DEF Stores
  <2> QED
    BY <2>2 DEF LedgerEntries, ActivityRecords
<1>5. ASSUME NEW x \in rows
      PROVE  /\ x.key \in Keys /\ x.rec \in ActivityRecords /\ x.rec.rev <= store.records[x.key].rev
             /\ InView(x.rec.rev, x.key, p.cursor, store) /\ x.n \in after + 1 .. last
  <2>1. PICK n \in after + 1 .. last : x = Row(n, store.changes[n].key)
    OBVIOUS
  <2>2. x.n = n /\ x.key = store.changes[n].key /\ x.rec = store.records[x.key]
    BY <2>1 DEF Row
  <2> QED
    BY <1>4, <2>2 DEF InView
<1>6. ASSUME NEW n \in after + 1 .. last PROVE \E x \in rows : x.n = n /\ x.key = store.changes[n].key
  <2> DEFINE x == Row(n, store.changes[n].key)
  <2>1. x \in rows
    OBVIOUS
  <2>2. x.n = n /\ x.key = store.changes[n].key
    BY DEF Row
  <2> HIDE DEF x, rows
  <2> QED
    BY <2>1, <2>2
<1> HIDE DEF rows
<1> QED
  BY <1>2, <1>3, <1>5, <1>6 DEF Page, p

LEMMA SnapshotIsPage ==
  ASSUME store \in Stores, NEW before, NEW kind \in {"newest", "older"}
  PROVE  Page(SnapshotPage(before, kind), store)
<1> DEFINE p == SnapshotPage(before, kind)
           shown == NewestBefore(before) \cup FocusKeys
           rows == {Row(Newest(k), k) : k \in shown}
<1>1. p.kind = kind /\ p.cursor = Len(store.changes) /\ p.rows = rows
  BY DEF SnapshotPage
<1>2. Len(store.changes) \in Nat
  BY DEF Stores
<1>3. shown \subseteq Keys /\ OpenKeys(store) \subseteq shown
  BY DEF NewestBefore, FocusKeys, Known, OpenKeys
<1> HIDE DEF p, shown
<1>4. ASSUME NEW x \in rows
      PROVE  /\ x.key \in Keys /\ x.rec \in ActivityRecords /\ x.rec.rev <= store.records[x.key].rev
             /\ InView(x.rec.rev, x.key, p.cursor, store)
  <2>1. PICK k \in shown : x = Row(Newest(k), k)
    OBVIOUS
  <2>2. x.key = k /\ x.rec = store.records[k] /\ k \in Keys
    BY <1>3, <2>1 DEF Row
  <2>3. store.records[k] \in ActivityRecords /\ store.records[k].rev \in Nat
    BY <2>2 DEF Stores, ActivityRecords
  <2> QED
    BY <2>2, <2>3 DEF InView
<1>5. ASSUME NEW k \in OpenKeys(store) PROVE \E x \in rows : x.key = k
  <2> DEFINE x == Row(Newest(k), k)
  <2>1. x \in rows
    BY <1>3
  <2>2. x.key = k
    BY DEF Row
  <2> HIDE DEF x, rows
  <2> QED
    BY <2>1, <2>2
<1> HIDE DEF rows
<1>6. p.kind # "replay"
  BY <1>1
<1> QED
  BY <1>1, <1>2, <1>4, <1>5, <1>6 DEF Page, p
-----------------------------------------------------------------------------
(* What a merge leaves of a key: the record held, if no row has a higher   *)
(* revision, or the record of one that has.                                *)
SoundPageRows(rows, cursor, st) ==
  \A x \in rows : /\ x.key \in Keys /\ x.rec \in ActivityRecords
                  /\ x.rec.rev <= st.records[x.key].rev /\ InView(x.rec.rev, x.key, cursor, st)

LEMMA MergedIs ==
  ASSUME NEW seen \in [Keys -> ActivityRecords], NEW rows, NEW k \in Keys, \A x \in rows : x.rec \in ActivityRecords
  PROVE  /\ Merged(seen, rows)[k] \in ActivityRecords
         /\ \/ Merged(seen, rows)[k] = seen[k] /\ \A x \in rows : x.key = k => x.rec.rev <= seen[k].rev
            \/ \E x \in rows : x.key = k /\ Merged(seen, rows)[k] = x.rec /\ x.rec.rev > seen[k].rev
<1> DEFINE higher == {x \in rows : x.key = k /\ x.rec.rev > seen[k].rev}
<1>1. Merged(seen, rows)[k] = IF higher = {} THEN seen[k] ELSE (CHOOSE x \in higher : TRUE).rec
  BY DEF Merged
<1>2. seen[k].rev \in Nat /\ \A x \in rows : x.rec.rev \in Nat
  BY DEF ActivityRecords
<1>3. CASE higher = {}
  <2>1. \A x \in rows : x.key = k => ~(x.rec.rev > seen[k].rev)
    BY <1>3
  <2>2. \A x \in rows : x.key = k => x.rec.rev <= seen[k].rev
    BY <1>2, <2>1
  <2> QED
    BY <1>1, <1>3, <2>2
<1>4. CASE higher # {}
  <2> DEFINE y == CHOOSE x \in higher : TRUE
  <2>1. y \in higher
    <3> HIDE DEF higher
    <3> QED
      BY <1>4
  <2>2. y \in rows /\ y.key = k /\ y.rec.rev > seen[k].rev
    BY <2>1
  <2>3. Merged(seen, rows)[k] = y.rec
    BY <1>1, <1>4
  <2> HIDE DEF y
  <2> QED
    BY <2>2, <2>3
<1> QED
  BY <1>3, <1>4

LEMMA MergedType ==
  ASSUME NEW seen \in [Keys -> ActivityRecords], NEW rows, NEW cursor,
         NEW st \in Stores, SoundPageRows(rows, cursor, st),
         \A k \in Keys : seen[k].rev <= st.records[k].rev
  PROVE  /\ Merged(seen, rows) \in [Keys -> ActivityRecords]
         /\ \A k \in Keys : Merged(seen, rows)[k].rev <= st.records[k].rev
<1>1. \A x \in rows : x.rec \in ActivityRecords
  BY DEF SoundPageRows
<1>2. DOMAIN Merged(seen, rows) = Keys /\ Merged(seen, rows) = [k \in Keys |-> Merged(seen, rows)[k]]
  BY DEF Merged
<1> DEFINE m == Merged(seen, rows)
<1> HIDE DEF m
<1>3. ASSUME NEW k \in Keys PROVE m[k] \in ActivityRecords /\ m[k].rev <= st.records[k].rev
  <2>1. /\ m[k] \in ActivityRecords
        /\ \/ m[k] = seen[k]
           \/ \E x \in rows : x.key = k /\ m[k] = x.rec
    BY <1>1, MergedIs DEF m
  <2> QED
    BY <2>1 DEF SoundPageRows
<1>4. m = [k \in Keys |-> m[k]]
  BY <1>2 DEF m
<1>5. m \in [Keys -> ActivityRecords]
  BY <1>3, <1>4
<1> QED
  BY <1>3, <1>5 DEF m

(* A key that was shown up to c is shown up to new after a merge, if the   *)
(* rows have every entry of it in between.                                 *)
LEMMA MergeShows ==
  ASSUME NEW seen \in [Keys -> ActivityRecords], NEW rows, NEW m \in Nat,
         NEW st \in Stores, SoundPageRows(rows, m, st),
         NEW c \in Nat, NEW new \in Nat, NEW k \in Keys,
         seen[k].rev <= st.records[k].rev, InView(seen[k].rev, k, c, st),
         \A n \in c + 1 .. Len(st.changes) :
            n <= new /\ st.changes[n].key = k => new = m /\ \E x \in rows : x.key = k
  PROVE  InView(Merged(seen, rows)[k].rev, k, new, st)
<1> DEFINE g == Merged(seen, rows)[k]
<1>1. \A x \in rows : x.rec \in ActivityRecords
  BY DEF SoundPageRows
<1>2. /\ g \in ActivityRecords
      /\ \/ g = seen[k] /\ \A x \in rows : x.key = k => x.rec.rev <= seen[k].rev
         \/ \E x \in rows : x.key = k /\ g = x.rec /\ x.rec.rev > seen[k].rev
  BY <1>1, MergedIs
<1> HIDE DEF g
<1>3. seen[k].rev \in Nat /\ st.records[k].rev \in Nat /\ g.rev \in Nat /\ Len(st.changes) \in Nat
  BY <1>2 DEF Stores, ActivityRecords
<1>4. \A x \in rows : x.key = k => /\ x.rec.rev \in Nat /\ x.rec.rev <= st.records[k].rev
                                   /\ InView(x.rec.rev, k, m, st)
  BY <1>1 DEF SoundPageRows, ActivityRecords
<1>5. CASE seen[k].rev = st.records[k].rev
  <2>1. g.rev = st.records[k].rev
    BY <1>2, <1>3, <1>4, <1>5
  <2> QED
    BY <2>1 DEF InView, g
<1>6. CASE ToldBehind(st, k, c)
  <2>1. PICK n \in c + 1 .. Len(st.changes) : st.changes[n].key = k
    BY <1>6 DEF ToldBehind
  <2>2. n \in Nat
    BY <1>3
  <2>3. CASE n > new
    <3>1. n \in new + 1 .. Len(st.changes)
      BY <1>3, <2>2, <2>3
    <3> QED
      BY <2>1, <3>1 DEF ToldBehind, InView
  <2>4. CASE n <= new
    <3>1. new = m /\ \E x \in rows : x.key = k
      BY <2>1, <2>4
    <3>2. InView(g.rev, k, m, st)
      <4>1. CASE \E x \in rows : x.key = k /\ g = x.rec
        BY <1>4, <4>1
      <4>2. CASE g = seen[k] /\ \A x \in rows : x.key = k => x.rec.rev <= seen[k].rev
        <5>1. PICK x \in rows : x.key = k
          BY <3>1
        <5>2. x.rec.rev <= g.rev /\ g.rev <= st.records[k].rev /\ x.rec.rev \in Nat /\ InView(x.rec.rev, k, m, st)
          BY <1>4, <4>2, <5>1
        <5>3. CASE x.rec.rev = st.records[k].rev
          <6>1. g.rev = st.records[k].rev
            BY <1>3, <5>2, <5>3
          <6> QED
            BY <6>1 DEF InView
        <5>4. CASE ToldBehind(st, k, m)
          BY <5>4 DEF InView
        <5> QED
          BY <5>2, <5>3, <5>4 DEF InView
      <4> QED
        BY <1>2, <4>1, <4>2
    <3> QED
      BY <3>1, <3>2 DEF g
  <2> QED
    BY <1>3, <2>2, <2>3, <2>4
<1> QED
  BY <1>5, <1>6 DEF InView
-----------------------------------------------------------------------------
LEMMA ReplayMerged ==
  ASSUME store \in Stores, Current(client, store), NEW p, Page(p, store), MergeReplay(p)
  PROVE  Current(client', store)
<1> DEFINE c == client.cursor
           seen == client.seen
           m == p.cursor
           new == Max({c, m})
           rows == {r \in p.rows : r.n > c \/ Held(r.key)}
           g == Merged(seen, rows)
<1>1. /\ client \in Screens /\ c \in Nat /\ seen \in [Keys -> ActivityRecords] /\ c <= Len(store.changes)
      /\ \A k \in Keys : seen[k].rev <= store.records[k].rev
  BY DEF Current, Screens
<1>2. m \in Nat /\ m <= Len(store.changes) /\ SoundPageRows(rows, m, store)
  BY DEF Page, SoundPageRows
<1>3. new \in {c, m} /\ new >= c /\ new >= m
  <2> HIDE DEF c, m
  <2> QED
    BY <1>1, <1>2, MaxOfTwo
<1>4. client' = [client EXCEPT !.cursor = new, !.seen = g]
  BY DEF MergeReplay
<1> HIDE DEF new
<1>5. g \in [Keys -> ActivityRecords] /\ \A k \in Keys : g[k].rev <= store.records[k].rev
  <2> HIDE DEF rows, c, seen, m
  <2> QED
    BY <1>1, <1>2, MergedType
<1>6. ASSUME NEW k \in OpenKeys(store) PROVE InView(g[k].rev, k, new, store)
  <2>1. k \in Keys /\ InView(seen[k].rev, k, c, store) /\ new \in Nat /\ Len(store.changes) \in Nat
    BY <1>1, <1>2, <1>3 DEF Current, OpenKeys, Known, Stores
  <2>2. ASSUME NEW n \in c + 1 .. Len(store.changes), n <= new, store.changes[n].key = k
        PROVE  new = m /\ \E x \in rows : x.key = k
    <3>1. c < m /\ new = m /\ n \in Nat /\ n > c /\ n <= m
      BY <1>1, <1>2, <1>3, <2>1, <2>2
    <3>2. PICK after \in Nat :
            /\ \A x \in p.rows : x.n \in after + 1 .. m
            /\ \A j \in after + 1 .. m : \E x \in p.rows : x.n = j /\ x.key = store.changes[j].key
      BY DEF MergeReplay, Page
    <3>3. c + 1 \in {r.n : r \in {r \in p.rows : r.n > c}}
      BY <1>1, <1>2, <3>1 DEF MergeReplay, Fits
    <3>4. c + 1 \in after + 1 .. m
      BY <3>2, <3>3
    <3>5. n \in after + 1 .. m
      BY <1>1, <1>2, <3>1, <3>4
    <3>6. PICK x \in p.rows : x.n = n /\ x.key = k
      BY <2>2, <3>2, <3>5
    <3>7. x \in rows
      BY <3>1, <3>6
    <3> QED
      BY <3>1, <3>6, <3>7
  <2> HIDE DEF rows, c, seen, m
  <2> QED
    BY <1>1, <1>2, <2>1, <2>2, MergeShows
<1> HIDE DEF g
<1>7. client' \in Screens /\ client'.cursor = new /\ client'.seen = g
  BY <1>1, <1>2, <1>3, <1>4, <1>5 DEF Screens
<1>8. new <= Len(store.changes)
  BY <1>1, <1>2, <1>3
<1> QED
  BY <1>5, <1>6, <1>7, <1>8 DEF Current

LEMMA SnapshotMerged ==
  ASSUME store \in Stores, Current(client, store), NEW p, Page(p, store), MergeSnapshot(p)
  PROVE  Current(client', store)
<1> DEFINE c == client.cursor
           seen == client.seen
           m == p.cursor
           new == Max({c, m})
           rows == p.rows
           stale == {k \in Keys : m >= c /\ IsFocus(k, seen[k]) /\ k \notin {r.key : r \in rows}}
           kept == [k \in Keys |-> IF k \in stale THEN NoRecord ELSE seen[k]]
           g == Merged(kept, rows)
<1>1. /\ client \in Screens /\ c \in Nat /\ seen \in [Keys -> ActivityRecords] /\ c <= Len(store.changes)
      /\ \A k \in Keys : seen[k].rev <= store.records[k].rev
  BY DEF Current, Screens
<1>2. m \in Nat /\ m <= Len(store.changes) /\ SoundPageRows(rows, m, store)
  BY DEF Page, SoundPageRows
<1>3. new \in {c, m} /\ new >= c /\ new >= m
  <2> HIDE DEF c, m
  <2> QED
    BY <1>1, <1>2, MaxOfTwo
<1>4. client' = [cursor |-> new, seen |-> g, baseline |-> TRUE] /\ p.kind # "replay"
  BY DEF MergeSnapshot
<1> HIDE DEF new
<1>5. kept \in [Keys -> ActivityRecords] /\ \A k \in Keys : kept[k].rev <= store.records[k].rev
  <2>1. NoRecord \in ActivityRecords /\ NoRecord.rev = 0
    BY DEF NoRecord, ActivityRecords, ActivityStates
  <2>2. \A k \in Keys : store.records[k].rev \in Nat
    BY DEF Stores, ActivityRecords
  <2> HIDE DEF stale, seen
  <2> QED
    BY <1>1, <2>1, <2>2
<1>6. g \in [Keys -> ActivityRecords] /\ \A k \in Keys : g[k].rev <= store.records[k].rev
  <2> HIDE DEF rows, c, seen, m, kept
  <2> QED
    BY <1>2, <1>5, MergedType
<1>7. ASSUME NEW k \in OpenKeys(store) PROVE InView(g[k].rev, k, new, store)
  <2>1. k \in Keys /\ InView(seen[k].rev, k, c, store) /\ new \in Nat /\ Len(store.changes) \in Nat
    BY <1>1, <1>2, <1>3 DEF Current, OpenKeys, Known, Stores
  <2>2. CASE m >= c /\ ~\E x \in rows : x.key = k
    <3>1. ToldBehind(store, k, m) /\ new = m
      BY <1>1, <1>2, <1>3, <1>4, <2>2 DEF Page
    <3> QED
      BY <3>1 DEF InView
  <2>3. CASE ~(m >= c) \/ \E x \in rows : x.key = k
    <3>1. kept[k] = seen[k]
      BY <2>1, <2>3
    <3>2. ASSUME NEW n \in c + 1 .. Len(store.changes), n <= new, store.changes[n].key = k
          PROVE  new = m /\ \E x \in rows : x.key = k
      <4>1. new = m /\ c < m
        BY <1>1, <1>2, <1>3, <2>1, <3>2
      <4> QED
        BY <1>1, <1>2, <2>3, <4>1
    <3>3. kept[k].rev <= store.records[k].rev /\ InView(kept[k].rev, k, c, store)
      BY <1>5, <2>1, <3>1
    <3> HIDE DEF rows, c, seen, m, kept
    <3> QED
      BY <1>1, <1>2, <1>5, <2>1, <3>2, <3>3, MergeShows
  <2> QED
    BY <2>2, <2>3
<1> HIDE DEF g
<1>8. client' \in Screens /\ client'.cursor = new /\ client'.seen = g
  BY <1>1, <1>2, <1>3, <1>4, <1>6 DEF Screens
<1>9. new <= Len(store.changes)
  BY <1>1, <1>2, <1>3
<1> QED
  BY <1>6, <1>7, <1>8, <1>9 DEF Current
-----------------------------------------------------------------------------
LEMMA ClientKeeps ==
  ASSUME store \in Stores, DeliveryInv, ClientMoves PROVE DeliveryInv'
<1>1. UNCHANGED store
  BY DEF ClientMoves
<1>2. CASE AskActivity
  <2>1. UNCHANGED client
    BY <1>2 DEF AskActivity
  <2>2. client.cursor \in Nat /\ Len(store.changes) \in Nat
    BY DEF DeliveryInv, Current, Screens, Stores
  <2>3. \E p : Page(p, store) /\ responses' = responses \cup {p}
    <3>1. ASSUME NEW after \in client.cursor .. Len(store.changes) - 1, responses' = responses \cup {ReplayPage(after)}
          PROVE  <2>3
      <4>1. after \in Nat /\ after < Len(store.changes)
        BY <2>2
      <4> QED
        BY <3>1, <4>1, ReplayIsPage
    <3>2. CASE client.cursor < Len(store.changes) /\ responses' = responses \cup {ReplayPage(client.cursor)}
      BY <2>2, <3>2, ReplayIsPage
    <3>3. ASSUME NEW before, NEW kind \in {"newest", "older"}, responses' = responses \cup {SnapshotPage(before, kind)}
          PROVE  <2>3
      BY <3>3, SnapshotIsPage
    <3> QED
      BY <1>2, <3>1, <3>2, <3>3 DEF AskActivity, StreamActivity
  <2> QED
    BY <1>1, <2>1, <2>3 DEF DeliveryInv
<1>3. ASSUME NEW p \in responses, Answer(p) PROVE DeliveryInv'
  <2>1. Page(p, store) /\ responses' \subseteq responses
    BY <1>3 DEF DeliveryInv, Answer
  <2>2. Current(client', store)
    <3>1. CASE MergeReplay(p)
      BY <2>1, <3>1, ReplayMerged DEF DeliveryInv
    <3>2. CASE MergeSnapshot(p)
      BY <2>1, <3>2, SnapshotMerged DEF DeliveryInv
    <3>3. CASE UNCHANGED client
      BY <3>3 DEF DeliveryInv
    <3> QED
      BY <1>3, <3>1, <3>2, <3>3 DEF Answer
  <2> QED
    BY <1>1, <2>1, <2>2 DEF DeliveryInv
<1> QED
  BY <1>2, <1>3 DEF ClientMoves

LEMMA DeliveryStart == ActivityInit => DeliveryInv
<1> SUFFICES ASSUME ActivityInit PROVE DeliveryInv
  OBVIOUS
<1>1. /\ responses = {} /\ store.changes = << >> /\ client \in Screens /\ client.cursor = 0
      /\ \A k \in Keys : client.seen[k] = NoRecord /\ store.records[k] = NoRecord
  BY DEF ActivityInit, Screens, NoRecord, ActivityRecords, ActivityStates
<1>2. Len(store.changes) = 0 /\ NoRecord.rev = 0
  BY <1>1 DEF NoRecord
<1>3. \A k \in OpenKeys(store) : k \in Keys
  BY DEF OpenKeys, Known
<1>4. Current(client, store)
  BY <1>1, <1>2, <1>3 DEF Current, InView
<1> QED
  BY <1>1, <1>4 DEF DeliveryInv

LEMMA DeliveryGrows ==
  ASSUME store \in Stores, DeliveryInv, UNCHANGED clientVars, Grows(store, store') PROVE DeliveryInv'
<1> DEFINE to == store'
<1>1. Grows(store, to) /\ UNCHANGED <<client, responses>>
  BY DEF clientVars
<1>2. Current(client, store) /\ \A p \in responses : Page(p, store)
  BY DEF DeliveryInv
<1> HIDE DEF to
<1>3. Current(client, to)
  BY <1>1, <1>2, CurrentStill
<1>4. ASSUME NEW p \in responses PROVE Page(p, to)
  BY <1>1, <1>2, PageStill
<1> QED
  BY <1>1, <1>3, <1>4 DEF DeliveryInv, to

LEMMA PagesStep == SourcesInv /\ DeliveryInv /\ [ActivityNext]_activityVars => DeliveryInv'
<1> SUFFICES ASSUME SourcesInv, DeliveryInv, [ActivityNext]_activityVars PROVE DeliveryInv'
  OBVIOUS
<1>1. store \in Stores
  BY DEF SourcesInv
<1>2. CASE UNCHANGED store /\ UNCHANGED clientVars
  BY <1>2 DEF DeliveryInv, clientVars
<1>3. CASE Grows(store, store') /\ UNCHANGED clientVars
  BY <1>1, <1>3, DeliveryGrows
<1>4. CASE ClientMoves
  BY <1>1, <1>4, ClientKeeps
<1>5. CASE UNCHANGED activityVars
  BY <1>2, <1>5 DEF activityVars, clientVars
<1> QED
  BY <1>2, <1>3, <1>4, <1>5, FirstmateKeeps, ReconcileKeeps DEF ActivityNext, clientVars

(* Every answer on its way tells the truth of an earlier store and hides   *)
(* nothing up to its cursor, and so does what the client holds             *)
(* (activity_store.py, CanonicalActivity.ts).                              *)
THEOREM DeliveryInvariance == ActivitySpec => []DeliveryInv
<1> QED
  BY SourcesInvariance, DeliveryStart, PagesStep, PTL DEF ActivitySpec

(* Whatever answers were lost, repeated or late, an open decision or       *)
(* objective is on the client's screen as it is now, or will be replayed.  *)
THEOREM NothingIsMissed == ActivitySpec => []ReplayMissesNothing
<1>1. DeliveryInv => ReplayMissesNothing
  BY DEF DeliveryInv, Current, OpenKeys, FocusKeys, InView, ToldBehind, ReplayMissesNothing
<1> QED
  BY <1>1, DeliveryInvariance, PTL
=============================================================================
