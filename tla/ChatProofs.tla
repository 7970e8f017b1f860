----------------------------- MODULE ChatProofs -----------------------------
(***************************************************************************)
(* Proofs about MagiChat and PiOwnership: late attempts never overwrite a  *)
(* newer one, a report that is counted as delivered is in the conversation *)
(* for good, rows, feed and counters tell the same story, and no Pi turn   *)
(* is given the answer of another.                                         *)
(***************************************************************************)
EXTENDS MagiChat, PiOwnership, LedgerFacts, TLAPS

Statuses == {"none", "pending", "completed", "failed", "cancelled"}
Turn == [status : Statuses, attempt : Nat, rev : Nat, by : Nat]
Claim == [state : {"none", "queued", "generating", "completed", "failed"}, n : Nat]
Generation == [pc : {"none", "prepare", "await", "read", "finish", "done"},
               at : Gateways \cup {"none"}, attempt : Nat, seen : {"none", "completed", "failed"}]
Wake == [of : Reports, retry : BOOLEAN, drain : BOOLEAN]

RowTypes == chatRow \in [Keys -> Turn]
ReportTypes ==
  /\ report \in [Reports -> Claim]
  /\ reportTask \in [Reports \X (1 .. MaxWakes) -> Generation]
  /\ wakes \in [Gateways -> SUBSET Wake]

(* What a claim has seen, and what was recorded from it, is still so.      *)
CompletedIsShown == \A e \in Reports : report[e].state = "completed" => chatRow[e].status = "completed"
SeenIsShown ==
  \A e \in Reports, n \in 1 .. MaxWakes :
    reportTask[e, n].pc = "finish" /\ reportTask[e, n].seen = "completed" => chatRow[e].status = "completed"

ChatInv == RowTypes /\ ReportTypes /\ CompletedIsShown /\ SeenIsShown

(* The step of TurnsOnlyAdvance and that of ReportsAreDelivered.           *)
Advances(k) ==
  \/ chatRow'[k] = chatRow[k]
  \/ /\ chatRow[k].status \notin {"completed", "cancelled"}
     /\ chatRow[k].status = "failed" => /\ chatRow'[k].status = "pending"
                                        /\ chatRow'[k].attempt = chatRow[k].attempt + 1
     /\ chatRow'[k].status = "completed" => chatRow'[k].by = chatRow[k].attempt
RowsAdvance == \A k \in Keys : Advances(k)
ReportsKept ==
  \A e \in Reports :
    /\ report'[e].state = "completed" => chatRow'[e].status = "completed"
    /\ report[e].state = "completed" => report'[e].state = "completed"
-----------------------------------------------------------------------------
(* One row is replaced by the row of a later attempt or of its outcome.    *)
LEMMA RowReplaced ==
  ASSUME RowTypes, NEW k \in Keys, NEW r \in Turn, chatRow' = [chatRow EXCEPT ![k] = r],
         chatRow[k].status \notin {"completed", "cancelled"},
         chatRow[k].status = "failed" => r.status = "pending" /\ r.attempt = chatRow[k].attempt + 1,
         r.status = "completed" => r.by = chatRow[k].attempt
  PROVE  RowTypes' /\ RowsAdvance
<1>1. RowTypes'
  BY DEF RowTypes
<1>2. ASSUME NEW j \in Keys PROVE Advances(j)
  <2>1. CASE j = k
    BY <2>1 DEF RowTypes, Advances
  <2>2. CASE j # k
    BY <2>2 DEF RowTypes, Advances
  <2> QED
    BY <2>1, <2>2
<1> QED
  BY <1>1, <1>2 DEF RowsAdvance

(* Rows that no step touched.                                              *)
LEMMA RowsUntouched == ASSUME RowTypes, UNCHANGED chatRow PROVE RowTypes' /\ RowsAdvance
BY DEF RowTypes, RowsAdvance, Advances

(* _append_change with the row of attempt a in a status.                   *)
LEMMA Revised ==
  ASSUME RowTypes, NEW k \in Keys, NEW status \in Statuses, NEW a \in Nat, NEW by \in Nat,
         Revise(k, status, a, by),
         chatRow[k].status \notin {"completed", "cancelled"},
         chatRow[k].status = "failed" => status = "pending" /\ a = chatRow[k].attempt + 1,
         status = "completed" => by = chatRow[k].attempt
  PROVE  RowTypes' /\ RowsAdvance
<1> DEFINE r == [status |-> status, attempt |-> a, rev |-> chatRow[k].rev + 1, by |-> by]
<1>1. r \in Turn
  BY DEF RowTypes, Turn
<1>2. chatRow' = [chatRow EXCEPT ![k] = r]
  BY DEF Revise
<1>3. r.status = status /\ r.attempt = a /\ r.by = by
  OBVIOUS
<1> HIDE DEF r
<1> QED
  BY <1>1, <1>2, <1>3, RowReplaced

LEMMA SubmissionAdvances ==
  ASSUME RowTypes, NEW i \in Gateways, NEW m \in Messages, PrepareSubmission(i, m)
  PROVE  RowTypes' /\ RowsAdvance
<1>1. m \in Keys /\ chatRow[m].attempt + 1 \in Nat /\ 0 \in Nat /\ NoAttempt = 0
  BY DEF Keys, RowTypes, Turn, NoAttempt
<1>2. CASE chatRow[m].status = "none" /\ chatRow' = [chatRow EXCEPT ![m] =
                [status |-> "pending", attempt |-> 1, rev |-> 1, by |-> NoAttempt]]
  <2>1. [status |-> "pending", attempt |-> 1, rev |-> 1, by |-> NoAttempt] \in Turn
    BY DEF Turn, Statuses, NoAttempt
  <2> QED
    BY <1>1, <1>2, <2>1, RowReplaced
<1>3. CASE chatRow[m].status = "failed" /\ Revise(m, "pending", chatRow[m].attempt + 1, NoAttempt)
  BY <1>1, <1>3, Revised DEF Statuses
<1> QED
  BY <1>2, <1>3 DEF PrepareSubmission

LEMMA WritesAdvance ==
  ASSUME RowTypes, NEW k \in Keys, NEW a \in Nat, CompleteSubmission(k, a) \/ FailSubmission(k, a)
  PROVE  RowTypes' /\ RowsAdvance
<1>1. chatRow[k].attempt \in Nat /\ NoAttempt \in Nat
  BY DEF RowTypes, Turn, NoAttempt
<1>2. CASE Fence(k, a) /\ Revise(k, "completed", chatRow[k].attempt, a)
  BY <1>1, <1>2, Revised DEF Statuses, Fence
<1>3. CASE Fence(k, a) /\ Revise(k, "failed", chatRow[k].attempt, NoAttempt)
  BY <1>1, <1>3, Revised DEF Statuses, Fence
<1>4. CASE UNCHANGED chatRow
  BY <1>4, RowsUntouched
<1> QED
  BY <1>2, <1>3, <1>4 DEF CompleteSubmission, FailSubmission

LEMMA CancelAdvances ==
  ASSUME RowTypes, NEW i \in Gateways, NEW m \in Messages, CancelSubmission(i, m)
  PROVE  RowTypes' /\ RowsAdvance
<1>1. m \in Keys /\ chatRow[m].attempt \in Nat /\ NoAttempt \in Nat
  BY DEF Keys, RowTypes, Turn, NoAttempt
<1>2. CASE chatRow[m].status = "pending" /\ Revise(m, "cancelled", chatRow[m].attempt, NoAttempt)
  BY <1>1, <1>2, Revised DEF Statuses
<1>3. CASE UNCHANGED chatRow
  BY <1>3, RowsUntouched
<1> QED
  BY <1>2, <1>3 DEF CancelSubmission

LEMMA GenerationAdvances ==
  ASSUME RowTypes, NEW e \in Reports, NEW n \in 1 .. MaxWakes, PrepareGenerated(e, n)
  PROVE  RowTypes' /\ RowsAdvance
<1>1. e \in Keys /\ chatRow[e].attempt + 1 \in Nat /\ NoAttempt \in Nat /\ 1 \in Nat
  BY DEF Keys, RowTypes, Turn, NoAttempt
<1>2. CASE chatRow[e].status = "none" /\ Revise(e, "pending", 1, NoAttempt)
  BY <1>1, <1>2, Revised DEF Statuses
<1>3. CASE chatRow[e].status = "failed" /\ Revise(e, "pending", chatRow[e].attempt + 1, NoAttempt)
  BY <1>1, <1>3, Revised DEF Statuses
<1>4. CASE UNCHANGED chatRow
  BY <1>4, RowsUntouched
<1> QED
  BY <1>2, <1>3, <1>4 DEF PrepareGenerated

LEMMA RecoveryAdvances ==
  ASSUME RowTypes, NEW i \in Gateways, RecoverOrphanedPending(i)
  PROVE  RowTypes' /\ RowsAdvance
<1> DEFINE lost(k) == [chatRow[k] EXCEPT !.status = "failed", !.rev = @ + 1]
<1>1. ASSUME NEW k \in Keys, k \in PendingKeys
      PROVE  lost(k) \in Turn /\ lost(k).status = "failed" /\ chatRow[k].status = "pending"
  <2>1. chatRow[k] \in Turn /\ chatRow[k].status = "pending"
    BY <1>1 DEF RowTypes, PendingKeys
  <2> DEFINE r == chatRow[k]
  <2>2. r \in [status : Statuses, attempt : Nat, rev : Nat, by : Nat]
    BY <2>1 DEF Turn
  <2> HIDE DEF r
  <2>3. [r EXCEPT !.status = "failed", !.rev = @ + 1] \in [status : Statuses, attempt : Nat, rev : Nat, by : Nat]
    <3>1. r.rev + 1 \in Nat /\ "failed" \in Statuses
      BY <2>2 DEF Statuses
    <3>2. ASSUME NEW v \in Nat, NEW f \in Statuses
          PROVE  [r EXCEPT !.status = f, !.rev = v] \in [status : Statuses, attempt : Nat, rev : Nat, by : Nat]
      BY <2>2
    <3> QED
      BY <3>1, <3>2
  <2>4. [r EXCEPT !.status = "failed", !.rev = @ + 1].status = "failed"
    BY <2>2
  <2> QED
    BY <2>1, <2>3, <2>4 DEF Turn, r
<1>2. chatRow' = [k \in Keys |-> IF k \in PendingKeys THEN lost(k) ELSE chatRow[k]]
  BY DEF RecoverOrphanedPending
<1> HIDE DEF lost
<1>3. RowTypes'
  BY <1>1, <1>2 DEF RowTypes
<1>4. ASSUME NEW k \in Keys PROVE Advances(k)
  BY <1>1, <1>2 DEF Advances
<1> QED
  BY <1>3, <1>4 DEF RowsAdvance

(* Every step advances the rows.                                           *)
LEMMA StepsAdvance == ASSUME RowTypes, [MagiNext]_magiVars PROVE RowTypes' /\ RowsAdvance
<1>1. CASE \E i \in Gateways, m \in Messages : PrepareSubmission(i, m)
  BY <1>1, SubmissionAdvances
<1>2. CASE \E i \in Gateways, m \in Messages : CancelSubmission(i, m)
  BY <1>2, CancelAdvances
<1>3. CASE \E x \in Attempts : CompleteSubmission(x[1], x[2]) \/ FailSubmission(x[1], x[2])
  <2>1. PICK x \in Attempts : CompleteSubmission(x[1], x[2]) \/ FailSubmission(x[1], x[2])
    BY <1>3
  <2>2. x[1] \in Keys /\ x[2] \in Nat
    BY DEF Attempts, Keys
  <2> QED
    BY <2>1, <2>2, WritesAdvance
<1>4. CASE \E e \in Reports, n \in 1 .. MaxWakes : PrepareGenerated(e, n)
  BY <1>4, GenerationAdvances
<1>5. CASE \E i \in Gateways : RecoverOrphanedPending(i)
  BY <1>5, RecoveryAdvances
<1>6. CASE UNCHANGED chatRow
  BY <1>6, RowsUntouched
<1>7. \/ \E i \in Gateways, m \in Messages : PrepareSubmission(i, m) \/ CancelSubmission(i, m)
      \/ \E x \in Attempts : CompleteSubmission(x[1], x[2]) \/ FailSubmission(x[1], x[2])
      \/ \E e \in Reports, n \in 1 .. MaxWakes : PrepareGenerated(e, n)
      \/ \E i \in Gateways : RecoverOrphanedPending(i)
      \/ UNCHANGED chatRow
  <2>1. CASE UNCHANGED magiVars
    BY <2>1 DEF magiVars, chatVars
  <2>2. CASE \E i \in Gateways, m \in Messages : CancelTask(i, m)
    BY <2>2 DEF CancelTask
  <2>3. CASE \E m \in Messages, a \in 1 .. MaxAttempts : TurnStep(m, a)
    BY <2>3 DEF TurnStep, RecordRouting, CreateTask, RecordRoute
  <2>4. CASE \E x \in Attempts : Call(x[1], x[2]) \/ DropLoose(x[1], x[2])
    BY <2>4 DEF Call, DropLoose
  <2>5. CASE \E i \in Gateways, e \in Reports : Ingest(i, e) \/ RetryReport(i, e)
    BY <2>5 DEF Ingest, RetryReport, chatVars
  <2>6. CASE \E i \in Gateways : \E w \in wakes[i] : ClaimCompletion(i, w)
    BY <2>6 DEF ClaimCompletion, chatVars
  <2>7. CASE \E e \in Reports, n \in 1 .. MaxWakes : ReadGenerated(e, n) \/ FinishCompletion(e, n)
    BY <2>7 DEF ReadGenerated, FinishCompletion, chatVars
  <2>8. CASE \E i \in Gateways : CrashGateway(i) \/ RecoverInterrupted(i) \/ ReadQueue(i) \/ Serve(i) \/ DrainAgain(i)
    BY <2>8 DEF CrashGateway, RecoverInterrupted, ReadQueue, Serve, DrainAgain, chatVars
  <2> QED
    BY <2>1, <2>2, <2>3, <2>4, <2>5, <2>6, <2>7, <2>8 DEF MagiNext, AttemptStep, ReportStep, BootStep
<1> QED
  BY <1>1, <1>2, <1>3, <1>4, <1>5, <1>6, <1>7
-----------------------------------------------------------------------------
(* A row that is completed stays so.                                       *)
LEMMA CompletedStays ==
  ASSUME RowsAdvance, NEW k \in Keys, chatRow[k].status = "completed" PROVE chatRow'[k].status = "completed"
BY DEF RowsAdvance, Advances

(* Steps that leave the claims and their tasks alone.                      *)
LEMMA ClaimsUntouched ==
  ASSUME ChatInv, RowsAdvance, UNCHANGED <<report, reportTask>>
  PROVE  CompletedIsShown' /\ SeenIsShown' /\ ReportsKept
BY CompletedStays DEF ChatInv, CompletedIsShown, SeenIsShown, ReportsKept, Keys

(* One task of one claim is replaced.                                      *)
LEMMA TaskReplaced ==
  ASSUME ChatInv, RowsAdvance, NEW x \in Reports \X (1 .. MaxWakes), NEW g \in Generation,
         reportTask' = [reportTask EXCEPT ![x] = g],
         g.pc = "finish" /\ g.seen = "completed" => chatRow[x[1]].status = "completed"
  PROVE  reportTask' \in [Reports \X (1 .. MaxWakes) -> Generation] /\ SeenIsShown'
<1>1. reportTask' \in [Reports \X (1 .. MaxWakes) -> Generation]
  BY DEF ChatInv, ReportTypes
<1>2. ASSUME NEW e \in Reports, NEW n \in 1 .. MaxWakes,
             reportTask'[e, n].pc = "finish", reportTask'[e, n].seen = "completed"
      PROVE  chatRow'[e].status = "completed"
  <2>1. chatRow[e].status = "completed"
    <3>1. CASE <<e, n>> = x
      BY <1>2, <3>1 DEF ChatInv, ReportTypes
    <3>2. CASE <<e, n>> # x
      BY <1>2, <3>2 DEF ChatInv, ReportTypes, SeenIsShown
    <3> QED
      BY <3>1, <3>2
  <2> QED
    BY <2>1, CompletedStays DEF Keys
<1> QED
  BY <1>1, <1>2 DEF SeenIsShown

(* One claim is replaced.                                                  *)
LEMMA ClaimReplaced ==
  ASSUME ChatInv, RowsAdvance, NEW e \in Reports, NEW c \in Claim, report' = [report EXCEPT ![e] = c],
         c.state = "completed" => chatRow[e].status = "completed",
         report[e].state = "completed" => c.state = "completed"
  PROVE  report' \in [Reports -> Claim] /\ CompletedIsShown' /\ ReportsKept
<1>1. report' \in [Reports -> Claim]
  BY DEF ChatInv, ReportTypes
<1>2. ASSUME NEW d \in Reports
      PROVE  /\ report'[d].state = "completed" => chatRow'[d].status = "completed"
             /\ report[d].state = "completed" => report'[d].state = "completed"
  <2>1. CASE d = e
    BY <2>1, CompletedStays DEF ChatInv, ReportTypes, Keys
  <2>2. CASE d # e
    BY <2>2, CompletedStays DEF ChatInv, ReportTypes, CompletedIsShown, Keys
  <2> QED
    BY <2>1, <2>2
<1> QED
  BY <1>1, <1>2 DEF CompletedIsShown, ReportsKept

(* Claims and tasks that one instance cannot change alone.                 *)
LEMMA OnlyTasksChange ==
  ASSUME ChatInv, RowsAdvance, UNCHANGED report
  PROVE  report' \in [Reports -> Claim] /\ CompletedIsShown' /\ ReportsKept
BY CompletedStays DEF ChatInv, ReportTypes, CompletedIsShown, ReportsKept, Keys

LEMMA OnlyClaimsChange ==
  ASSUME ChatInv, RowsAdvance, UNCHANGED reportTask
  PROVE  reportTask' \in [Reports \X (1 .. MaxWakes) -> Generation] /\ SeenIsShown'
BY CompletedStays DEF ChatInv, ReportTypes, SeenIsShown, Keys
-----------------------------------------------------------------------------
(* What a step must keep of the reports, their tasks and the wake calls.   *)
ReportsStep ==
  /\ report' \in [Reports -> Claim] /\ CompletedIsShown' /\ ReportsKept
  /\ reportTask' \in [Reports \X (1 .. MaxWakes) -> Generation] /\ SeenIsShown'
  /\ wakes' \in [Gateways -> SUBSET Wake]

LEMMA IngestKeeps ==
  ASSUME ChatInv, RowsAdvance, NEW i \in Gateways, NEW e \in Reports, Ingest(i, e) \/ RetryReport(i, e)
  PROVE  ReportsStep
<1>1. reportTask' \in [Reports \X (1 .. MaxWakes) -> Generation] /\ SeenIsShown'
  BY OnlyClaimsChange DEF Ingest, RetryReport
<1>2. wakes' \in [Gateways -> SUBSET Wake]
  <2>1. [of |-> e, retry |-> FALSE, drain |-> FALSE] \in Wake /\ [of |-> e, retry |-> TRUE, drain |-> FALSE] \in Wake
    BY DEF Wake
  <2>2. \E w \in Wake : wakes' = [wakes EXCEPT ![i] = @ \cup {w}]
    BY <2>1 DEF Ingest, RetryReport
  <2> QED
    BY <2>2 DEF ChatInv, ReportTypes
<1>3. report' \in [Reports -> Claim] /\ CompletedIsShown' /\ ReportsKept
  <2>1. CASE UNCHANGED report
    BY <2>1, OnlyTasksChange
  <2>2. CASE report' = [report EXCEPT ![e].state = IF @ = "none" THEN "queued" ELSE @]
    <3> DEFINE c == [report[e] EXCEPT !.state = IF @ = "none" THEN "queued" ELSE @]
    <3>1. report[e] \in Claim
      BY DEF ChatInv, ReportTypes
    <3>2. c \in Claim /\ c.state = (IF report[e].state = "none" THEN "queued" ELSE report[e].state)
      BY <3>1 DEF Claim
    <3>3. report' = [report EXCEPT ![e] = c]
      BY <2>2
    <3>4. report[e].state = "completed" => chatRow[e].status = "completed"
      BY DEF ChatInv, CompletedIsShown
    <3> HIDE DEF c
    <3> QED
      BY <3>2, <3>3, <3>4, ClaimReplaced
  <2> QED
    BY <2>1, <2>2 DEF Ingest, RetryReport
<1> QED
  BY <1>1, <1>2, <1>3 DEF ReportsStep

LEMMA ClaimKeeps ==
  ASSUME ChatInv, RowsAdvance, NEW i \in Gateways, NEW w \in wakes[i], ClaimCompletion(i, w)
  PROVE  ReportsStep
<1> DEFINE e == w.of
           c == [state |-> "generating", n |-> report[e].n + 1]
           g == [NoGeneration EXCEPT !.pc = "prepare", !.at = i]
<1>1. w \in Wake /\ e \in Reports
  BY DEF ChatInv, ReportTypes, Wake
<1>2. wakes' \in [Gateways -> SUBSET Wake]
  BY DEF ClaimCompletion, ChatInv, ReportTypes
<1>3. CASE UNCHANGED <<report, reportTask>>
  BY <1>2, <1>3, OnlyTasksChange, OnlyClaimsChange DEF ReportsStep
<1>4. CASE /\ report[e].state \in {"queued", "failed"}
           /\ report' = [report EXCEPT ![e] = c]
           /\ reportTask' = [reportTask EXCEPT ![<<e, report[e].n + 1>>] = g]
  <2>1. c \in Claim /\ c.state = "generating"
    BY <1>1 DEF ChatInv, ReportTypes, Claim
  <2>2. g \in Generation /\ g.pc = "prepare"
    BY DEF Generation, NoGeneration, NoAttempt
  <2> HIDE DEF c, g
  <2>3. report' \in [Reports -> Claim] /\ CompletedIsShown' /\ ReportsKept
    BY <1>1, <1>4, <2>1, ClaimReplaced
  <2>4. reportTask' \in [Reports \X (1 .. MaxWakes) -> Generation] /\ SeenIsShown'
    <3>1. CASE <<e, report[e].n + 1>> \in Reports \X (1 .. MaxWakes)
      BY <1>4, <2>2, <3>1, TaskReplaced
    <3>2. CASE <<e, report[e].n + 1>> \notin Reports \X (1 .. MaxWakes)
      <4>1. UNCHANGED reportTask
        BY <1>4, <3>2 DEF ChatInv, ReportTypes
      <4> QED
        BY <4>1, OnlyClaimsChange
    <3> QED
      BY <3>1, <3>2
  <2> QED
    BY <1>2, <2>3, <2>4 DEF ReportsStep
<1> QED
  BY <1>3, <1>4 DEF ClaimCompletion

LEMMA GenerationKeeps ==
  ASSUME ChatInv, RowsAdvance, NEW e \in Reports, NEW n \in 1 .. MaxWakes, PrepareGenerated(e, n)
  PROVE  ReportsStep
<1> DEFINE t == reportTask[<<e, n>>]
           g1 == [t EXCEPT !.pc = "await", !.attempt = chatRow[e].attempt + 1]
           g2 == [t EXCEPT !.pc = "read"]
<1>1. t \in Generation /\ chatRow[e].attempt + 1 \in Nat
  BY DEF ChatInv, ReportTypes, RowTypes, Turn, Keys
<1>2. g1 \in Generation /\ g2 \in Generation /\ g1.pc = "await" /\ g2.pc = "read"
  BY <1>1 DEF Generation
<1>3. reportTask' = [reportTask EXCEPT ![<<e, n>>] = g1] \/ reportTask' = [reportTask EXCEPT ![<<e, n>>] = g2]
  BY DEF PrepareGenerated
<1> HIDE DEF g1, g2
<1>4. reportTask' \in [Reports \X (1 .. MaxWakes) -> Generation] /\ SeenIsShown'
  BY <1>2, <1>3, TaskReplaced
<1>5. UNCHANGED <<report, wakes>>
  BY DEF PrepareGenerated
<1> QED
  BY <1>4, <1>5, OnlyTasksChange DEF ReportsStep, ChatInv, ReportTypes

LEMMA ReadKeeps ==
  ASSUME ChatInv, RowsAdvance, NEW e \in Reports, NEW n \in 1 .. MaxWakes, ReadGenerated(e, n)
  PROVE  ReportsStep
<1> DEFINE t == reportTask[<<e, n>>]
           seen == IF chatRow[e].status = "completed" THEN "completed" ELSE "failed"
           g == [t EXCEPT !.pc = "finish", !.seen = seen]
<1>1. t \in Generation
  BY DEF ChatInv, ReportTypes
<1>2. seen \in {"none", "completed", "failed"} /\ (seen = "completed" => chatRow[e].status = "completed")
  OBVIOUS
<1>3. reportTask' = [reportTask EXCEPT ![<<e, n>>] = g]
  BY DEF ReadGenerated
<1> HIDE DEF seen
<1>4. g \in Generation /\ g.seen = seen
  BY <1>1, <1>2 DEF Generation
<1> HIDE DEF g
<1>5. reportTask' \in [Reports \X (1 .. MaxWakes) -> Generation] /\ SeenIsShown'
  BY <1>2, <1>3, <1>4, TaskReplaced
<1>6. UNCHANGED <<report, wakes>>
  BY DEF ReadGenerated
<1> QED
  BY <1>5, <1>6, OnlyTasksChange DEF ReportsStep, ChatInv, ReportTypes

LEMMA FinishKeeps ==
  ASSUME ChatInv, RowsAdvance, NEW e \in Reports, NEW n \in 1 .. MaxWakes, FinishCompletion(e, n)
  PROVE  ReportsStep
<1> DEFINE t == reportTask[<<e, n>>]
           state == IF report[e].state = "generating" THEN t.seen ELSE report[e].state
           c == [report[e] EXCEPT !.state = state]
           g == [t EXCEPT !.pc = "done"]
<1>1. t \in Generation /\ t.pc = "finish" /\ report[e] \in Claim /\ wakes' = wakes
  BY DEF ChatInv, ReportTypes, FinishCompletion
<1>2. report' = [report EXCEPT ![e] = c] /\ reportTask' = [reportTask EXCEPT ![<<e, n>>] = g]
  BY DEF FinishCompletion
<1>3. state \in {"none", "queued", "generating", "completed", "failed"}
  BY <1>1 DEF Claim, Generation
<1>4. state = "completed" => chatRow[e].status = "completed"
  BY <1>1 DEF ChatInv, SeenIsShown, CompletedIsShown
<1>5. report[e].state = "completed" => state = "completed"
  OBVIOUS
<1> HIDE DEF state
<1>6. c \in Claim /\ c.state = state
  BY <1>1, <1>3 DEF Claim
<1>7. g \in Generation /\ g.pc = "done"
  BY <1>1 DEF Generation
<1> HIDE DEF c, g
<1>8. report' \in [Reports -> Claim] /\ CompletedIsShown' /\ ReportsKept
  BY <1>2, <1>4, <1>5, <1>6, ClaimReplaced
<1>9. reportTask' \in [Reports \X (1 .. MaxWakes) -> Generation] /\ SeenIsShown'
  BY <1>2, <1>7, TaskReplaced
<1> QED
  BY <1>1, <1>8, <1>9 DEF ReportsStep, ChatInv, ReportTypes

LEMMA CrashKeeps ==
  ASSUME ChatInv, RowsAdvance, NEW i \in Gateways, CrashGateway(i)
  PROVE  ReportsStep
<1> DEFINE task(x) == Gone(reportTask[x], i)
<1>1. ASSUME NEW x \in Reports \X (1 .. MaxWakes)
      PROVE  task(x) \in Generation /\ (task(x) = reportTask[x] \/ task(x).pc = "done")
  <2>1. reportTask[x] \in Generation
    BY DEF ChatInv, ReportTypes
  <2> QED
    BY <2>1 DEF Gone, Generation
<1>2. reportTask' = [x \in Reports \X (1 .. MaxWakes) |-> task(x)]
  BY DEF CrashGateway, ChatInv, ReportTypes
<1> HIDE DEF task
<1>3. reportTask' \in [Reports \X (1 .. MaxWakes) -> Generation]
  BY <1>1, <1>2
<1>4. ASSUME NEW e \in Reports, NEW n \in 1 .. MaxWakes,
             reportTask'[e, n].pc = "finish", reportTask'[e, n].seen = "completed"
      PROVE  chatRow'[e].status = "completed"
  <2>1. reportTask'[<<e, n>>] = task(<<e, n>>) /\ task(<<e, n>>).pc = "finish"
    BY <1>2, <1>4
  <2>2. reportTask[<<e, n>>] = task(<<e, n>>)
    BY <1>1, <2>1
  <2>3. chatRow[e].status = "completed"
    BY <1>4, <2>1, <2>2 DEF ChatInv, SeenIsShown
  <2> QED
    BY <2>3, CompletedStays DEF Keys
<1>5. SeenIsShown'
  BY <1>4 DEF SeenIsShown
<1>6. UNCHANGED report /\ wakes' \in [Gateways -> SUBSET Wake]
  BY DEF CrashGateway, ChatInv, ReportTypes
<1> QED
  BY <1>3, <1>5, <1>6, OnlyTasksChange DEF ReportsStep

LEMMA RecoveryKeeps ==
  ASSUME ChatInv, RowsAdvance, NEW i \in Gateways, RecoverInterrupted(i)
  PROVE  ReportsStep
<1> DEFINE claim(e) == IF report[e].state = "generating" THEN [report[e] EXCEPT !.state = "queued"] ELSE report[e]
<1>1. ASSUME NEW e \in Reports
      PROVE  /\ claim(e) \in Claim
             /\ claim(e) = report[e] \/ (claim(e).state = "queued" /\ report[e].state = "generating")
  <2>1. report[e] \in Claim
    BY DEF ChatInv, ReportTypes
  <2> QED
    BY <2>1 DEF Claim
<1>2. report' = [e \in Reports |-> claim(e)]
  BY DEF RecoverInterrupted
<1> HIDE DEF claim
<1>3. report' \in [Reports -> Claim]
  BY <1>1, <1>2
<1>4. ASSUME NEW e \in Reports
      PROVE  /\ report'[e].state = "completed" => chatRow'[e].status = "completed"
             /\ report[e].state = "completed" => report'[e].state = "completed"
  BY <1>1, <1>2, CompletedStays DEF ChatInv, CompletedIsShown, Keys
<1>5. UNCHANGED <<reportTask, wakes>>
  BY DEF RecoverInterrupted
<1> QED
  BY <1>3, <1>4, <1>5, OnlyClaimsChange DEF ReportsStep, CompletedIsShown, ReportsKept, ChatInv, ReportTypes

LEMMA QueueKeeps ==
  ASSUME ChatInv, RowsAdvance, NEW i \in Gateways, ReadQueue(i) \/ DrainAgain(i)
  PROVE  ReportsStep
<1>1. Queued \subseteq Wake
  <2>1. ASSUME NEW w \in Queued PROVE w \in Wake
    <3>1. PICK e \in Reports : w = [of |-> e, retry |-> FALSE, drain |-> TRUE]
      BY DEF Queued
    <3> QED
      BY <3>1 DEF Wake
  <2> QED
    BY <2>1
<1>2. UNCHANGED <<report, reportTask>> /\ wakes' \in [Gateways -> SUBSET Wake]
  BY <1>1 DEF ReadQueue, DrainAgain, ChatInv, ReportTypes
<1> QED
  BY <1>2, OnlyTasksChange, OnlyClaimsChange DEF ReportsStep

LEMMA OthersKeep ==
  ASSUME ChatInv, RowsAdvance, UNCHANGED <<report, reportTask, wakes>> PROVE ReportsStep
BY OnlyTasksChange, OnlyClaimsChange DEF ReportsStep, ChatInv, ReportTypes

(* The invariant is inductive, and every step keeps the reports.           *)
LEMMA ChatStep == ASSUME ChatInv, [MagiNext]_magiVars PROVE ChatInv' /\ RowsAdvance /\ ReportsKept
<1>1. RowTypes' /\ RowsAdvance
  BY StepsAdvance DEF ChatInv
<1>2. ReportsStep
  <2>1. CASE UNCHANGED magiVars
    BY <1>1, <2>1, OthersKeep DEF magiVars, reportVars
  <2>2. CASE \E i \in Gateways, m \in Messages :
               PrepareSubmission(i, m) \/ CancelTask(i, m) \/ CancelSubmission(i, m)
    BY <1>1, <2>2, OthersKeep DEF PrepareSubmission, CancelTask, CancelSubmission, reportVars
  <2>3. CASE \E m \in Messages, a \in 1 .. MaxAttempts : TurnStep(m, a)
    BY <1>1, <2>3, OthersKeep DEF TurnStep, RecordRouting, CreateTask, RecordRoute, reportVars
  <2>4. CASE \E x \in Attempts : AttemptStep(x[1], x[2]) \/ DropLoose(x[1], x[2])
    BY <1>1, <2>4, OthersKeep DEF AttemptStep, Call, CompleteSubmission, FailSubmission, DropLoose, reportVars
  <2>5. CASE \E i \in Gateways, e \in Reports : Ingest(i, e) \/ RetryReport(i, e)
    BY <1>1, <2>5, IngestKeeps
  <2>6. CASE \E i \in Gateways : \E w \in wakes[i] : ClaimCompletion(i, w)
    BY <1>1, <2>6, ClaimKeeps
  <2>7. CASE \E e \in Reports, n \in 1 .. MaxWakes : ReportStep(e, n)
    BY <1>1, <2>7, GenerationKeeps, ReadKeeps, FinishKeeps DEF ReportStep
  <2>8. CASE \E i \in Gateways : CrashGateway(i) \/ RecoverInterrupted(i) \/ ReadQueue(i) \/ DrainAgain(i)
    BY <1>1, <2>8, CrashKeeps, RecoveryKeeps, QueueKeeps
  <2>9. CASE \E i \in Gateways : RecoverOrphanedPending(i) \/ Serve(i)
    BY <1>1, <2>9, OthersKeep DEF RecoverOrphanedPending, Serve, reportVars
  <2> QED
    BY <2>1, <2>2, <2>3, <2>4, <2>5, <2>6, <2>7, <2>8, <2>9 DEF MagiNext, BootStep
<1> QED
  BY <1>1, <1>2 DEF ChatInv, ReportsStep, ReportTypes

LEMMA ChatStart == MagiInit => ChatInv
<1> SUFFICES ASSUME MagiInit PROVE ChatInv
  OBVIOUS
<1>1. RowTypes
  BY DEF MagiInit, RowTypes, NoTurn, Turn, Statuses, NoAttempt
<1>2. ReportTypes
  BY DEF MagiInit, ReportTypes, NoReport, Claim, NoGeneration, Generation, NoAttempt
<1>3. CompletedIsShown /\ SeenIsShown
  BY DEF MagiInit, CompletedIsShown, SeenIsShown, NoReport, NoGeneration
<1> QED
  BY <1>1, <1>2, <1>3 DEF ChatInv
-----------------------------------------------------------------------------
(* What every claim of a report has seen, and what was recorded from it,   *)
(* is in the conversation: the invariant behind finish_completion.         *)
THEOREM ChatInvariance == MagiSpec => []ChatInv
<1>1. ChatInv /\ [MagiNext]_magiVars => ChatInv'
  BY ChatStep
<1> QED
  BY <1>1, ChatStart, PTL DEF MagiSpec

(* complete_submission, fail_submission, cancel_submission and restart     *)
(* recovery, in any interleaving of any number of instances and attempts,  *)
(* never let a late attempt overwrite a newer one.                         *)
THEOREM LateAttemptsAreFenced == MagiSpec => TurnsOnlyAdvance
<1>1. ChatInv /\ [MagiNext]_magiVars => [RowsAdvance]_magiVars
  BY ChatStep
<1>2. [RowsAdvance]_magiVars
      <=> [\A k \in Keys :
             \/ chatRow'[k] = chatRow[k]
             \/ /\ chatRow[k].status \notin {"completed", "cancelled"}
                /\ chatRow[k].status = "failed" => /\ chatRow'[k].status = "pending"
                                                   /\ chatRow'[k].attempt = chatRow[k].attempt + 1
                /\ chatRow'[k].status = "completed" => chatRow'[k].by = chatRow[k].attempt]_magiVars
  BY DEF RowsAdvance, Advances
<1> QED
  BY <1>1, <1>2, ChatInvariance, PTL DEF MagiSpec, TurnsOnlyAdvance

(* claim_completion, finish_completion and recover_interrupted: a report   *)
(* counted as delivered is in the conversation and stays counted.          *)
THEOREM DeliveredReportsStay == MagiSpec => ReportsAreDelivered
<1>1. ChatInv /\ [MagiNext]_magiVars => [ReportsKept]_magiVars
  BY ChatStep
<1>2. [ReportsKept]_magiVars
      <=> [\A e \in Reports :
             /\ report'[e].state = "completed" => chatRow'[e].status = "completed"
             /\ report[e].state = "completed" => report'[e].state = "completed"]_magiVars
  BY DEF ReportsKept
<1> QED
  BY <1>1, <1>2, ChatInvariance, PTL DEF MagiSpec, ReportsAreDelivered
-----------------------------------------------------------------------------
(* Records.  Beside the property: a row that was never written has no      *)
(* revision, and only finitely many rows were written.                     *)
ChangeRows == [of : Keys, role : {"user", "assistant"}, rev : Nat]
ChangesIn(f, k) == {n \in 1 .. Len(f) : f[n].of = k /\ f[n].role = "assistant"}

(* The feed f holds the revisions 1 .. v of k, in order.                   *)
Lists(f, k, v) == Numbered(ChangesIn(f, k), f, v)

Feed(f, row) == f \in Seq(ChangeRows) /\ \A k \in Keys : Lists(f, k, row[k].rev)

Written(row) == {k \in Keys : row[k].status # "none"}
Being(row, status) == {k \in Keys : row[k].status = status}
Tallies == [submitted : Nat, completed : Nat, failed : Nat, retries : Nat]
Tally(c, row) ==
  /\ c \in Tallies
  /\ IsFiniteSet(Written(row))
  /\ c.submitted = Cardinality(Written(row))
  /\ c.completed = Cardinality(Being(row, "completed"))
  /\ c.failed - c.retries = Cardinality(Being(row, "failed"))

Blank(row) == \A k \in Keys : row[k].status = "none" => row[k].rev = 0
RecordsInv == Feed(chatFeed, chatRow) /\ Tally(chatCounts, chatRow) /\ Blank(chatRow)
-----------------------------------------------------------------------------
(* The next revision of k is appended.                                     *)
LEMMA ListsNext ==
  ASSUME NEW f \in Seq(ChangeRows), NEW c \in ChangeRows, NEW k, NEW v \in Nat, Lists(f, k, v),
         c.of = k, c.role = "assistant", c.rev = v + 1
  PROVE  Lists(Append(f, c), k, v + 1)
<1> DEFINE g == Append(f, c)
           l == Len(f)
<1>1. l \in Nat /\ Len(g) = l + 1 /\ g[l + 1] = c /\ \A n \in 1 .. l : g[n] = f[n]
  OBVIOUS
<1> HIDE DEF g, l
<1>2. /\ ChangesIn(f, k) \in SUBSET Nat /\ ChangesIn(g, k) = ChangesIn(f, k) \cup {l + 1}
      /\ \A n \in ChangesIn(f, k) : n < l + 1 /\ g[n] = f[n]
  BY <1>1 DEF ChangesIn, l
<1>3. Numbered(ChangesIn(f, k) \cup {l + 1}, g, v + 1)
  BY <1>1, <1>2, NumberedNext DEF Lists
<1> QED
  BY <1>2, <1>3 DEF Lists, g

(* A change of another row, or of the user's half.                         *)
LEMMA ListsSame ==
  ASSUME NEW f \in Seq(ChangeRows), NEW g \in Seq(ChangeRows), Len(f) <= Len(g),
         \A n \in 1 .. Len(f) : g[n] = f[n], NEW k,
         \A n \in Len(f) + 1 .. Len(g) : ~(g[n].of = k /\ g[n].role = "assistant"), NEW v, Lists(f, k, v)
  PROVE  Lists(g, k, v)
<1>1. Len(f) \in Nat /\ Len(g) \in Nat
  OBVIOUS
<1>2. ChangesIn(g, k) = ChangesIn(f, k)
  BY <1>1 DEF ChangesIn
<1>3. \A n \in ChangesIn(f, k) : g[n] = f[n]
  BY DEF ChangesIn
<1> QED
  BY <1>2, <1>3, NumberedSame DEF Lists

(* Revise: the feed gets the row's next revision.                          *)
LEMMA FeedRevised ==
  ASSUME NEW f, NEW row \in [Keys -> Turn], Feed(f, row), NEW k \in Keys, NEW r \in Turn, r.rev = row[k].rev + 1
  PROVE  Feed(Append(f, Change(k, "assistant", row[k].rev + 1)), [row EXCEPT ![k] = r])
<1> DEFINE c == Change(k, "assistant", row[k].rev + 1)
           g == Append(f, c)
           new == [row EXCEPT ![k] = r]
<1>1. row[k].rev \in Nat /\ f \in Seq(ChangeRows)
  BY DEF Feed, Turn
<1>2. c \in ChangeRows /\ c.of = k /\ c.role = "assistant" /\ c.rev = row[k].rev + 1
  BY <1>1 DEF Change, ChangeRows
<1> HIDE DEF c
<1>3. /\ g \in Seq(ChangeRows) /\ Len(g) = Len(f) + 1 /\ g[Len(g)] = c /\ \A n \in 1 .. Len(f) : g[n] = f[n]
      /\ Len(f) \in Nat
  BY <1>1, <1>2
<1>4. Lists(g, k, row[k].rev + 1)
  BY <1>1, <1>2, ListsNext DEF Feed
<1> HIDE DEF g
<1>5. ASSUME NEW j \in Keys PROVE Lists(g, j, new[j].rev)
  <2>1. CASE j = k
    BY <1>4, <2>1
  <2>2. CASE j # k
    <3>1. new[j] = row[j] /\ Lists(f, j, row[j].rev)
      BY <2>2 DEF Feed
    <3>2. \A n \in Len(f) + 1 .. Len(g) : g[n].of # j
      BY <1>2, <1>3, <2>2
    <3>3. Lists(g, j, row[j].rev)
      BY <1>1, <1>3, <3>1, <3>2, ListsSame
    <3> QED
      BY <3>1, <3>3
  <2> QED
    BY <2>1, <2>2
<1>6. Feed(g, new)
  BY <1>3, <1>5 DEF Feed
<1> QED
  BY <1>6 DEF g, c

(* The user's half goes first.                                             *)
LEMMA FeedUser ==
  ASSUME NEW f, NEW row, Feed(f, row), NEW k \in Keys
  PROVE  Feed(Append(f, Change(k, "user", 1)), row)
<1> DEFINE c == Change(k, "user", 1)
           g == Append(f, c)
<1>1. f \in Seq(ChangeRows) /\ c \in ChangeRows /\ c.role = "user"
  BY DEF Feed, Change, ChangeRows
<1> HIDE DEF c
<1>2. /\ g \in Seq(ChangeRows) /\ Len(g) = Len(f) + 1 /\ g[Len(g)] = c /\ \A n \in 1 .. Len(f) : g[n] = f[n]
      /\ Len(f) \in Nat
  BY <1>1
<1> HIDE DEF g
<1>3. ASSUME NEW j \in Keys PROVE Lists(g, j, row[j].rev)
  <2>1. Lists(f, j, row[j].rev)
    BY DEF Feed
  <2>2. \A n \in Len(f) + 1 .. Len(g) : g[n].role # "assistant"
    BY <1>1, <1>2
  <2> QED
    BY <1>1, <1>2, <2>1, <2>2, ListsSame
<1>4. Feed(g, row)
  BY <1>2, <1>3 DEF Feed
<1> QED
  BY <1>4 DEF g, c

(* recover_orphaned_pending: the orders of a finite set repeat nothing.    *)
LEMMA OrderedOnce ==
  ASSUME NEW S, IsFiniteSet(S), NEW s \in Orders(S)
  PROVE  /\ Cardinality(S) \in Nat /\ s \in [1 .. Cardinality(S) -> S]
         /\ \A x \in S : \E n \in 1 .. Cardinality(S) : s[n] = x
         /\ \A m, n \in 1 .. Cardinality(S) : s[m] = s[n] => m = n
<1> DEFINE c == Cardinality(S)
<1>1. c \in Nat
  BY FS_CardinalityType
<1> HIDE DEF c
<1>2. s \in [1 .. c -> S] /\ \A x \in S : \E n \in 1 .. c : s[n] = x
  BY DEF Orders, c
<1>3. IsFiniteSet(1 .. c) /\ Cardinality(1 .. c) = c
  BY <1>1, FS_Interval
<1>4. s \in Surjection(1 .. c, S)
  BY <1>2 DEF Surjection
<1>5. s \in Injection(1 .. c, S)
  BY <1>3, <1>4, FS_Surjection DEF c
<1>6. \A m, n \in 1 .. c : s[m] = s[n] => m = n
  BY <1>5 DEF Injection, IsInjective
<1> QED
  BY <1>1, <1>2, <1>6 DEF c

(* Every pending row gets its next revision, in some order.                *)
LEMMA FeedRecovered ==
  ASSUME NEW f, NEW row \in [Keys -> Turn], Feed(f, row), NEW S, S \subseteq Keys, IsFiniteSet(S),
         NEW s \in Orders(S), NEW new \in [Keys -> Turn],
         \A k \in S : new[k].rev = row[k].rev + 1, \A k \in Keys \ S : new[k] = row[k]
  PROVE  Feed(f \o [n \in DOMAIN s |-> Change(s[n], "assistant", row[s[n]].rev + 1)], new)
<1> DEFINE c == Cardinality(S)
           h == [n \in DOMAIN s |-> Change(s[n], "assistant", row[s[n]].rev + 1)]
           l == Len(f)
           g == f \o h
<1>1. /\ c \in Nat /\ s \in [1 .. c -> S]
      /\ \A x \in S : \E n \in 1 .. c : s[n] = x
      /\ \A m, n \in 1 .. c : s[m] = s[n] => m = n
  BY OrderedOnce
<1> HIDE DEF c
<1>2. \A n \in 1 .. c : /\ h[n] \in ChangeRows /\ h[n].of = s[n] /\ h[n].role = "assistant"
                        /\ h[n].rev = row[s[n]].rev + 1
  BY <1>1 DEF Change, ChangeRows, Turn
<1>3. h \in [1 .. c -> ChangeRows]
  BY <1>1, <1>2
<1> HIDE DEF h
<1>4. h \in Seq(ChangeRows) /\ Len(h) = c
  BY <1>1, <1>3
<1>5. f \in Seq(ChangeRows) /\ l \in Nat
  BY DEF Feed
<1>6. /\ g \in Seq(ChangeRows) /\ Len(g) = l + c
      /\ \A n \in 1 .. l : g[n] = f[n]
      /\ \A n \in 1 .. c : g[l + n] = h[n]
  <2>1. g \in Seq(ChangeRows) /\ Len(g) = l + c
    BY <1>1, <1>4, <1>5
  <2>2. ASSUME NEW n \in 1 .. l PROVE g[n] = f[n]
    BY <1>1, <1>4, <1>5
  <2>3. ASSUME NEW n \in 1 .. c PROVE g[l + n] = h[n]
    <3>1. l + n \in 1 .. Len(f) + Len(h) /\ l + n > Len(f) /\ (l + n) - Len(f) = n
      BY <1>1, <1>4, <1>5
    <3> QED
      BY <1>4, <1>5, <3>1
  <2> QED
    BY <2>1, <2>2, <2>3
<1> HIDE DEF g
<1>7. \A n \in l + 1 .. Len(g) : n - l \in 1 .. c /\ g[n] = h[n - l]
  <2>1. ASSUME NEW n \in l + 1 .. Len(g) PROVE n - l \in 1 .. c /\ g[n] = h[n - l]
    <3>1. n - l \in 1 .. c /\ n = l + (n - l)
      BY <1>1, <1>5, <1>6
    <3> QED
      BY <1>6, <3>1
  <2> QED
    BY <2>1
<1>8. ASSUME NEW k \in Keys PROVE Lists(g, k, new[k].rev)
  <2>1. Lists(f, k, row[k].rev) /\ row[k].rev \in Nat
    BY DEF Feed, Turn
  <2>2. CASE k \notin S
    <3>1. \A n \in l + 1 .. Len(g) : g[n].of # k
      BY <1>1, <1>2, <1>7, <2>2
    <3>2. Len(f) <= Len(g) /\ \A n \in Len(f) + 1 .. Len(g) : ~(g[n].of = k /\ g[n].role = "assistant")
      BY <1>1, <1>5, <1>6, <3>1
    <3>3. Lists(g, k, row[k].rev)
      BY <1>5, <1>6, <2>1, <3>2, ListsSame
    <3> QED
      BY <2>2, <3>3
  <2>3. CASE k \in S
    <3>1. PICK n \in 1 .. c : s[n] = k
      BY <1>1, <2>3
    <3> DEFINE m == l + n
               v == row[k].rev
    <3>2. m \in l + 1 .. Len(g) /\ g[m] = h[n] /\ m - l = n
      BY <1>1, <1>5, <1>6
    <3>3. g[m].of = k /\ g[m].role = "assistant" /\ g[m].rev = v + 1
      BY <1>2, <3>1, <3>2
    <3>4. \A x \in l + 1 .. Len(g) : g[x].of = k => x = m
      <4>1. ASSUME NEW x \in l + 1 .. Len(g), g[x].of = k PROVE x = m
        <5>1. x - l \in 1 .. c /\ s[x - l] = k
          BY <1>2, <1>7, <4>1
        <5>2. x - l = n
          BY <1>1, <3>1, <5>1
        <5> QED
          BY <1>5, <5>2
      <4> QED
        BY <4>1
    <3> HIDE DEF m, v
    <3>5. m \in Nat /\ m > l /\ v \in Nat
      BY <1>5, <2>1, <3>2 DEF v, m
    <3>6. /\ ChangesIn(f, k) \in SUBSET Nat /\ ChangesIn(g, k) = ChangesIn(f, k) \cup {m}
          /\ \A x \in ChangesIn(f, k) : x < m /\ g[x] = f[x]
      <4>1. \A x \in ChangesIn(f, k) : x \in 1 .. l /\ x \in Nat /\ x < m /\ g[x] = f[x]
        BY <1>5, <1>6, <3>5 DEF ChangesIn, l
      <4>2. ChangesIn(g, k) = ChangesIn(f, k) \cup {m}
        BY <1>1, <1>5, <1>6, <3>2, <3>3, <3>4 DEF ChangesIn, l
      <4> QED
        BY <4>1, <4>2
    <3>7. Numbered(ChangesIn(f, k), f, v)
      BY <2>1 DEF Lists, v
    <3>8. Numbered(ChangesIn(f, k) \cup {m}, g, v + 1)
      <4> DEFINE P == ChangesIn(f, k)
      <4>1. /\ P \in SUBSET Nat /\ Numbered(P, f, v)
            /\ \A x \in P : x < m
            /\ \A x \in P : g[x] = f[x]
            /\ g[m].rev = v + 1
        BY <3>3, <3>6, <3>7
      <4> HIDE DEF P
      <4>2. Numbered(P \cup {m}, g, v + 1)
        BY <3>5, <4>1, NumberedNext
      <4> QED
        BY <4>2 DEF P
    <3>9. Lists(g, k, v + 1)
      BY <3>6, <3>8 DEF Lists
    <3> QED
      BY <2>3, <3>9 DEF v
  <2> QED
    BY <2>2, <2>3
<1>9. Feed(g, new)
  BY <1>6, <1>8 DEF Feed
<1> QED
  BY <1>9 DEF g, h

(* The rows that have a status, after the row of k is replaced by r.       *)
LEMMA BeingReplaced ==
  ASSUME NEW row \in [Keys -> Turn], NEW k \in Keys, NEW r \in Turn, NEW status, row[k].status # r.status,
         IsFiniteSet(Being(row, status))
  PROVE  LET new == [row EXCEPT ![k] = r]
         IN /\ r.status = status => Cardinality(Being(new, status)) = Cardinality(Being(row, status)) + 1
            /\ row[k].status = status => Cardinality(Being(new, status)) = Cardinality(Being(row, status)) - 1
            /\ status \notin {r.status, row[k].status} => Being(new, status) = Being(row, status)
<1> DEFINE new == [row EXCEPT ![k] = r]
<1>1. new[k] = r /\ \A j \in Keys \ {k} : new[j] = row[j]
  OBVIOUS
<1> HIDE DEF new
<1>2. CASE r.status = status
  <2>1. k \notin Being(row, status) /\ Being(new, status) = Being(row, status) \cup {k}
    BY <1>1, <1>2 DEF Being
  <2>2. Cardinality(Being(new, status)) = Cardinality(Being(row, status)) + 1
    BY <2>1, FS_AddElement
  <2> QED
    BY <1>2, <2>2 DEF new
<1>3. CASE row[k].status = status
  <2>1. k \in Being(row, status) /\ Being(new, status) = Being(row, status) \ {k}
    BY <1>1, <1>3 DEF Being
  <2>2. Cardinality(Being(new, status)) = Cardinality(Being(row, status)) - 1
    BY <2>1, FS_RemoveElement
  <2> QED
    BY <1>3, <2>2 DEF new
<1>4. CASE status \notin {r.status, row[k].status}
  <2>1. Being(new, status) = Being(row, status)
    BY <1>1, <1>4 DEF Being
  <2> QED
    BY <1>4, <2>1 DEF new
<1> QED
  BY <1>2, <1>3, <1>4

(* The rows written so far.                                                *)
LEMMA WrittenReplaced ==
  ASSUME NEW row \in [Keys -> Turn], NEW k \in Keys, NEW r \in Turn, r.status # "none"
  PROVE  Written([row EXCEPT ![k] = r]) = Written(row) \cup {k}
BY DEF Written

LEMMA TalliedSets ==
  ASSUME NEW c, NEW row, Tally(c, row)
  PROVE  /\ IsFiniteSet(Written(row)) /\ Cardinality(Written(row)) \in Nat
         /\ \A status : status # "none" => IsFiniteSet(Being(row, status)) /\ Cardinality(Being(row, status)) \in Nat
<1>1. IsFiniteSet(Written(row))
  BY DEF Tally
<1>2. \A status : status # "none" => Being(row, status) \subseteq Written(row)
  BY DEF Being, Written
<1> QED
  BY <1>1, <1>2, FS_Subset, FS_CardinalityType

(* What the operations of the store count.                                 *)
LEMMA TallyStarted ==
  ASSUME NEW c, NEW row \in [Keys -> Turn], Tally(c, row), NEW k \in Keys, NEW r \in Turn,
         row[k].status = "none", r.status = "pending"
  PROVE  Tally([c EXCEPT !["submitted"] = @ + 1], [row EXCEPT ![k] = r])
<1> DEFINE d == [c EXCEPT !["submitted"] = @ + 1]
           new == [row EXCEPT ![k] = r]
<1>1. c \in Tallies
  BY DEF Tally
<1>2. d \in Tallies /\ d.submitted = c.submitted + 1 /\ d.completed = c.completed /\ d.failed = c.failed /\ d.retries = c.retries
  BY <1>1 DEF Tallies
<1>3. k \notin Written(row) /\ Written(new) = Written(row) \cup {k}
  BY WrittenReplaced DEF Written
<1>4. Being(new, "completed") = Being(row, "completed") /\ Being(new, "failed") = Being(row, "failed")
  BY DEF Being
<1> HIDE DEF d, new
<1>5. IsFiniteSet(Written(new)) /\ Cardinality(Written(new)) = Cardinality(Written(row)) + 1
  BY <1>3, FS_AddElement DEF Tally
<1>6. Tally(d, new)
  BY <1>2, <1>4, <1>5 DEF Tally
<1> QED
  BY <1>6 DEF d, new

LEMMA TallyMoved ==
  ASSUME NEW c, NEW row \in [Keys -> Turn], Tally(c, row), NEW k \in Keys, NEW r \in Turn,
         row[k].status # "none", r.status # "none", row[k].status # r.status,
         NEW d \in Tallies, d.submitted = c.submitted,
         row[k].status # "completed",
         d.completed = IF r.status = "completed" THEN c.completed + 1 ELSE c.completed,
         d.failed = IF r.status = "failed" THEN c.failed + 1 ELSE c.failed,
         d.retries = IF row[k].status = "failed" THEN c.retries + 1 ELSE c.retries
  PROVE  Tally(d, [row EXCEPT ![k] = r])
<1> DEFINE new == [row EXCEPT ![k] = r]
<1>1. c \in Tallies
  BY DEF Tally
<1>2. Written(new) = Written(row)
  BY WrittenReplaced DEF Written
<1>3. /\ IsFiniteSet(Being(row, "completed")) /\ IsFiniteSet(Being(row, "failed"))
      /\ Cardinality(Being(row, "completed")) \in Nat /\ Cardinality(Being(row, "failed")) \in Nat
  BY TalliedSets
<1>4. Cardinality(Being(new, "completed")) =
        IF r.status = "completed" THEN Cardinality(Being(row, "completed")) + 1 ELSE Cardinality(Being(row, "completed"))
  BY <1>3, BeingReplaced
<1>5. /\ r.status = "failed" => Cardinality(Being(new, "failed")) = Cardinality(Being(row, "failed")) + 1
      /\ row[k].status = "failed" => Cardinality(Being(new, "failed")) = Cardinality(Being(row, "failed")) - 1
      /\ "failed" \notin {r.status, row[k].status} => Being(new, "failed") = Being(row, "failed")
  BY <1>3, BeingReplaced
<1> HIDE DEF new
<1>6. d.failed - d.retries = Cardinality(Being(new, "failed"))
  <2>1. c.failed - c.retries = Cardinality(Being(row, "failed")) /\ c.failed \in Nat /\ c.retries \in Nat
    BY <1>1 DEF Tally, Tallies
  <2>2. CASE r.status = "failed"
    BY <1>3, <1>5, <2>1, <2>2
  <2>3. CASE row[k].status = "failed"
    BY <1>3, <1>5, <2>1, <2>3
  <2>4. CASE "failed" \notin {r.status, row[k].status}
    BY <1>3, <1>5, <2>1, <2>4
  <2> QED
    BY <2>2, <2>3, <2>4
<1>7. Tally(d, new)
  BY <1>2, <1>4, <1>6 DEF Tally
<1> QED
  BY <1>7 DEF new

LEMMA TallyRecovered ==
  ASSUME NEW c, NEW row \in [Keys -> Turn], Tally(c, row), NEW S, S = Being(row, "pending"),
         NEW new \in [Keys -> Turn],
         \A k \in S : new[k].status = "failed", \A k \in Keys \ S : new[k] = row[k]
  PROVE  Tally([c EXCEPT !.failed = @ + Cardinality(S)], new) /\ IsFiniteSet(S)
<1> DEFINE d == [c EXCEPT !.failed = @ + Cardinality(S)]
<1>1. IsFiniteSet(S) /\ IsFiniteSet(Being(row, "failed"))
  BY TalliedSets
<1>2. Cardinality(S) \in Nat /\ Cardinality(Being(row, "failed")) \in Nat /\ c \in Tallies
  BY <1>1, FS_CardinalityType DEF Tally
<1>3. /\ d \in Tallies /\ d.submitted = c.submitted /\ d.completed = c.completed /\ d.retries = c.retries
      /\ d.failed = c.failed + Cardinality(S)
  BY <1>2 DEF Tallies
<1>4. /\ Written(new) = Written(row) /\ Being(new, "completed") = Being(row, "completed")
      /\ Being(new, "failed") = Being(row, "failed") \cup S /\ Being(row, "failed") \cap S = {}
  BY DEF Written, Being
<1>5. Cardinality(Being(new, "failed")) = Cardinality(Being(row, "failed")) + Cardinality(S)
  <2>1. Cardinality(Being(row, "failed") \cup S)
          = Cardinality(Being(row, "failed")) + Cardinality(S) - Cardinality(Being(row, "failed") \cap S)
    BY <1>1, FS_Union
  <2>2. Cardinality(Being(row, "failed") \cap S) = 0
    BY <1>4, FS_EmptySet
  <2>3. Cardinality(Being(new, "failed")) = Cardinality(Being(row, "failed") \cup S)
    BY <1>4
  <2>4. \A x, y, z, w : x \in Nat /\ y \in Nat /\ z = x + y - w /\ w = 0 => z = x + y
    OBVIOUS
  <2> QED
    BY <1>2, <2>1, <2>2, <2>3, <2>4
<1> HIDE DEF d
<1>6. d.failed - d.retries = Cardinality(Being(new, "failed"))
  <2>1. c.failed - c.retries = Cardinality(Being(row, "failed")) /\ c.failed \in Nat /\ c.retries \in Nat
    BY <1>2 DEF Tally, Tallies
  <2> QED
    BY <1>2, <1>3, <1>5, <2>1
<1>7. Tally(d, new)
  BY <1>3, <1>4, <1>6 DEF Tally
<1> QED
  BY <1>1, <1>7 DEF d

(* Steps of the store.                                                     *)
LEMMA RecordsStarted ==
  ASSUME RowTypes, RecordsInv, NEW k \in Keys, chatRow[k].status = "none", NEW r \in Turn, r.status = "pending",
         r.rev = 1, chatRow' = [chatRow EXCEPT ![k] = r], Count("submitted"),
         \/ chatFeed' = chatFeed \o <<Change(k, "user", 1), Change(k, "assistant", 1)>>
         \/ chatFeed' = Append(chatFeed, Change(k, "assistant", chatRow[k].rev + 1))
  PROVE  RecordsInv'
<1>1. chatRow \in [Keys -> Turn] /\ chatRow[k].rev = 0 /\ r.rev = chatRow[k].rev + 1
  BY DEF RowTypes, RecordsInv, Blank
<1>2. Feed(chatFeed', chatRow')
  <2>1. CASE chatFeed' = Append(chatFeed, Change(k, "assistant", chatRow[k].rev + 1))
    BY <1>1, <2>1, FeedRevised DEF RecordsInv
  <2>2. CASE chatFeed' = chatFeed \o <<Change(k, "user", 1), Change(k, "assistant", 1)>>
    <3> DEFINE f == Append(chatFeed, Change(k, "user", 1))
    <3>1. Feed(f, chatRow)
      BY FeedUser DEF RecordsInv
    <3>2. chatFeed \in Seq(ChangeRows) /\ Change(k, "user", 1) \in ChangeRows /\ Change(k, "assistant", 1) \in ChangeRows
      BY DEF RecordsInv, Feed, Change, ChangeRows
    <3>3. chatFeed' = Append(f, Change(k, "assistant", 1))
      <4>1. ASSUME NEW x \in ChangeRows, NEW y \in ChangeRows
            PROVE  chatFeed \o <<x, y>> = Append(Append(chatFeed, x), y)
        BY <3>2
      <4> QED
        BY <2>2, <3>2, <4>1
    <3> HIDE DEF f
    <3>4. Feed(Append(f, Change(k, "assistant", chatRow[k].rev + 1)), [chatRow EXCEPT ![k] = r])
      BY <1>1, <3>1, FeedRevised
    <3>5. chatRow[k].rev + 1 = 1
      BY <1>1
    <3> QED
      BY <3>3, <3>4, <3>5
  <2> QED
    BY <2>1, <2>2
<1>3. Tally(chatCounts', chatRow')
  BY <1>1, TallyStarted DEF RecordsInv, Count
<1>4. Blank(chatRow')
  BY <1>1 DEF RecordsInv, Blank
<1> QED
  BY <1>2, <1>3, <1>4 DEF RecordsInv

(* A row that was written moves on.                                        *)
LEMMA RecordsMoved ==
  ASSUME RowTypes, RecordsInv, NEW k \in Keys, NEW status \in Statuses, NEW a \in Nat, NEW by \in Nat,
         Revise(k, status, a, by), status # "none", chatRow[k].status \notin {"none", "completed"},
         chatRow[k].status # status,
         NEW d \in Tallies, chatCounts' = d, d.submitted = chatCounts.submitted,
         d.completed = IF status = "completed" THEN chatCounts.completed + 1 ELSE chatCounts.completed,
         d.failed = IF status = "failed" THEN chatCounts.failed + 1 ELSE chatCounts.failed,
         d.retries = IF chatRow[k].status = "failed" THEN chatCounts.retries + 1 ELSE chatCounts.retries
  PROVE  RecordsInv'
<1> DEFINE r == [status |-> status, attempt |-> a, rev |-> chatRow[k].rev + 1, by |-> by]
<1>1. chatRow \in [Keys -> Turn] /\ chatRow[k].rev \in Nat
  BY DEF RowTypes, Turn
<1>2. r \in Turn /\ r.status = status /\ r.rev = chatRow[k].rev + 1
  BY <1>1 DEF Turn
<1>3. /\ chatRow' = [chatRow EXCEPT ![k] = r]
      /\ chatFeed' = Append(chatFeed, Change(k, "assistant", chatRow[k].rev + 1))
  BY DEF Revise
<1> HIDE DEF r
<1>4. Feed(chatFeed', chatRow')
  BY <1>1, <1>2, <1>3, FeedRevised DEF RecordsInv
<1>5. Tally(d, [chatRow EXCEPT ![k] = r])
  BY <1>1, <1>2, TallyMoved DEF RecordsInv
<1>6. Blank(chatRow')
  BY <1>1, <1>2, <1>3 DEF RecordsInv, Blank
<1> QED
  BY <1>3, <1>4, <1>5, <1>6 DEF RecordsInv

LEMMA Tallied == ASSUME RecordsInv PROVE chatCounts \in Tallies
BY DEF RecordsInv, Tally

LEMMA RecordsRetried ==
  ASSUME RowTypes, RecordsInv, NEW k \in Keys, chatRow[k].status = "failed", NEW a \in Nat,
         Revise(k, "pending", a, NoAttempt), Count("retries")
  PROVE  RecordsInv'
<1> DEFINE d == [chatCounts EXCEPT !["retries"] = @ + 1]
<1>1. d \in Tallies /\ d.submitted = chatCounts.submitted /\ d.completed = chatCounts.completed
      /\ d.failed = chatCounts.failed /\ d.retries = chatCounts.retries + 1
  BY Tallied DEF Tallies
<1>2. chatCounts' = d
  BY DEF Count
<1> HIDE DEF d
<1>3. "pending" \in Statuses /\ NoAttempt \in Nat
  BY DEF Statuses, NoAttempt
<1> QED
  BY <1>1, <1>2, <1>3, RecordsMoved

LEMMA RecordsCompleted ==
  ASSUME RowTypes, RecordsInv, NEW k \in Keys, chatRow[k].status = "pending", NEW a \in Nat, NEW by \in Nat,
         Revise(k, "completed", a, by), Count("completed")
  PROVE  RecordsInv'
<1> DEFINE d == [chatCounts EXCEPT !["completed"] = @ + 1]
<1>1. d \in Tallies /\ d.submitted = chatCounts.submitted /\ d.completed = chatCounts.completed + 1
      /\ d.failed = chatCounts.failed /\ d.retries = chatCounts.retries
  BY Tallied DEF Tallies
<1>2. chatCounts' = d
  BY DEF Count
<1> HIDE DEF d
<1>3. "completed" \in Statuses
  BY DEF Statuses
<1> QED
  BY <1>1, <1>2, <1>3, RecordsMoved

LEMMA RecordsFailed ==
  ASSUME RowTypes, RecordsInv, NEW k \in Keys, chatRow[k].status = "pending", NEW a \in Nat,
         Revise(k, "failed", a, NoAttempt), Count("failed")
  PROVE  RecordsInv'
<1> DEFINE d == [chatCounts EXCEPT !["failed"] = @ + 1]
<1>1. d \in Tallies /\ d.submitted = chatCounts.submitted /\ d.completed = chatCounts.completed
      /\ d.failed = chatCounts.failed + 1 /\ d.retries = chatCounts.retries
  BY Tallied DEF Tallies
<1>2. chatCounts' = d
  BY DEF Count
<1> HIDE DEF d
<1>3. "failed" \in Statuses /\ NoAttempt \in Nat
  BY DEF Statuses, NoAttempt
<1> QED
  BY <1>1, <1>2, <1>3, RecordsMoved

LEMMA RecordsCancelled ==
  ASSUME RowTypes, RecordsInv, NEW k \in Keys, chatRow[k].status = "pending", NEW a \in Nat,
         Revise(k, "cancelled", a, NoAttempt), chatCounts' = chatCounts
  PROVE  RecordsInv'
<1>1. "cancelled" \in Statuses /\ NoAttempt \in Nat
  BY DEF Statuses, NoAttempt
<1> QED
  BY <1>1, Tallied, RecordsMoved

LEMMA RecordsRecovered ==
  ASSUME RowTypes, RowTypes', RecordsInv, NEW i \in Gateways, RecoverOrphanedPending(i)
  PROVE  RecordsInv'
<1>1. chatRow \in [Keys -> Turn] /\ chatRow' \in [Keys -> Turn]
  BY DEF RowTypes
<1>2. PendingKeys = Being(chatRow, "pending") /\ PendingKeys \subseteq Keys
  BY DEF PendingKeys, Being
<1>3. /\ \A k \in PendingKeys : chatRow'[k].status = "failed" /\ chatRow'[k].rev = chatRow[k].rev + 1
      /\ \A k \in Keys \ PendingKeys : chatRow'[k] = chatRow[k]
  BY <1>1, <1>2 DEF RecoverOrphanedPending, Turn
<1>4. Tally(chatCounts', chatRow') /\ IsFiniteSet(PendingKeys)
  BY <1>1, <1>2, <1>3, TallyRecovered DEF RecordsInv, RecoverOrphanedPending, FailuresCounted
<1>5. PICK s \in Orders(PendingKeys) :
        chatFeed' = chatFeed \o [n \in DOMAIN s |-> Change(s[n], "assistant", chatRow[s[n]].rev + 1)]
  BY DEF RecoverOrphanedPending
<1>6. Feed(chatFeed', chatRow')
  BY <1>1, <1>2, <1>3, <1>4, <1>5, FeedRecovered DEF RecordsInv
<1>7. Blank(chatRow')
  BY <1>2, <1>3 DEF RecordsInv, Blank
<1> QED
  BY <1>4, <1>6, <1>7 DEF RecordsInv
-----------------------------------------------------------------------------
(* Every step keeps the records in agreement.                              *)
LEMMA RecordsUntouched ==
  ASSUME RecordsInv, UNCHANGED <<chatRow, chatFeed, chatCounts>> PROVE RecordsInv'
BY DEF RecordsInv

LEMMA SubmissionRecords ==
  ASSUME RowTypes, RecordsInv, NEW i \in Gateways, NEW m \in Messages, PrepareSubmission(i, m)
  PROVE  RecordsInv'
<1> DEFINE r == [status |-> "pending", attempt |-> 1, rev |-> 1, by |-> NoAttempt]
<1>1. m \in Keys /\ chatRow[m].attempt + 1 \in Nat
  BY DEF Keys, RowTypes, Turn
<1>2. r \in Turn /\ r.status = "pending" /\ r.rev = 1
  BY DEF Turn, Statuses, NoAttempt
<1>3. CASE /\ chatRow[m].status = "none" /\ chatRow' = [chatRow EXCEPT ![m] = r]
           /\ chatFeed' = chatFeed \o <<Change(m, "user", 1), Change(m, "assistant", 1)>>
           /\ Count("submitted")
  <2> HIDE DEF r
  <2> QED
    BY <1>1, <1>2, <1>3, RecordsStarted
<1>4. CASE chatRow[m].status = "failed" /\ Revise(m, "pending", chatRow[m].attempt + 1, NoAttempt) /\ Count("retries")
  BY <1>1, <1>4, RecordsRetried
<1> QED
  BY <1>3, <1>4 DEF PrepareSubmission

LEMMA WritesRecords ==
  ASSUME RowTypes, RecordsInv, NEW k \in Keys, NEW a \in Nat, CompleteSubmission(k, a) \/ FailSubmission(k, a)
  PROVE  RecordsInv'
<1>1. chatRow[k].attempt \in Nat
  BY DEF RowTypes, Turn
<1>2. CASE Fence(k, a) /\ Revise(k, "completed", chatRow[k].attempt, a) /\ Count("completed")
  BY <1>1, <1>2, RecordsCompleted DEF Fence
<1>3. CASE Fence(k, a) /\ Revise(k, "failed", chatRow[k].attempt, NoAttempt) /\ Count("failed")
  BY <1>1, <1>3, RecordsFailed DEF Fence
<1>4. CASE UNCHANGED <<chatRow, chatFeed, chatCounts>>
  BY <1>4, RecordsUntouched
<1> QED
  BY <1>2, <1>3, <1>4 DEF CompleteSubmission, FailSubmission

LEMMA CancelRecords ==
  ASSUME RowTypes, RecordsInv, NEW i \in Gateways, NEW m \in Messages, CancelSubmission(i, m)
  PROVE  RecordsInv'
<1>1. m \in Keys /\ chatRow[m].attempt \in Nat
  BY DEF Keys, RowTypes, Turn
<1>2. CASE /\ chatRow[m].status = "pending" /\ Revise(m, "cancelled", chatRow[m].attempt, NoAttempt)
           /\ chatCounts' = chatCounts
  BY <1>1, <1>2, RecordsCancelled
<1>3. CASE UNCHANGED <<chatRow, chatFeed, chatCounts>>
  BY <1>3, RecordsUntouched
<1> QED
  BY <1>2, <1>3 DEF CancelSubmission

LEMMA GenerationRecords ==
  ASSUME RowTypes, RecordsInv, NEW e \in Reports, NEW n \in 1 .. MaxWakes, PrepareGenerated(e, n)
  PROVE  RecordsInv'
<1> DEFINE r == [status |-> "pending", attempt |-> 1, rev |-> chatRow[e].rev + 1, by |-> NoAttempt]
<1>1. e \in Keys /\ chatRow[e].attempt + 1 \in Nat /\ chatRow[e].rev \in Nat
  BY DEF Keys, RowTypes, Turn
<1>2. CASE chatRow[e].status = "none" /\ Revise(e, "pending", 1, NoAttempt) /\ Count("submitted")
  <2>1. chatRow[e].rev = 0
    BY <1>1, <1>2 DEF RecordsInv, Blank
  <2>2. r \in Turn /\ r.status = "pending" /\ r.rev = 1
    BY <2>1 DEF Turn, Statuses, NoAttempt
  <2>3. /\ chatRow' = [chatRow EXCEPT ![e] = r]
        /\ chatFeed' = Append(chatFeed, Change(e, "assistant", chatRow[e].rev + 1))
    BY <1>2 DEF Revise
  <2> HIDE DEF r
  <2> QED
    BY <1>1, <1>2, <2>2, <2>3, RecordsStarted
<1>3. CASE chatRow[e].status = "failed" /\ Revise(e, "pending", chatRow[e].attempt + 1, NoAttempt) /\ Count("retries")
  BY <1>1, <1>3, RecordsRetried
<1>4. CASE UNCHANGED <<chatRow, chatFeed, chatCounts>>
  BY <1>4, RecordsUntouched
<1> QED
  BY <1>2, <1>3, <1>4 DEF PrepareGenerated

LEMMA RecordsStep ==
  ASSUME RowTypes, RowTypes', RecordsInv, [MagiNext]_magiVars PROVE RecordsInv'
<1>1. CASE \E i \in Gateways, m \in Messages : PrepareSubmission(i, m)
  BY <1>1, SubmissionRecords
<1>2. CASE \E i \in Gateways, m \in Messages : CancelSubmission(i, m)
  BY <1>2, CancelRecords
<1>3. CASE \E x \in Attempts : CompleteSubmission(x[1], x[2]) \/ FailSubmission(x[1], x[2])
  <2>1. PICK x \in Attempts : CompleteSubmission(x[1], x[2]) \/ FailSubmission(x[1], x[2])
    BY <1>3
  <2>2. x[1] \in Keys /\ x[2] \in Nat
    BY DEF Attempts, Keys
  <2> QED
    BY <2>1, <2>2, WritesRecords
<1>4. CASE \E e \in Reports, n \in 1 .. MaxWakes : PrepareGenerated(e, n)
  BY <1>4, GenerationRecords
<1>5. CASE \E i \in Gateways : RecoverOrphanedPending(i)
  BY <1>5, RecordsRecovered
<1>6. CASE UNCHANGED <<chatRow, chatFeed, chatCounts>>
  BY <1>6, RecordsUntouched
<1>7. \/ \E i \in Gateways, m \in Messages : PrepareSubmission(i, m) \/ CancelSubmission(i, m)
      \/ \E x \in Attempts : CompleteSubmission(x[1], x[2]) \/ FailSubmission(x[1], x[2])
      \/ \E e \in Reports, n \in 1 .. MaxWakes : PrepareGenerated(e, n)
      \/ \E i \in Gateways : RecoverOrphanedPending(i)
      \/ UNCHANGED <<chatRow, chatFeed, chatCounts>>
  <2>1. CASE UNCHANGED magiVars
    BY <2>1 DEF magiVars, chatVars
  <2>2. CASE \E i \in Gateways, m \in Messages : CancelTask(i, m)
    BY <2>2 DEF CancelTask
  <2>3. CASE \E m \in Messages, a \in 1 .. MaxAttempts : TurnStep(m, a)
    BY <2>3 DEF TurnStep, RecordRouting, CreateTask, RecordRoute
  <2>4. CASE \E x \in Attempts : Call(x[1], x[2]) \/ DropLoose(x[1], x[2])
    BY <2>4 DEF Call, DropLoose
  <2>5. CASE \E i \in Gateways, e \in Reports : Ingest(i, e) \/ RetryReport(i, e)
    BY <2>5 DEF Ingest, RetryReport, chatVars
  <2>6. CASE \E i \in Gateways : \E w \in wakes[i] : ClaimCompletion(i, w)
    BY <2>6 DEF ClaimCompletion, chatVars
  <2>7. CASE \E e \in Reports, n \in 1 .. MaxWakes : ReadGenerated(e, n) \/ FinishCompletion(e, n)
    BY <2>7 DEF ReadGenerated, FinishCompletion, chatVars
  <2>8. CASE \E i \in Gateways : CrashGateway(i) \/ RecoverInterrupted(i) \/ ReadQueue(i) \/ Serve(i) \/ DrainAgain(i)
    BY <2>8 DEF CrashGateway, RecoverInterrupted, ReadQueue, Serve, DrainAgain, chatVars
  <2> QED
    BY <2>1, <2>2, <2>3, <2>4, <2>5, <2>6, <2>7, <2>8 DEF MagiNext, AttemptStep, ReportStep, BootStep
<1> QED
  BY <1>1, <1>2, <1>3, <1>4, <1>5, <1>6, <1>7

(* Nothing is written yet.                                                 *)
LEMMA RecordsStart == MagiInit => RecordsInv
<1> SUFFICES ASSUME MagiInit PROVE RecordsInv
  OBVIOUS
<1>1. chatFeed = << >> /\ \A k \in Keys : chatRow[k].status = "none" /\ chatRow[k].rev = 0
  BY DEF MagiInit, NoTurn
<1>2. chatFeed \in Seq(ChangeRows) /\ Len(chatFeed) = 0
  BY <1>1
<1>3. \A k : ChangesIn(chatFeed, k) = {}
  BY <1>2 DEF ChangesIn
<1>4. Feed(chatFeed, chatRow)
  BY <1>1, <1>2, <1>3 DEF Feed, Lists, Numbered
<1>5. Written(chatRow) = {} /\ Being(chatRow, "completed") = {} /\ Being(chatRow, "failed") = {}
  BY <1>1 DEF Written, Being
<1>6. IsFiniteSet({}) /\ Cardinality({}) = 0
  BY FS_EmptySet
<1>7. Tally(chatCounts, chatRow)
  <2>1. /\ chatCounts \in Tallies /\ chatCounts.submitted = 0 /\ chatCounts.completed = 0
        /\ chatCounts.failed = 0 /\ chatCounts.retries = 0
    BY DEF MagiInit, Tallies
  <2> QED
    BY <1>5, <1>6, <2>1 DEF Tally
<1> QED
  BY <1>1, <1>4, <1>7 DEF RecordsInv, Blank

(* The change feed holds every revision of every row in order, and the     *)
(* diagnostics count the rows, for any number of messages, instances,      *)
(* retries, crashes and recoveries.                                        *)
THEOREM RecordsAgree == MagiSpec => []ChatRecordsAgree
<1>1. ChatInv /\ RecordsInv /\ [MagiNext]_magiVars => RecordsInv'
  <2> SUFFICES ASSUME ChatInv, RecordsInv, [MagiNext]_magiVars PROVE RecordsInv'
    OBVIOUS
  <2>1. RowTypes /\ RowTypes'
    BY ChatStep DEF ChatInv
  <2> QED
    BY <2>1, RecordsStep
<1>2. ChatInv /\ RecordsInv => ChatRecordsAgree
  <2> SUFFICES ASSUME ChatInv, RecordsInv PROVE ChatRecordsAgree
    OBVIOUS
  <2>1. chatFeed \in Seq(ChangeRows) /\ chatRow \in [Keys -> Turn]
    BY DEF ChatInv, RowTypes, RecordsInv, Feed
  <2>2. \A k \in Keys : RowChanges(k) = ChangesIn(chatFeed, k)
    BY <2>1 DEF RowChanges, ChangesIn
  <2>3. ASSUME NEW k \in Keys
        PROVE  /\ {chatFeed[n].rev : n \in RowChanges(k)} = 1 .. chatRow[k].rev
               /\ \A i, j \in RowChanges(k) : i < j => chatFeed[i].rev < chatFeed[j].rev
    <3>1. Numbered(RowChanges(k), chatFeed, chatRow[k].rev)
      BY <2>2 DEF RecordsInv, Feed, Lists
    <3> QED
      BY <3>1, NumberedAre
  <2>4. /\ Having({"pending", "completed", "failed", "cancelled"}) = Written(chatRow)
        /\ Having({"completed"}) = Being(chatRow, "completed") /\ Having({"failed"}) = Being(chatRow, "failed")
    BY <2>1 DEF Having, Written, Being, Turn, Statuses
  <2>5. CountsAddUp
    BY <2>4 DEF CountsAddUp, RecordsInv, Tally
  <2> QED
    BY <2>3, <2>5 DEF ChatRecordsAgree, FeedComplete
<1> QED
  BY <1>1, <1>2, RecordsStart, ChatInvariance, PTL DEF MagiSpec
-----------------------------------------------------------------------------
(* Pi sessions.  The user entry a dispatch owns is one and no other        *)
(* dispatch owns it; from its prepare marker to the answer no other user   *)
(* entry stands; and only the one finalized envelope writes an answer.     *)
BindingRows == [from : Nat, user : Nat, bind : Nat]
EnvelopeRows == [type : {"none", "failed", "finalized"}, binding : BindingRows, asst : Nat, to : Nat,
                 code : {"none", "timeout", "refused", "canonical-turn-frozen"}]
DispatchRows == [state : {"none", "prepared", "bound", "failed", "finalized"}, binding : BindingRows, asst : Nat,
                 accepted : EnvelopeRows, acked : BOOLEAN, secret : BOOLEAN]
PiTypes ==
  /\ dispatch \in [PiTurns -> DispatchRows]
  /\ piTurn \in [PiTurns -> {"open", "cancelled", "failed", "completed"}]
  /\ piAnswer \in [PiTurns -> Nat]
  /\ piSeen \in Nat

OwnsUserEntry(d) == d.binding.user # 0 => piLog[d.binding.user].kind \in UserEntries
OwnsAnswer(d, turn, answer) ==
  answer # 0 =>
    /\ d.state = "finalized" /\ turn = "completed"
    /\ d.binding.user # 0 /\ d.binding.from < d.binding.user
    /\ \A n \in d.binding.from .. answer : piLog[n].kind \in UserEntries => n = d.binding.user

RowOwns(t) == OwnsUserEntry(dispatch[t]) /\ OwnsAnswer(dispatch[t], piTurn[t], piAnswer[t])
EntriesUnique ==
  \A s, t \in PiTurns : s # t /\ dispatch[t].binding.user # 0 => dispatch[s].binding.user # dispatch[t].binding.user

PiInv == PiTypes /\ (\A t \in PiTurns : RowOwns(t)) /\ EntriesUnique

(* A step that replaces the row of t, with its turn and its answer.        *)
LEMMA DispatchReplaced ==
  ASSUME PiInv, NEW t \in PiTurns, NEW d \in DispatchRows,
         NEW u \in {"open", "cancelled", "failed", "completed"}, NEW a \in Nat,
         dispatch' = [dispatch EXCEPT ![t] = d], piTurn' = [piTurn EXCEPT ![t] = u],
         piAnswer' = [piAnswer EXCEPT ![t] = a], piLog' = piLog, piSeen' = piSeen,
         OwnsUserEntry(d), OwnsAnswer(d, u, a),
         d.binding.user = dispatch[t].binding.user \/ (d.binding.user # 0 /\ UserEntryFree(t, d.binding))
  PROVE  PiInv'
<1>1. PiTypes'
  BY DEF PiInv, PiTypes
<1>2. /\ dispatch'[t] = d /\ piTurn'[t] = u /\ piAnswer'[t] = a
      /\ \A s \in PiTurns \ {t} : dispatch'[s] = dispatch[s] /\ piTurn'[s] = piTurn[s] /\ piAnswer'[s] = piAnswer[s]
  BY DEF PiInv, PiTypes
<1>3. ASSUME NEW s \in PiTurns PROVE RowOwns(s)'
  <2>1. CASE s = t
    BY <1>2, <2>1 DEF RowOwns, OwnsUserEntry, OwnsAnswer
  <2>2. CASE s # t
    <3>1. RowOwns(s) /\ dispatch'[s] = dispatch[s] /\ piTurn'[s] = piTurn[s] /\ piAnswer'[s] = piAnswer[s]
      BY <1>2, <2>2 DEF PiInv
    <3> QED
      BY <3>1 DEF RowOwns, OwnsUserEntry, OwnsAnswer
  <2> QED
    BY <2>1, <2>2
<1>4. EntriesUnique'
  BY <1>2 DEF PiInv, EntriesUnique, UserEntryFree
<1> QED
  BY <1>1, <1>3, <1>4 DEF PiInv

LEMMA PiRows ==
  ASSUME PiInv, NEW t \in PiTurns
  PROVE  /\ dispatch[t] \in DispatchRows /\ piTurn[t] \in {"open", "cancelled", "failed", "completed"}
         /\ piAnswer[t] \in Nat /\ RowOwns(t)
         /\ dispatch = [dispatch EXCEPT ![t] = dispatch[t]] /\ piTurn = [piTurn EXCEPT ![t] = piTurn[t]]
         /\ piAnswer = [piAnswer EXCEPT ![t] = piAnswer[t]]
BY DEF PiInv, PiTypes

(* The session grows.                                                      *)
LEMMA PiAppendKeeps == ASSUME PiInv, PiAppend PROVE PiInv'
<1>1. PiTypes'
  BY DEF PiInv, PiTypes, PiAppend
<1>2. \A t \in PiTurns : RowOwns(t)'
  BY DEF PiInv, PiAppend, RowOwns, OwnsUserEntry, OwnsAnswer
<1>3. EntriesUnique'
  BY DEF PiInv, PiAppend, EntriesUnique
<1> QED
  BY <1>1, <1>2, <1>3 DEF PiInv

(* A cancelled turn was open, so that it has no answer.                    *)
LEMMA CancelTurnKeeps == ASSUME PiInv, NEW t \in PiTurns, CancelTurn(t) PROVE PiInv'
<1>1. /\ dispatch[t] \in DispatchRows /\ piTurn[t] \in {"open", "cancelled", "failed", "completed"}
      /\ piAnswer[t] \in Nat /\ RowOwns(t)
      /\ dispatch = [dispatch EXCEPT ![t] = dispatch[t]] /\ piTurn = [piTurn EXCEPT ![t] = piTurn[t]]
      /\ piAnswer = [piAnswer EXCEPT ![t] = piAnswer[t]]
  BY PiRows
<1>2. OwnsAnswer(dispatch[t], "cancelled", piAnswer[t])
  BY <1>1 DEF RowOwns, OwnsAnswer, CancelTurn
<1> QED
  BY <1>1, <1>2, DispatchReplaced DEF CancelTurn, RowOwns

(* A dispatch is prepared.                                                 *)
LEMMA PrepareKeeps == ASSUME PiInv, NEW t \in PiTurns, PreparePiDispatch(t) PROVE PiInv'
<1> DEFINE d == [dispatch[t] EXCEPT !.state = "prepared", !.secret = TRUE]
<1>1. /\ dispatch[t] \in DispatchRows /\ piTurn[t] \in {"open", "cancelled", "failed", "completed"}
      /\ piAnswer[t] \in Nat /\ RowOwns(t)
      /\ dispatch = [dispatch EXCEPT ![t] = dispatch[t]] /\ piTurn = [piTurn EXCEPT ![t] = piTurn[t]]
      /\ piAnswer = [piAnswer EXCEPT ![t] = piAnswer[t]]
  BY PiRows
<1>2. d \in DispatchRows /\ d.binding = dispatch[t].binding
  BY <1>1 DEF DispatchRows
<1>3. dispatch' = [dispatch EXCEPT ![t] = d] /\ UNCHANGED <<piLog, piSeen, piTurn, piAnswer>> /\ piAnswer[t] = 0
  BY <1>1 DEF PreparePiDispatch, PiInv, PiTypes
<1> HIDE DEF d
<1>4. OwnsUserEntry(d) /\ OwnsAnswer(d, piTurn[t], piAnswer[t])
  BY <1>1, <1>2, <1>3 DEF RowOwns, OwnsUserEntry, OwnsAnswer
<1> QED
  BY <1>1, <1>2, <1>3, <1>4, DispatchReplaced

(* The adapter's acknowledgement.                                          *)
LEMMA AcknowledgedKeeps == ASSUME PiInv, NEW t \in PiTurns, Acknowledged(t) PROVE PiInv'
<1> DEFINE d == [dispatch[t] EXCEPT !.acked = TRUE, !.secret = FALSE]
<1>1. /\ dispatch[t] \in DispatchRows /\ piTurn[t] \in {"open", "cancelled", "failed", "completed"}
      /\ piAnswer[t] \in Nat /\ RowOwns(t)
      /\ dispatch = [dispatch EXCEPT ![t] = dispatch[t]] /\ piTurn = [piTurn EXCEPT ![t] = piTurn[t]]
      /\ piAnswer = [piAnswer EXCEPT ![t] = piAnswer[t]]
  BY PiRows
<1>2. d \in DispatchRows /\ d.binding = dispatch[t].binding /\ d.state = dispatch[t].state
  BY <1>1 DEF DispatchRows
<1>3. dispatch' = [dispatch EXCEPT ![t] = d] /\ UNCHANGED <<piLog, piSeen, piTurn, piAnswer>>
  BY <1>1 DEF Acknowledged, PiInv, PiTypes
<1> HIDE DEF d
<1>4. OwnsUserEntry(d) /\ OwnsAnswer(d, piTurn[t], piAnswer[t])
  BY <1>1, <1>2, <1>3 DEF RowOwns, OwnsUserEntry, OwnsAnswer
<1> QED
  BY <1>1, <1>2, <1>3, <1>4, DispatchReplaced

(* dispatch.bound.                                                         *)
LEMMA BoundKeeps == ASSUME PiInv, NEW t \in PiTurns, NEW b \in Bindings, ApplyBound(t, b) PROVE PiInv'
<1> DEFINE d == [dispatch[t] EXCEPT !.state = "bound", !.binding = b]
<1>1. /\ dispatch[t] \in DispatchRows /\ piTurn[t] \in {"open", "cancelled", "failed", "completed"}
      /\ piAnswer[t] \in Nat /\ RowOwns(t)
      /\ dispatch = [dispatch EXCEPT ![t] = dispatch[t]] /\ piTurn = [piTurn EXCEPT ![t] = piTurn[t]]
      /\ piAnswer = [piAnswer EXCEPT ![t] = piAnswer[t]]
  BY PiRows
<1>2. b \in BindingRows /\ b.user # 0
  BY DEF PiInv, PiTypes, Bindings, BindingRows
<1>3. d \in DispatchRows /\ d.binding = b /\ d.state = "bound"
  BY <1>1, <1>2 DEF DispatchRows
<1>4. /\ dispatch' = [dispatch EXCEPT ![t] = d] /\ UNCHANGED <<piLog, piSeen, piTurn, piAnswer>>
      /\ dispatch[t].state = "prepared" /\ UserEntryFree(t, b) /\ piLog[b.user].kind \in UserEntries
  BY <1>1 DEF ApplyBound, Bindable, ValidBinding, Boundary, PiInv, PiTypes
<1> HIDE DEF d
<1>5. OwnsUserEntry(d) /\ OwnsAnswer(d, piTurn[t], piAnswer[t])
  BY <1>1, <1>3, <1>4 DEF RowOwns, OwnsUserEntry, OwnsAnswer
<1> QED
  BY <1>1, <1>2, <1>3, <1>4, <1>5, DispatchReplaced

(* dispatch.failed: an open dispatch has no answer.                        *)
LEMMA FailedKeeps ==
  ASSUME PiInv, NEW t \in PiTurns, NEW code \in {"timeout", "refused"}, ApplyFailed(t, code) PROVE PiInv'
<1> DEFINE e == [NoEnvelope EXCEPT !.type = "failed", !.code = code]
           d == [dispatch[t] EXCEPT !.state = "failed", !.accepted = e]
           u == IF piTurn[t] \in Frozen \cup {"completed"} THEN piTurn[t] ELSE "failed"
<1>1. /\ dispatch[t] \in DispatchRows /\ piTurn[t] \in {"open", "cancelled", "failed", "completed"}
      /\ piAnswer[t] \in Nat /\ RowOwns(t)
      /\ dispatch = [dispatch EXCEPT ![t] = dispatch[t]] /\ piTurn = [piTurn EXCEPT ![t] = piTurn[t]]
      /\ piAnswer = [piAnswer EXCEPT ![t] = piAnswer[t]]
  BY PiRows
<1>2. e \in EnvelopeRows
  BY DEF NoEnvelope, NoBinding, EnvelopeRows, BindingRows
<1>3. /\ dispatch' = [dispatch EXCEPT ![t] = d] /\ piTurn' = [piTurn EXCEPT ![t] = u]
      /\ UNCHANGED <<piLog, piSeen, piAnswer>> /\ dispatch[t].state \in {"prepared", "bound"}
  BY <1>1 DEF ApplyFailed, PiInv, PiTypes
<1> HIDE DEF e
<1>4. d \in DispatchRows /\ d.binding = dispatch[t].binding
  BY <1>1, <1>2 DEF DispatchRows
<1>5. u \in {"open", "cancelled", "failed", "completed"}
  BY <1>1
<1> HIDE DEF d, u
<1>6. OwnsUserEntry(d) /\ OwnsAnswer(d, u, piAnswer[t])
  BY <1>1, <1>3, <1>4 DEF RowOwns, OwnsUserEntry, OwnsAnswer
<1> QED
  BY <1>1, <1>3, <1>4, <1>5, <1>6, DispatchReplaced

(* dispatch.finalized: a frozen turn only takes the receipt, any other     *)
(* takes an answer whose part of the session has one user entry.           *)
LEMMA FinalKeeps ==
  ASSUME PiInv, NEW t \in PiTurns, NEW b \in Bindings, NEW asst \in b.bind + 1 .. piSeen,
         NEW to \in b.bind + 1 .. piSeen, ApplyFinal(t, b, asst, to)
  PROVE  PiInv'
<1> DEFINE e == Final(b, asst, to)
           f == [Final(b, asst, to) EXCEPT !.code = "canonical-turn-frozen"]
           d == [dispatch[t] EXCEPT !.state = "failed", !.binding = b, !.accepted = f]
           g == [dispatch[t] EXCEPT !.state = "finalized", !.binding = b, !.asst = asst, !.accepted = e]
<1>1. /\ dispatch[t] \in DispatchRows /\ piTurn[t] \in {"open", "cancelled", "failed", "completed"}
      /\ piAnswer[t] \in Nat /\ RowOwns(t)
      /\ dispatch = [dispatch EXCEPT ![t] = dispatch[t]] /\ piTurn = [piTurn EXCEPT ![t] = piTurn[t]]
      /\ piAnswer = [piAnswer EXCEPT ![t] = piAnswer[t]]
  BY PiRows
<1>2. b \in BindingRows /\ b.user # 0 /\ b.from < b.user /\ asst \in Nat /\ to \in Nat
  BY DEF PiInv, PiTypes, Bindings, BindingRows
<1>3. e \in EnvelopeRows /\ f \in EnvelopeRows
  BY <1>2 DEF Final, EnvelopeRows
<1>4. /\ piLog[b.user].kind \in UserEntries /\ asst < to
      /\ \A n \in b.from .. to : piLog[n].kind \in UserEntries => n = b.user
      /\ piLog' = piLog /\ piSeen' = piSeen
      /\ dispatch[t].state \in {"prepared", "bound"}
      /\ dispatch[t].binding.user = b.user \/ UserEntryFree(t, b)
  BY DEF ApplyFinal, ValidFinal, ValidBinding, Boundary, BoundTo, Bindable
<1>5. piAnswer[t] = 0
  BY <1>1, <1>4 DEF RowOwns, OwnsAnswer
<1>6. CASE /\ dispatch' = [dispatch EXCEPT ![t].state = "failed", ![t].binding = b, ![t].accepted = f]
           /\ UNCHANGED <<piTurn, piAnswer>>
  <2>1. dispatch' = [dispatch EXCEPT ![t] = d]
    BY <1>6 DEF PiInv, PiTypes
  <2> HIDE DEF e, f
  <2>2. d \in DispatchRows /\ d.binding = b
    BY <1>1, <1>2, <1>3 DEF DispatchRows
  <2> HIDE DEF d
  <2>3. OwnsUserEntry(d) /\ OwnsAnswer(d, piTurn[t], piAnswer[t])
    BY <1>4, <1>5, <2>2 DEF OwnsUserEntry, OwnsAnswer
  <2>4. piTurn' = [piTurn EXCEPT ![t] = piTurn[t]] /\ piAnswer' = [piAnswer EXCEPT ![t] = piAnswer[t]]
    BY <1>1, <1>6
  <2>5. d.binding.user = dispatch[t].binding.user \/ (d.binding.user # 0 /\ UserEntryFree(t, d.binding))
    BY <1>2, <1>4, <2>2
  <2> QED
    BY <1>1, <1>4, <2>1, <2>2, <2>3, <2>4, <2>5, DispatchReplaced
<1>7. CASE /\ dispatch' = [dispatch EXCEPT ![t].state = "finalized", ![t].binding = b, ![t].asst = asst,
                             ![t].accepted = e]
           /\ piAnswer' = [piAnswer EXCEPT ![t] = asst] /\ piTurn' = [piTurn EXCEPT ![t] = "completed"]
  <2>1. dispatch' = [dispatch EXCEPT ![t] = g]
    BY <1>7 DEF PiInv, PiTypes
  <2> HIDE DEF e, f
  <2>2. g \in DispatchRows /\ g.binding = b /\ g.state = "finalized"
    BY <1>1, <1>2, <1>3 DEF DispatchRows
  <2> HIDE DEF g
  <2>3. \A n \in b.from .. asst : n \in b.from .. to
    BY <1>2, <1>4 DEF BindingRows
  <2>4. OwnsUserEntry(g) /\ OwnsAnswer(g, "completed", asst)
    BY <1>2, <1>4, <2>2, <2>3 DEF OwnsUserEntry, OwnsAnswer
  <2> QED
    BY <1>1, <1>2, <1>4, <1>7, <2>1, <2>2, <2>4, DispatchReplaced
<1> QED
  BY <1>6, <1>7 DEF ApplyFinal, UpsertFinalMessage

(* Every step of the session keeps ownership.                              *)
LEMMA PiStep == ASSUME PiInv, [PiNext]_piVars PROVE PiInv'
<1>1. CASE PiAppend
  BY <1>1, PiAppendKeeps
<1>2. ASSUME NEW t \in PiTurns, CancelTurn(t) \/ PreparePiDispatch(t) \/ Acknowledged(t) PROVE PiInv'
  BY <1>2, CancelTurnKeeps, PrepareKeeps, AcknowledgedKeeps
<1>3. ASSUME NEW b \in Bindings, NEW t \in PiTurns, ApplyBound(t, b) PROVE PiInv'
  BY <1>3, BoundKeeps
<1>4. ASSUME NEW b \in Bindings, NEW t \in PiTurns, NEW asst \in b.bind + 1 .. piSeen,
             NEW to \in b.bind + 1 .. piSeen, ApplyFinal(t, b, asst, to)
      PROVE  PiInv'
  BY <1>4, FinalKeeps
<1>5. ASSUME NEW t \in PiTurns, NEW code \in {"timeout", "refused"}, ApplyFailed(t, code) PROVE PiInv'
  BY <1>5, FailedKeeps
<1>6. CASE UNCHANGED piVars
  BY <1>6 DEF piVars, PiInv, PiTypes, RowOwns, OwnsUserEntry, OwnsAnswer, EntriesUnique
<1> QED
  BY <1>1, <1>2, <1>3, <1>4, <1>5, <1>6 DEF PiNext

(* An unanswered session owns nothing.                                     *)
LEMMA PiStart == PiInit => PiInv
BY DEF PiInit, PiInv, PiTypes, RowOwns, OwnsUserEntry, OwnsAnswer, EntriesUnique, NoDispatch, NoEnvelope, NoBinding,
       DispatchRows, EnvelopeRows, BindingRows

(* Ownership is exact in every reachable state, for every session and      *)
(* every number of turns with the same prompt.                             *)
THEOREM PiInvariance == PiSpec => []PiInv
<1>1. PiInv /\ [PiNext]_piVars => PiInv'
  BY PiStep
<1> QED
  BY PiStart, <1>1, PTL DEF PiSpec

(* No turn shows text from another turn's part of the session, and a       *)
(* cancelled or failed turn shows none.                                    *)
THEOREM AnswersStayApart == PiSpec => []AnswersDoNotCross
<1>1. PiInv => AnswersDoNotCross
  <2> SUFFICES ASSUME PiInv PROVE AnswersDoNotCross
    OBVIOUS
  <2>1. ASSUME NEW s \in PiTurns, NEW t \in PiTurns, s # t, piAnswer[s] # 0, dispatch[t].binding.user # 0
        PROVE  /\ dispatch[s].binding.user # dispatch[t].binding.user
               /\ dispatch[t].binding.user \notin dispatch[s].binding.user .. piAnswer[s]
    <3> DEFINE u == dispatch[s].binding.user
               v == dispatch[t].binding.user
               b == dispatch[s].binding.from
    <3>1. u # v
      BY <2>1 DEF PiInv, EntriesUnique
    <3>2. u \in Nat /\ v \in Nat /\ b \in Nat /\ piAnswer[s] \in Nat
      BY DEF PiInv, PiTypes, DispatchRows, BindingRows
    <3>3. piLog[v].kind \in UserEntries
      BY <2>1 DEF PiInv, RowOwns, OwnsUserEntry
    <3>4. b < u /\ \A n \in b .. piAnswer[s] : piLog[n].kind \in UserEntries => n = u
      BY <2>1 DEF PiInv, RowOwns, OwnsAnswer
    <3> HIDE DEF u, v, b
    <3>5. v \notin u .. piAnswer[s]
      BY <3>1, <3>2, <3>3, <3>4
    <3> QED
      BY <3>1, <3>5 DEF u, v
  <2>2. ASSUME NEW t \in PiTurns, piTurn[t] \in {"cancelled", "failed"} PROVE piAnswer[t] = 0
    BY <2>2 DEF PiInv, RowOwns, OwnsAnswer
  <2> QED
    BY <2>1, <2>2 DEF AnswersDoNotCross
<1> QED
  BY PiInvariance, <1>1, PTL
=============================================================================
