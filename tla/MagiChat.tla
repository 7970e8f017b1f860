------------------------------ MODULE MagiChat ------------------------------
(***************************************************************************)
(* Native chat: the turns of one conversation (MagiChatStore and           *)
(* MagiChatService) and the completion reports that Firstmate's verified   *)
(* outcomes generate in it (FirstmateExecutionService.wake).               *)
(*                                                                         *)
(* A message is one client_message_id with its reserved assistant row, a   *)
(* report one objective.completed event with its generated assistant row.  *)
(* One database transaction, model call or tool call is one action.  Every *)
(* attempt of a row is claimed once and runs as one asyncio task of the    *)
(* instance that claimed it; a cancelled task leaves the database call it  *)
(* was waiting for in a worker thread, which may still run.                *)
(***************************************************************************)
EXTENDS Integers, Sequences, FiniteSets

CONSTANTS
  Messages,      \* client message ids
  Reports,       \* objective.completed events, each a generation key
  Executing,     \* messages the host classifies as work for a tool
  Remembering,   \* conversation that asks Magi to remember something
  Unconfirmed,   \* high-impact messages sent without confirmation
  Gateways,      \* gateway instances
  MaxAttempts,   \* bound on the attempts of one message
  MaxWakes,      \* bound on the claims of one report
  MaxCrashes     \* bound on crashes

ASSUME ChatConstants ==
  /\ Messages \cap Reports = {}
  /\ Unconfirmed \cup Executing \cup Remembering \subseteq Messages
  /\ MaxAttempts \in Nat \ {0} /\ MaxWakes \in Nat /\ MaxCrashes \in 0 .. MaxWakes - 1

VARIABLES
  chatRow,     \* magi_messages: the assistant row of each key
  chatFeed,    \* magi_message_changes of the conversation
  chatRoute,   \* magi_turn_routes: the outcome recorded for each message
  chatCounts,  \* magi_chat_diagnostics of the owner
  chatTask,    \* chatTask[k, a]: the task that completes attempt a of k
  registry,    \* _completion_tasks: the attempt an instance can cancel
  canceller,   \* cancel requests that have still to write the row
  report,      \* generation_state and generation_attempt_count of each event
  reportTask,  \* reportTask[e, n]: the task of the n-th claim of e
  wakes,       \* wake calls that an instance has still to claim
  drain,       \* the tasks an instance's recovery drain waits for
  boot,        \* how far each instance has started
  chatCrashes  \* crashes so far

chatVars == <<chatRow, chatFeed, chatRoute, chatCounts, chatTask, registry, canceller>>
reportVars == <<report, reportTask, wakes, drain>>
magiVars == <<chatVars, reportVars, boot, chatCrashes>>

Keys == Messages \cup Reports
NoAttempt == 0
Attempts == (Messages \X (1 .. MaxAttempts)) \cup (Reports \X (1 .. MaxWakes))

(* by: the attempt whose text the row holds.                               *)
NoTurn == [status |-> "none", attempt |-> 0, rev |-> 0, by |-> NoAttempt]
NoTask == [pc |-> "none", at |-> "none", outcome |-> "none", loose |-> FALSE]
NoReport == [state |-> "none", n |-> 0]
NoGeneration == [pc |-> "none", at |-> "none", attempt |-> NoAttempt, seen |-> "none"]

Live(t) == t.pc \notin {"none", "done"}

(* _append_change: the next change of the conversation.                    *)
Change(k, role, rev) == [of |-> k, role |-> role, rev |-> rev]

(* Mutant: the feed is not told. *)
ReviseUnseen(k, status, attempt, by) ==
  chatRow' = [chatRow EXCEPT ![k] =
                [status |-> status, attempt |-> attempt, rev |-> @.rev + 1, by |-> by]]
  /\ chatFeed' = chatFeed

Revise(k, status, attempt, by) ==
  /\ chatRow' = [chatRow EXCEPT ![k] =
                   [status |-> status, attempt |-> attempt, rev |-> @.rev + 1, by |-> by]]
  /\ chatFeed' = Append(chatFeed, Change(k, "assistant", chatRow[k].rev + 1))

Count(name) == chatCounts' = [chatCounts EXCEPT ![name] = @ + 1]

(* complete_submission and fail_submission ignore an attempt that is no    *)
(* longer the pending one.                                                 *)
(* Mutant: only the status is compared. *)
FenceByStatus(k, a) == chatRow[k].status = "pending"

Fence(k, a) == chatRow[k].status = "pending" /\ chatRow[k].attempt = a
-----------------------------------------------------------------------------
MagiInit ==
  /\ chatRow = [k \in Keys |-> NoTurn]
  /\ chatFeed = << >>
  /\ chatRoute = [m \in Messages |-> "none"]
  /\ chatCounts = [submitted |-> 0, completed |-> 0, failed |-> 0, retries |-> 0]
  /\ chatTask = [x \in Attempts |-> NoTask]
  /\ registry = [i \in Gateways |-> [m \in Messages |-> NoAttempt]]
  /\ canceller = [i \in Gateways |-> {}]
  /\ report = [e \in Reports |-> NoReport]
  /\ reportTask = [x \in Reports \X (1 .. MaxWakes) |-> NoGeneration]
  /\ wakes = [i \in Gateways |-> {}]
  /\ drain = [i \in Gateways |-> {}]
  /\ boot = [i \in Gateways |-> "up"]
  /\ chatCrashes = 0
-----------------------------------------------------------------------------
(* prepare_submission: the first call inserts the pair and claims attempt  *)
(* 1, a retry of a failed row claims the next one.  Any other duplicate    *)
(* only reads.                                                             *)
PrepareSubmission(i, m) ==
  /\ boot[i] = "up"
  /\ LET a == chatRow[m].attempt + 1
     IN /\ a <= MaxAttempts
        /\ \/ /\ chatRow[m].status = "none"
              /\ chatRow' = [chatRow EXCEPT ![m] =
                               [status |-> "pending", attempt |-> 1, rev |-> 1, by |-> NoAttempt]]
              /\ chatFeed' = chatFeed \o <<Change(m, "user", 1), Change(m, "assistant", 1)>>
              /\ Count("submitted")
           \/ /\ chatRow[m].status = "failed"
              /\ Revise(m, "pending", a, NoAttempt)
              /\ Count("retries")
        /\ chatTask' = [chatTask EXCEPT ![<<m, a>>] = [NoTask EXCEPT !.pc = "claimed", !.at = i]]
  /\ UNCHANGED <<chatRoute, registry, canceller, reportVars, boot, chatCrashes>>

(* submit: the routing closure is written before the task exists ...       *)
RecordRouting(m, a) ==
  /\ chatTask[m, a].pc = "claimed"
  /\ chatRoute' = [chatRoute EXCEPT ![m] = "routing"]
  /\ chatTask' = [chatTask EXCEPT ![<<m, a>>].pc = "routed"]
  /\ UNCHANGED <<chatRow, chatFeed, chatCounts, registry, canceller, reportVars, boot, chatCrashes>>

(* ... which submit then creates and registers.                            *)
CreateTask(m, a) ==
  /\ chatTask[m, a].pc = "routed"
  /\ chatTask' = [chatTask EXCEPT ![<<m, a>>].pc = "model"]
  /\ registry' = [registry EXCEPT ![chatTask[m, a].at][m] = a]
  /\ UNCHANGED <<chatRow, chatFeed, chatRoute, chatCounts, canceller, reportVars, boot, chatCrashes>>

(* tools_enabled and _route_tool_definitions: the functions a turn offers. *)
(* Other messages lack command authority or carry attachments.             *)
ToolsEnabled(k) == k \in Executing \cup Remembering
Offered(k) == IF k \in Executing THEN {"objective"} ELSE {"remember", "respond"}

(* What a model call may return: one selected function, several, the whole *)
(* text or an incomplete one; error is a call that fails.                  *)
Selections == {"objective", "remember", "respond"}
Results == Selections \cup {"several", "text", "cut", "error"}

(* _validated_result: only a whole text without calls is an answer.        *)
Validated(r, outcome) ==
  IF r = "text" THEN <<"complete", outcome>> ELSE <<"fail", "failed">>

(* How _complete_submission goes on after the first call.                  *)
FirstStep(k, r) ==
  CASE ~ToolsEnabled(k) -> Validated(r, "direct-response")
    [] ToolsEnabled(k) /\ r = "respond" -> <<"direct", "none">>
    [] ToolsEnabled(k) /\ r \in Offered(k) \ {"respond"} -> <<"tool", r>>
    [] OTHER -> <<"fail", "failed">>

GoTo(k, a, x) == chatTask' = [chatTask EXCEPT ![<<k, a>>].pc = x[1], ![<<k, a>>].outcome = x[2]]

(* High-impact text is answered with the request to confirm it.            *)
Warn(k, a) ==
  /\ chatTask[k, a].pc = "model" /\ k \in Unconfirmed
  /\ GoTo(k, a, <<"complete", "confirmation-required">>)

FirstCall(k, a) ==
  /\ chatTask[k, a].pc = "model" /\ k \notin Unconfirmed
  /\ \E r \in Results : GoTo(k, a, FirstStep(k, r))

DirectCall(k, a) ==
  /\ chatTask[k, a].pc = "direct"
  /\ \E r \in Results : GoTo(k, a, Validated(r, "direct-response"))

(* tool_executor.execute, which may end in a MagiToolError.                *)
ToolCall(k, a) ==
  /\ chatTask[k, a].pc = "tool"
  /\ \/ GoTo(k, a, <<"fail", "failed">>)
     \/ GoTo(k, a, <<"acknowledge", IF chatTask[k, a].outcome = "remember" THEN "memory-saved"
                                    ELSE "objective-accepted">>)

(* An acknowledgement that fails is replaced by a fixed text.              *)
Acknowledge(k, a) ==
  /\ chatTask[k, a].pc = "acknowledge"
  /\ GoTo(k, a, <<"complete", chatTask[k, a].outcome>>)

Call(k, a) ==
  /\ Warn(k, a) \/ FirstCall(k, a) \/ DirectCall(k, a) \/ ToolCall(k, a) \/ Acknowledge(k, a)
  /\ UNCHANGED <<chatRow, chatFeed, chatRoute, chatCounts, registry, canceller, reportVars,
                 boot, chatCrashes>>

(* After its write a live task goes on, a thread that outlived it is gone. *)
AfterWrite(k, a) ==
  chatTask' = [chatTask EXCEPT ![<<k, a>>].pc =
                 IF chatTask[k, a].loose \/ k \in Reports THEN "done" ELSE "route"]

CompleteSubmission(k, a) ==
  /\ chatTask[k, a].pc = "complete"
  /\ \/ Fence(k, a) /\ Revise(k, "completed", chatRow[k].attempt, a) /\ Count("completed")
     \/ ~Fence(k, a) /\ UNCHANGED <<chatRow, chatFeed, chatCounts>>
  /\ AfterWrite(k, a)
  /\ UNCHANGED <<chatRoute, registry, canceller, reportVars, boot, chatCrashes>>

FailSubmission(k, a) ==
  /\ chatTask[k, a].pc = "fail"
  /\ \/ Fence(k, a) /\ Revise(k, "failed", chatRow[k].attempt, NoAttempt) /\ Count("failed")
     \/ ~Fence(k, a) /\ UNCHANGED <<chatRow, chatFeed, chatCounts>>
  /\ AfterWrite(k, a)
  /\ UNCHANGED <<chatRoute, registry, canceller, reportVars, boot, chatCrashes>>

(* The finally clause unregisters the task unless a newer one took over.   *)
Unregister(i, m, a) ==
  registry' = [registry EXCEPT ![i][m] = IF @ = a THEN NoAttempt ELSE @]

RecordRoute(m, a) ==
  /\ chatTask[m, a].pc = "route"
  /\ chatRoute' = [chatRoute EXCEPT ![m] = chatTask[m, a].outcome]
  /\ chatTask' = [chatTask EXCEPT ![<<m, a>>].pc = "done"]
  /\ Unregister(chatTask[m, a].at, m, a)
  /\ UNCHANGED <<chatRow, chatFeed, chatCounts, canceller, reportVars, boot, chatCrashes>>

(* A loose thread may also never have been started.                        *)
DropLoose(k, a) ==
  /\ chatTask[k, a].loose /\ Live(chatTask[k, a])
  /\ chatTask' = [chatTask EXCEPT ![<<k, a>>].pc = "done"]
  /\ UNCHANGED <<chatRow, chatFeed, chatRoute, chatCounts, registry, canceller, reportVars,
                 boot, chatCrashes>>
-----------------------------------------------------------------------------
(* MagiChatService.cancel: the registered task is cancelled and awaited,   *)
(* then cancel_submission closes the row if it is still pending.           *)
CancelTask(i, m) ==
  /\ boot[i] = "up" /\ chatRow[m].status # "none"
  /\ \A j \in Gateways : m \notin canceller[j]    \* one at a time
  /\ canceller' = [canceller EXCEPT ![i] = @ \cup {m}]
  /\ LET a == registry[i][m]
     IN \/ a = NoAttempt /\ UNCHANGED <<chatTask, registry>>
        \/ /\ a # NoAttempt
           /\ registry' = [registry EXCEPT ![i][m] = NoAttempt]
           /\ chatTask' = [chatTask EXCEPT ![<<m, a>>] =
                IF @.pc \in {"complete", "fail", "route"} THEN [@ EXCEPT !.loose = TRUE]
                ELSE [@ EXCEPT !.pc = "done"]]
  /\ UNCHANGED <<chatRow, chatFeed, chatRoute, chatCounts, reportVars, boot, chatCrashes>>

CancelSubmission(i, m) ==
  /\ m \in canceller[i]
  /\ canceller' = [canceller EXCEPT ![i] = @ \ {m}]
  /\ \/ /\ chatRow[m].status = "pending"
        /\ Revise(m, "cancelled", chatRow[m].attempt, NoAttempt)
        /\ chatRoute' = [chatRoute EXCEPT ![m] = IF @ = "none" THEN "none" ELSE "cancelled"]
     \/ chatRow[m].status # "pending" /\ UNCHANGED <<chatRow, chatFeed, chatRoute>>
  /\ UNCHANGED <<chatCounts, chatTask, registry, reportVars, boot, chatCrashes>>
-----------------------------------------------------------------------------
(* Deliveries and retries of a report wait for one another, not for its    *)
(* recovery.                                                               *)
Idle(e) == \A i \in Gateways : \A w \in wakes[i] : w.of = e => w.drain

(* FirstmateExecutionService.ingest of objective.completed: the first      *)
(* delivery queues the report, every delivery wakes it.                    *)
Ingest(i, e) ==
  /\ boot[i] = "up" /\ Idle(e)
  /\ report' = [report EXCEPT ![e].state = IF @ = "none" THEN "queued" ELSE @]
  /\ wakes' = [wakes EXCEPT ![i] = @ \cup {[of |-> e, retry |-> FALSE, drain |-> FALSE]}]
  /\ UNCHANGED <<chatVars, reportTask, drain, boot, chatCrashes>>

(* The wake endpoint with retry_failed.                                    *)
RetryReport(i, e) ==
  /\ boot[i] = "up" /\ Idle(e) /\ report[e].state # "none"
  /\ wakes' = [wakes EXCEPT ![i] = @ \cup {[of |-> e, retry |-> TRUE, drain |-> FALSE]}]
  /\ UNCHANGED <<chatVars, report, reportTask, drain, boot, chatCrashes>>

(* claim_completion.  The drain also waits for a task of this instance     *)
(* that holds the claim it did not get.  Retries stop short of MaxWakes by *)
(* the claims that crashes may still need.                                 *)
LocalTasks(i, e) == {x \in {e} \X (1 .. MaxWakes) : reportTask[x].at = i /\ Live(reportTask[x])}

ClaimCompletion(i, w) ==
  LET e == w.of
      n == report[e].n + 1
      eligible == \/ report[e].state = "queued"
                  \/ report[e].state = "failed" /\ w.retry /\ n <= MaxWakes - MaxCrashes
  IN /\ w \in wakes[i]
     /\ wakes' = [wakes EXCEPT ![i] = @ \ {w}]
     /\ \/ /\ eligible
           /\ report' = [report EXCEPT ![e] = [state |-> "generating", n |-> n]]
           /\ reportTask' = [reportTask EXCEPT ![<<e, n>>] =
                               [NoGeneration EXCEPT !.pc = "prepare", !.at = i]]
           /\ drain' = [drain EXCEPT ![i] = IF w.drain THEN @ \cup {<<e, n>>} ELSE @]
        \/ /\ ~eligible
           /\ drain' = [drain EXCEPT ![i] = IF w.drain THEN @ \cup LocalTasks(i, e) ELSE @]
           /\ UNCHANGED <<report, reportTask>>
     /\ UNCHANGED <<chatVars, boot, chatCrashes>>

(* prepare_generated_assistant: the first claim reserves the row, a later  *)
(* one may claim the next attempt of a failed row.                         *)
PrepareGenerated(e, n) ==
  LET a == chatRow[e].attempt + 1
      i == reportTask[e, n].at
      claim == /\ chatTask' = [chatTask EXCEPT ![<<e, a>>] =
                                 [NoTask EXCEPT !.pc = "model", !.at = i]]
               /\ reportTask' = [reportTask EXCEPT ![<<e, n>>].pc = "await", ![<<e, n>>].attempt = a]
  IN /\ reportTask[e, n].pc = "prepare"
     /\ \/ /\ chatRow[e].status = "none" /\ claim
           /\ Revise(e, "pending", 1, NoAttempt) /\ Count("submitted")
        \/ /\ chatRow[e].status = "failed" /\ n > 1 /\ claim
           /\ Revise(e, "pending", a, NoAttempt) /\ Count("retries")
        \/ /\ chatRow[e].status # "none" /\ ~(chatRow[e].status = "failed" /\ n > 1)
           /\ reportTask' = [reportTask EXCEPT ![<<e, n>>].pc = "read"]
           /\ UNCHANGED <<chatRow, chatFeed, chatCounts, chatTask>>
     /\ UNCHANGED <<chatRoute, registry, canceller, report, wakes, drain, boot, chatCrashes>>

(* generated_assistant: the status decides how the claim is finished.      *)
ReadGenerated(e, n) ==
  LET g == reportTask[e, n]
  IN /\ g.pc = "read" \/ (g.pc = "await" /\ ~Live(chatTask[e, g.attempt]))
     /\ reportTask' = [reportTask EXCEPT ![<<e, n>>].pc = "finish",
                         ![<<e, n>>].seen = IF chatRow[e].status = "completed" THEN "completed"
                                        ELSE "failed"]
     /\ UNCHANGED <<chatVars, report, wakes, drain, boot, chatCrashes>>

(* finish_completion: a completed report never regresses, and a state that *)
(* is not generating is a conflict, which ends the task.                   *)
(* Mutant: whatever the task saw is written. *)
FinishAnyway(e, n) ==
  /\ reportTask[e, n].pc = "finish"
  /\ report' = [report EXCEPT ![e].state = reportTask[e, n].seen]
  /\ reportTask' = [reportTask EXCEPT ![<<e, n>>].pc = "done"]
  /\ UNCHANGED <<chatVars, wakes, drain, boot, chatCrashes>>

FinishCompletion(e, n) ==
  /\ reportTask[e, n].pc = "finish"
  /\ report' = [report EXCEPT ![e].state =
                  IF @ = "generating" THEN reportTask[e, n].seen ELSE @]
  /\ reportTask' = [reportTask EXCEPT ![<<e, n>>].pc = "done"]
  /\ UNCHANGED <<chatVars, wakes, drain, boot, chatCrashes>>
-----------------------------------------------------------------------------
(* A crash takes the tasks, threads and calls of the instance with it.     *)
Gone(t, i) == IF t.at = i /\ Live(t) THEN [t EXCEPT !.pc = "done"] ELSE t

CrashGateway(i) ==
  /\ boot[i] # "down" /\ chatCrashes < MaxCrashes
  /\ chatCrashes' = chatCrashes + 1
  /\ boot' = [boot EXCEPT ![i] = "down"]
  /\ chatTask' = [x \in DOMAIN chatTask |-> Gone(chatTask[x], i)]
  /\ reportTask' = [x \in DOMAIN reportTask |-> Gone(reportTask[x], i)]
  /\ registry' = [registry EXCEPT ![i] = [m \in Messages |-> NoAttempt]]
  /\ canceller' = [canceller EXCEPT ![i] = {}]
  /\ wakes' = [wakes EXCEPT ![i] = {}]
  /\ drain' = [drain EXCEPT ![i] = {}]
  /\ UNCHANGED <<chatRow, chatFeed, chatRoute, chatCounts, report>>

(* recover_orphaned_pending: one transaction fails every pending row, in   *)
(* some order of the rows.                                                 *)
PendingKeys == {k \in Keys : chatRow[k].status = "pending"}
Orders(S) == {s \in [1 .. Cardinality(S) -> S] : \A x \in S : \E n \in DOMAIN s : s[n] = x}

FailuresCounted == chatCounts' = [chatCounts EXCEPT !.failed = @ + Cardinality(PendingKeys)]

RecoverOrphanedPending(i) ==
  /\ boot[i] = "down"
  /\ boot' = [boot EXCEPT ![i] = "reports"]
  /\ chatRow' = [k \in Keys |->
       IF k \in PendingKeys
         THEN [chatRow[k] EXCEPT !.status = "failed", !.rev = @ + 1] ELSE chatRow[k]]
  /\ \E s \in Orders(PendingKeys) :
       chatFeed' = chatFeed \o [n \in DOMAIN s |-> Change(s[n], "assistant", chatRow[s[n]].rev + 1)]
  /\ chatRoute' = [m \in Messages |->
       IF m \in PendingKeys /\ chatRoute[m] # "none" THEN "failed" ELSE chatRoute[m]]
  /\ FailuresCounted
  /\ UNCHANGED <<chatTask, registry, canceller, reportVars, chatCrashes>>

(* recover_interrupted: every generating claim goes back to the queue, the *)
(* claims of other instances included.                                     *)
(* Mutant: nothing is requeued. *)
RequeueNothing(i) ==
  /\ boot[i] = "reports"
  /\ boot' = [boot EXCEPT ![i] = "queue"]
  /\ UNCHANGED <<chatVars, reportVars, chatCrashes>>

RecoverInterrupted(i) ==
  /\ boot[i] = "reports"
  /\ boot' = [boot EXCEPT ![i] = "queue"]
  /\ report' = [e \in Reports |->
       IF report[e].state = "generating" THEN [report[e] EXCEPT !.state = "queued"] ELSE report[e]]
  /\ UNCHANGED <<chatVars, reportTask, wakes, drain, chatCrashes>>

Queued == {[of |-> e, retry |-> FALSE, drain |-> TRUE] :
             e \in {r \in Reports : report[r].state = "queued"}}

(* queued_completions, woken one by one before the instance serves.        *)
ReadQueue(i) ==
  /\ boot[i] = "queue"
  /\ boot' = [boot EXCEPT ![i] = "wake"]
  /\ wakes' = [wakes EXCEPT ![i] = @ \cup Queued]
  /\ UNCHANGED <<chatVars, report, reportTask, drain, chatCrashes>>

Serve(i) ==
  /\ boot[i] = "wake" /\ wakes[i] = {}
  /\ boot' = [boot EXCEPT ![i] = "up"]
  /\ UNCHANGED <<chatVars, reportVars, chatCrashes>>

(* _drain_recovery: when the tasks have ended it reads the queue again, and*)
(* ends when that gave it no task to wait for.                             *)
DrainAgain(i) ==
  /\ boot[i] = "up" /\ drain[i] # {}
  /\ \A w \in wakes[i] : ~w.drain
  /\ \A x \in drain[i] : ~Live(reportTask[x])
  /\ drain' = [drain EXCEPT ![i] = {}]
  /\ wakes' = [wakes EXCEPT ![i] = @ \cup Queued]
  /\ UNCHANGED <<chatVars, report, reportTask, boot, chatCrashes>>
-----------------------------------------------------------------------------
TurnStep(m, a) == RecordRouting(m, a) \/ CreateTask(m, a) \/ RecordRoute(m, a)
AttemptStep(k, a) == Call(k, a) \/ CompleteSubmission(k, a) \/ FailSubmission(k, a)
ReportStep(e, n) == PrepareGenerated(e, n) \/ ReadGenerated(e, n) \/ FinishCompletion(e, n)
BootStep(i) ==
  RecoverOrphanedPending(i) \/ RecoverInterrupted(i) \/ ReadQueue(i) \/ Serve(i)

MagiNext ==
  \/ \E i \in Gateways, m \in Messages :
       PrepareSubmission(i, m) \/ CancelTask(i, m) \/ CancelSubmission(i, m)
  \/ \E m \in Messages, a \in 1 .. MaxAttempts : TurnStep(m, a)
  \/ \E x \in Attempts : AttemptStep(x[1], x[2]) \/ DropLoose(x[1], x[2])
  \/ \E i \in Gateways, e \in Reports : Ingest(i, e) \/ RetryReport(i, e)
  \/ \E i \in Gateways : \E w \in wakes[i] : ClaimCompletion(i, w)
  \/ \E e \in Reports, n \in 1 .. MaxWakes : ReportStep(e, n)
  \/ \E i \in Gateways : CrashGateway(i) \/ BootStep(i) \/ DrainAgain(i)

(* The event loop runs every task and every accepted request to its end,   *)
(* the process manager restarts a gateway.  Submissions, cancellations,    *)
(* deliveries and crashes need not happen.                                 *)
MagiFairness ==
  /\ \A m \in Messages, a \in 1 .. MaxAttempts : WF_magiVars(TurnStep(m, a))
  /\ \A x \in Attempts : WF_magiVars(AttemptStep(x[1], x[2]))
  /\ \A e \in Reports, n \in 1 .. MaxWakes : WF_magiVars(ReportStep(e, n))
  /\ \A i \in Gateways : WF_magiVars(BootStep(i)) /\ WF_magiVars(DrainAgain(i))
  /\ \A i \in Gateways, m \in Messages : WF_magiVars(CancelSubmission(i, m))
  /\ \A i \in Gateways, e \in Reports, r, d \in BOOLEAN :
       WF_magiVars(ClaimCompletion(i, [of |-> e, retry |-> r, drain |-> d]))

MagiSpec == MagiInit /\ [][MagiNext]_magiVars /\ MagiFairness
-----------------------------------------------------------------------------
(* Replay by change cursor misses nothing: the feed holds every revision   *)
(* of every assistant row, in order, the current one last, across retries, *)
(* cancellations, late threads and restart recovery.                       *)
RowChanges(k) == {n \in DOMAIN chatFeed : chatFeed[n].of = k /\ chatFeed[n].role = "assistant"}
FeedComplete ==
  \A k \in Keys :
    /\ {chatFeed[n].rev : n \in RowChanges(k)} = 1 .. chatRow[k].rev
    /\ \A i, j \in RowChanges(k) : i < j => chatFeed[i].rev < chatFeed[j].rev

(* The diagnostics of the owner agree with the rows whatever mix of        *)
(* failures, retries and restart recovery led to them.                     *)
Having(statuses) == {k \in Keys : chatRow[k].status \in statuses}
CountsAddUp ==
  /\ chatCounts.submitted = Cardinality(Having({"pending", "completed", "failed", "cancelled"}))
  /\ chatCounts.completed = Cardinality(Having({"completed"}))
  /\ chatCounts.failed - chatCounts.retries = Cardinality(Having({"failed"}))

(* Feed and diagnostics of MagiChatStore agree with the message rows.      *)
ChatRecordsAgree == FeedComplete /\ CountsAddUp

(* A late attempt never overwrites a newer one: an answered or cancelled   *)
(* turn keeps its row, a failed one is only reopened by the next attempt,  *)
(* and an answer is the text of the attempt that was pending.              *)
TurnsOnlyAdvance ==
  [][\A k \in Keys :
       \/ chatRow'[k] = chatRow[k]
       \/ /\ chatRow[k].status \notin {"completed", "cancelled"}
          /\ chatRow[k].status = "failed" => /\ chatRow'[k].status = "pending"
                                             /\ chatRow'[k].attempt = chatRow[k].attempt + 1
          /\ chatRow'[k].status = "completed" => chatRow'[k].by = chatRow[k].attempt]_magiVars

(* A report counted as delivered is in the conversation, and stays counted *)
(* however many instances generate it: the claim of another instance that  *)
(* recovery requeued cannot take it back.                                  *)
ReportsAreDelivered ==
  [][\A e \in Reports :
       /\ report'[e].state = "completed" => chatRow'[e].status = "completed"
       /\ report[e].state = "completed" => report'[e].state = "completed"]_magiVars

(* No turn is left pending and no report queued or being generated: the    *)
(* task that claimed it ends it, or the next start does.  Submissions and  *)
(* deliveries are bounded, so that in the end nothing is under way.        *)
Unsettled ==
  \/ \E k \in Keys : chatRow[k].status = "pending"
  \/ \E e \in Reports : report[e].state \in {"queued", "generating"}
TurnsSettle == Unsettled ~> ~Unsettled
=============================================================================
