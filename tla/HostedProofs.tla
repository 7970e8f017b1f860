---------------------------- MODULE HostedProofs ----------------------------
(***************************************************************************)
(* Proofs about HostedExecution for any number of objectives, instances,   *)
(* tenants, crashes and faults.                                            *)
(***************************************************************************)
EXTENDS HostedExecution, FiniteSetTheorems, TLAPS

-----------------------------------------------------------------------------
(* The inductive invariant.  The safety properties are not inductive by    *)
(* themselves: a controller or a handler acts on what it read or did some  *)
(* steps ago, so the strengthening says, for each label, what is still     *)
(* true of the objective the process is at.                                *)
AcceptedLabels ==
  {"launchEnsure", "launched", "ingest", "settle", "mark", "cancel", "status", "ensure", "started"}

ControllerInv(c) ==
  /\ ctl[c].pc \in {"cancel", "status", "ensure", "started"} => ctl[c].list = "active"
  /\ ctl[c].pc \in {"accept", "ingest", "settle", "mark"} => ctl[c].list \in {"cancels", "active"}
  /\ ctl[c].pc \in {"delete", "cleaned"} => ctl[c].list = "cleanup"
  /\ ctl[c].pc \in AcceptedLabels => fact[ctl[c].o].accepted
  /\ ctl[c].list = "active" => \A i \in ctl[c].todo : fact[i.o].accepted
  /\ ctl[c].pc = "settle" => fact[ctl[c].o].terminal = ObservedEvent(c)

ObjectiveInv(o) ==
  /\ run[o].state \in {"running", "terminal"} \/ allocated[o] => fact[o].accepted
  /\ backend[o] \in {"queued", "running"} => fact[o].accepted
  /\ post[o].pc # "idle" => fact[o].accepted
  /\ post[o].pc = "settle" => fact[o].terminal = Worker(post[o].phase)
  /\ bill[o].status = "settled" => bill[o].event = fact[o].terminal /\ fact[o].terminal # NoEvent
  /\ fact[o].terminal # NoEvent => fact[o].accepted

IInv == /\ TypeOK
        /\ \A c \in Controllers : ControllerInv(c)
        /\ \A o \in Objectives : ObjectiveInv(o)
-----------------------------------------------------------------------------
(* Lemmas: what the building blocks of the actions do to their variable.   *)

(* Where NextItem, Wake and ReadList take a controller.                    *)
AtItem(r, list) ==
  /\ r \in Locals
  /\ r.list = list
  /\ r.pc \in {"read", "accept", "delete", "mark", "cancel", "status"}

(* A loop that goes on is at an item of its list, or at its end.           *)
LEMMA FollowingItem ==
  ASSUME NEW list \in Lists, NEW todo \in SUBSET Items, NEW r \in Following(list, todo)
  PROVE  AtItem(r, list)
<1>1. CASE todo = {}
  <2>1. r = [Idle EXCEPT !.pc = "read", !.list = list]
    BY <1>1 DEF Following
  <2> QED
    BY <2>1 DEF AtItem, Locals, Between, Idle, Labels, Lists, BackendStates
<1>2. CASE todo # {}
  <2>1. PICK i \in Oldest(todo) :
          r = [Idle EXCEPT !.pc = FirstStep(list, i), !.list = list, !.todo = todo \ {i}, !.o = i.o]
    BY <1>2 DEF Following
  <2>2. i \in Items /\ i.o \in Objectives
    BY <2>1 DEF Oldest, Items
  <2>3. FirstStep(list, i) \in {"accept", "delete", "mark", "cancel", "status"}
    BY DEF FirstStep
  <2> QED
    BY <2>1, <2>2, <2>3 DEF AtItem, Locals, Idle, Labels, Lists, BackendStates
<1> QED
  BY <1>1, <1>2

(* Reading a list and going on keeps the locals well typed.                *)
LEMMA ContinueType ==
  ASSUME ctl \in [Controllers -> Locals], NEW c \in Controllers,
         NEW list \in Lists, NEW todo \in SUBSET Items, Continue(c, list, todo)
  PROVE  ctl' \in [Controllers -> Locals]
BY FollowingItem DEF Continue, AtItem

(* So does moving to the next item of the list that was read.              *)
LEMMA NextItemType ==
  ASSUME ctl \in [Controllers -> Locals], NEW c \in Controllers, NextItem(c)
  PROVE  ctl' \in [Controllers -> Locals]
BY ContinueType DEF NextItem, Locals

(* Outside idle, read and claim a controller is at an objective.           *)
LEMMA CurrentObjective ==
  ASSUME ctl \in [Controllers -> Locals], NEW c \in Controllers, ctl[c].pc \notin Between
  PROVE  ctl[c].o \in Objectives
BY DEF Locals

(* Moving to another label keeps the locals well typed.                    *)
LEMMA GotoType ==
  ASSUME ctl \in [Controllers -> Locals], NEW c \in Controllers, ctl[c].pc \notin Between,
         NEW label \in Labels, Goto(c, label)
  PROVE  ctl' \in [Controllers -> Locals]
BY DEF Goto, Locals

(* An exception in the loop of run resets the locals.                      *)
LEMMA RaiseType ==
  ASSUME ctl \in [Controllers -> Locals], NEW c \in Controllers, Raise(c)
  PROVE  ctl' \in [Controllers -> Locals]
BY DEF Raise, Idle, Locals, Between, Labels, Lists, BackendStates

(* The observed backend state is kept for worker.started.                  *)
LEMMA StartedLabelType ==
  ASSUME NEW r \in Locals, NEW b \in BackendStates, r.o \in Objectives
  PROVE  [r EXCEPT !.pc = "started", !.obs = b] \in Locals
BY DEF Locals, Labels

(* The locals of process_once after a claim.                               *)
LEMMA LaunchLabelType ==
  ASSUME NEW o \in Objectives, NEW n \in Nat
  PROVE  [Idle EXCEPT !.pc = "launchAccept", !.o = o, !.lease = n] \in Locals
BY DEF Idle, Locals, Between, Labels, Lists, BackendStates

(* The locals of process_once before a claim.                              *)
LEMMA ClaimLabelType ==
  ASSUME ctl \in [Controllers -> Locals], NEW c \in Controllers,
         ctl' = [ctl EXCEPT ![c] = [Idle EXCEPT !.pc = "claim"]]
  PROVE  ctl' \in [Controllers -> Locals]
BY DEF Idle, Locals, Between, Labels, Lists, BackendStates

(* The lists a controller reads are lists of items.                        *)
LEMMA ItemType ==
  ASSUME NEW o \in Objectives
  PROVE  Item(o) \in Items
<1>1. (fact[o].terminal # NoEvent) \in BOOLEAN /\ (request[o] = "requested") \in BOOLEAN
  OBVIOUS
<1> QED
  BY <1>1, Zenon DEF Item, Items

(* queued_cancellations, active and pending_cleanup return items.          *)
LEMMA ListsRead ==
  /\ QueuedCancellations \in SUBSET Items
  /\ ActiveRuns \in SUBSET Items
  /\ PendingCleanup \in SUBSET Items
BY ItemType, Zenon DEF QueuedCancellations, ActiveRuns, PendingCleanup, RunsIn

(* Events: what they are and the phase they report.                        *)
LEMMA EventFacts ==
  /\ NoEvent \in Events /\ Prelaunch \in Events /\ Prelaunch # NoEvent
  /\ \A b \in BackendStates : Exit(b) \in Events /\ Exit(b) # NoEvent /\ Exit(b)[2] \in TerminalPhases
  /\ \A q \in TerminalPhases : Worker(q) \in Events /\ Worker(q) # NoEvent /\ Worker(q)[2] = q
  /\ Prelaunch[2] \in TerminalPhases
  /\ \A e \in Events : e # NoEvent => e[2] \in TerminalPhases
BY DEF Events, NoEvent, Prelaunch, Exit, Worker, TerminalPhases

(* reconcile_once reports a terminal event.                                *)
LEMMA ObservedType ==
  ASSUME ctl \in [Controllers -> Locals], NEW c \in Controllers
  PROVE  ObservedEvent(c) \in Events /\ ObservedEvent(c) # NoEvent
BY EventFacts DEF ObservedEvent, Locals

(* ingest keeps the objective and request rows well typed.                 *)
LEMMA IngestType ==
  ASSUME fact \in [Objectives -> Facts], request \in [Objectives -> Requests],
         NEW o \in Objectives, NEW e \in Events, IngestTerminal(o, e)
  PROVE  fact' \in [Objectives -> Facts] /\ request' \in [Objectives -> Requests]
BY DEF IngestTerminal, Facts, Requests, Answer

(* So does the ingest of the accepted event.                               *)
LEMMA AcceptedType ==
  ASSUME fact \in [Objectives -> Facts], NEW o \in Objectives, AcceptedEvent(o)
  PROVE  fact' \in [Objectives -> Facts]
BY DEF AcceptedEvent, Facts

(* So does the ingest of worker.started.                                   *)
LEMMA StartedType ==
  ASSUME fact \in [Objectives -> Facts], NEW o \in Objectives,
         fact' = [fact EXCEPT ![o].started = TRUE]
  PROVE  fact' \in [Objectives -> Facts]
BY DEF Facts

(* settle_objective keeps the reservation well typed.                      *)
LEMMA SettleType ==
  ASSUME bill \in [Objectives -> Bills], NEW o \in Objectives, NEW e \in Events, Settle(o, e)
  PROVE  bill' \in [Objectives -> Bills]
BY DEF Settle, Bills

(* mark_terminal keeps the run rows well typed.                            *)
LEMMA MarkType ==
  ASSUME run \in [Objectives -> Rows], NEW o \in Objectives, MarkTerminal(o)
  PROVE  run' \in [Objectives -> Rows]
BY DEF MarkTerminal, Retired, Rows, RunStates

(* The rows claim inserts and launch_failed writes.                        *)
LEMMA RowTypes == Queued \in Rows /\ NoRun \in Rows /\ Queued.state = "queued"
BY DEF Queued, NoRun, Rows, RunStates

(* The rows claim and launched write.                                      *)
LEMMA LaunchRowTypes ==
  ASSUME NEW r \in Rows, NEW n \in Nat
  PROVE  /\ [r EXCEPT !.state = "launching", !.lease = n, !.expired = FALSE] \in Rows
         /\ [r EXCEPT !.state = "running", !.lease = 0, !.expired = FALSE] \in Rows
BY DEF Rows, RunStates

(* The rows after claim has inserted and recovered runs.                   *)
LEMMA RefreshedType ==
  ASSUME run \in [Objectives -> Rows]
  PROVE  Refreshed \in [Objectives -> Rows]
BY RowTypes DEF Refreshed

(* PUT, cancel and DELETE keep the backend well typed.                     *)
LEMMA BackendType ==
  ASSUME backend \in [Objectives -> BackendStates], NEW o \in Objectives
  PROVE  /\ Ensured(backend, o) \in [Objectives -> BackendStates]
         /\ Cancelled(backend, o) \in [Objectives -> BackendStates]
         /\ Deleted(backend, o) \in [Objectives -> BackendStates]
BY DEF Ensured, Cancelled, Deleted, BackendStates

(* The handler of post_hosted_event and its labels.                        *)
LEMMA PostTypes == /\ PostDone \in Posts
                   /\ \A p \in TerminalPhases : PostEvent(p) \in Posts
BY DEF PostDone, PostEvent, Posts

(* A handler that has an event to post keeps it.                           *)
LEMMA PostGotoType ==
  ASSUME post \in [Objectives -> Posts], NEW o \in Objectives, post[o].pc # "idle",
         NEW label \in {"settle", "mark"}, post' = [post EXCEPT ![o].pc = label]
  PROVE  post' \in [Objectives -> Posts]
BY DEF Posts

(* A posting handler reports a terminal event.                             *)
LEMMA PostedEvent ==
  ASSUME post \in [Objectives -> Posts], NEW o \in Objectives, post[o].pc # "idle"
  PROVE  Worker(post[o].phase) \in Events /\ Worker(post[o].phase) # NoEvent
BY EventFacts DEF Posts

(* The fault counter stays a natural number.                               *)
LEMMA FaultType == ASSUME faults \in Nat, Fault PROVE faults' \in Nat
BY DEF Fault

-----------------------------------------------------------------------------
(* Every action keeps every variable in its type.                          *)
LEMMA TypeStep == TypeOK /\ [Next]_vars => TypeOK'
<1> SUFFICES ASSUME TypeOK, [Next]_vars PROVE TypeOK'
  OBVIOUS
<1> USE DEF TypeOK
<1>u. CASE UNCHANGED vars
  BY <1>u DEF vars
<1>c. ASSUME NEW c \in Controllers, Reconcile(c) \/ Process(c) \/ Crash(c) PROVE TypeOK'
  <2>0. ctl[c].pc \notin Between => ctl[c].o \in Objectives
    BY CurrentObjective
  <2>1. CASE Wake(c)
    BY <2>1, ContinueType, ListsRead DEF Wake, durable, external, Lists
  <2>2. CASE ReadList(c)
    BY <2>2, ContinueType, ClaimLabelType, ListsRead DEF ReadList, durable, external, Lists
  <2>3. CASE CancelAccept(c)
    BY <2>0, <2>3, AcceptedType, GotoType DEF CancelAccept, external, Between, Labels
  <2>4. CASE ReconcileIngest(c)
    BY <2>0, <2>4, IngestType, ObservedType, GotoType, RaiseType
    DEF ReconcileIngest, external, Between, Labels
  <2>5. CASE ReconcileSettle(c)
    BY <2>0, <2>5, SettleType, ObservedType, GotoType, RaiseType, FaultType
    DEF ReconcileSettle, external, Between, Labels
  <2>6. CASE ReconcileMark(c)
    BY <2>0, <2>6, MarkType, NextItemType DEF ReconcileMark, external, Between
  <2>7. CASE ReconcileCancel(c)
    BY <2>0, <2>7, BackendType, GotoType, RaiseType, FaultType
    DEF ReconcileCancel, durable, Between, Labels
  <2>8. CASE ReconcileStatus(c)
    <3>1. CASE ctl' = [ctl EXCEPT ![c].pc = "started", ![c].obs = backend[ctl[c].o]]
      <4>1. ctl' \in [Controllers -> Locals]
        BY <2>0, <2>8, <3>1, StartedLabelType DEF ReconcileStatus, Between
      <4> QED
        BY <2>8, <4>1, FaultType DEF ReconcileStatus, durable, external
    <3>2. CASE Goto(c, "ensure") \/ NextItem(c) \/ Raise(c)
      <4>1. ctl' \in [Controllers -> Locals]
        BY <2>8, <3>2, GotoType, NextItemType, RaiseType DEF ReconcileStatus, Between, Labels
      <4> QED
        BY <2>8, <4>1, FaultType DEF ReconcileStatus, durable, external
    <3> QED
      BY <2>8, <3>1, <3>2 DEF ReconcileStatus
  <2>9. CASE ReconcileEnsure(c)
    BY <2>0, <2>9, BackendType, NextItemType, RaiseType, FaultType
    DEF ReconcileEnsure, durable, Between
  <2>10. CASE ReconcileStarted(c)
    BY <2>0, <2>10, StartedType, GotoType, NextItemType, RaiseType
    DEF ReconcileStarted, external, Between, Labels
  <2>11. CASE CleanupDelete(c)
    BY <2>0, <2>11, BackendType, GotoType, RaiseType, FaultType
    DEF CleanupDelete, durable, Between, Labels
  <2>12. CASE CleanupCleaned(c)
    <3>1. run' \in [Objectives -> Rows]
      BY <2>0, <2>12 DEF CleanupCleaned, Rows, Between
    <3> QED
      BY <2>12, <3>1, NextItemType DEF CleanupCleaned, external
  <2>13. CASE ClaimNothing(c)
    BY <2>13, RefreshedType, RaiseType DEF ClaimNothing, external
  <2>14. CASE ClaimRun(c)
    <3>1. PICK o \in Candidates :
            /\ run' = [Refreshed EXCEPT ![o] =
                         [@ EXCEPT !.state = "launching", !.lease = leases + 1, !.expired = FALSE]]
            /\ ctl' = [ctl EXCEPT ![c] =
                         [Idle EXCEPT !.pc = "launchAccept", !.o = o, !.lease = leases + 1]]
      BY <2>14 DEF ClaimRun
    <3>2. o \in Objectives
      BY <3>1 DEF Candidates
    <3>3. run' \in [Objectives -> Rows]
      <4>1. Refreshed \in [Objectives -> Rows] /\ Refreshed[o] \in Rows /\ leases + 1 \in Nat
        BY <3>2, RefreshedType
      <4>2. [Refreshed[o] EXCEPT !.state = "launching", !.lease = leases + 1, !.expired = FALSE] \in Rows
        BY <4>1, LaunchRowTypes
      <4> QED
        BY <3>1, <3>2, <4>1, <4>2
    <3>4. ctl' \in [Controllers -> Locals]
      <4>1. [Idle EXCEPT !.pc = "launchAccept", !.o = o, !.lease = leases + 1] \in Locals
        <5>1. leases + 1 \in Nat
          OBVIOUS
        <5> QED
          BY <3>2, <5>1, LaunchLabelType
      <4> QED
        BY <3>1, <4>1
    <3> QED
      BY <2>14, <3>3, <3>4 DEF ClaimRun, external
  <2>15. CASE LaunchAccept(c)
    BY <2>0, <2>15, AcceptedType, GotoType DEF LaunchAccept, external, Between, Labels
  <2>16. CASE LaunchEnsure(c)
    BY <2>0, <2>16, BackendType, GotoType, FaultType DEF LaunchEnsure, durable, Between, Labels
  <2>17. CASE Launched(c)
    <3>1. run' \in [Objectives -> Rows]
      <4>1. ctl[c].o \in Objectives /\ run[ctl[c].o] \in Rows
        BY <2>0, <2>17 DEF Launched, Between
      <4>2. [run[ctl[c].o] EXCEPT !.state = "running", !.lease = 0, !.expired = FALSE] \in Rows
        BY <4>1, LaunchRowTypes
      <4> QED
        BY <2>17, <4>1, <4>2 DEF Launched
    <3>2. ctl' \in [Controllers -> Locals]
      BY <2>17, ClaimLabelType, GotoType DEF Launched, Between, Labels
    <3> QED
      BY <2>17, <3>1, <3>2 DEF Launched, external
  <2>18. CASE LaunchFailed(c)
    BY <2>0, <2>18, RowTypes, RaiseType DEF LaunchFailed, external, Between
  <2>19. CASE Crash(c)
    BY <2>19, RaiseType DEF Crash, durable, external
  <2> QED
    BY <1>c, <2>1, <2>2, <2>3, <2>4, <2>5, <2>6, <2>7, <2>8, <2>9, <2>10, <2>11, <2>12, <2>13,
       <2>14, <2>15, <2>16, <2>17, <2>18, <2>19
    DEF Reconcile, Process
<1>o. ASSUME NEW o \in Objectives,
             \/ Submit(o) \/ RetryCancellation(o)
             \/ NotifyRead(o) \/ NotifyRun(o) \/ NotifyCancel(o)
             \/ Handle(o) \/ PostCrash(o) \/ LeaseExpires(o)
             \/ BackendStart(o) \/ BackendExit(o) \/ BackendLoses(o)
             \/ RequestCancellation(o)
      PROVE  TypeOK'
  <2>1. CASE Submit(o)
    <3>1. Cardinality({p \in Objectives : arrival[p] > 0}) \in Nat
      BY FinitenessAssumption, FS_Subset, FS_CardinalityType
    <3>2. bill' \in [Objectives -> Bills]
      BY <2>1 DEF Submit, Bills
    <3> QED
      BY <2>1, <3>1, <3>2 DEF Submit, external
  <2>2. CASE NotifyRead(o) \/ NotifyRun(o) \/ RetryCancellation(o)
    BY <2>2 DEF NotifyRead, NotifyRun, RetryCancellation, durable, external
  <2>3. CASE NotifyCancel(o)
    BY <2>3, BackendType, FaultType DEF NotifyCancel, durable
  <2>4. CASE PostIngest(o)
    BY <2>4, IngestType, PostedEvent, PostGotoType, PostTypes DEF PostIngest, external
  <2>5. CASE PostSettle(o)
    BY <2>5, SettleType, PostedEvent, PostGotoType, PostTypes, FaultType DEF PostSettle, external
  <2>6. CASE PostMark(o)
    BY <2>6, MarkType, PostTypes DEF PostMark, external
  <2>7. CASE PostCrash(o)
    BY <2>7, PostTypes DEF PostCrash, durable, external
  <2>8. CASE LeaseExpires(o)
    <3>1. run' \in [Objectives -> Rows]
      BY <2>8 DEF LeaseExpires, Rows
    <3> QED
      BY <2>8, <3>1, FaultType DEF LeaseExpires, external
  <2>9. CASE BackendStart(o)
    BY <2>9 DEF BackendStart, durable, BackendStates
  <2>10. CASE BackendExit(o)
    BY <2>10 DEF BackendExit, durable, BackendStates
  <2>11. CASE BackendLoses(o)
    BY <2>11, BackendType, FaultType DEF BackendLoses, durable
  <2>12. CASE RequestCancellation(o)
    BY <2>12 DEF RequestCancellation, external, Requests
  <2> QED
    BY <1>o, <2>1, <2>2, <2>3, <2>4, <2>5, <2>6, <2>7, <2>8, <2>9, <2>10, <2>11, <2>12 DEF Handle
<1>p. ASSUME NEW o \in Objectives, NEW p \in WorkerPhases, PostAuthenticate(o, p) PROVE TypeOK'
  BY <1>p, PostTypes, InputAssumption DEF PostAuthenticate, durable, external, TerminalPhases
<1> QED
  BY <1>u, <1>c, <1>o, <1>p, InputAssumption DEF Next

-----------------------------------------------------------------------------
(* The ledger only grows: what a process knew about an objective's facts   *)
(* when it last looked is still so.                                        *)
FactStep ==
  \A o \in Objectives :
    /\ fact[o].accepted => fact'[o].accepted
    /\ fact[o].terminal # NoEvent => fact'[o].terminal = fact[o].terminal
    /\ fact'[o].terminal # NoEvent => fact'[o].accepted

(* A step that leaves the ledger alone is a ledger step.                   *)
LEMMA FactUnchanged == ASSUME IInv, UNCHANGED fact PROVE FactStep
BY DEF IInv, ObjectiveInv, FactStep

(* The accepted event is a ledger step.                                    *)
LEMMA FactAccepted ==
  ASSUME IInv, NEW o \in Objectives, AcceptedEvent(o)
  PROVE  FactStep /\ fact'[o].accepted
BY DEF IInv, TypeOK, Facts, ObjectiveInv, FactStep, AcceptedEvent

(* worker.started is a ledger step.                                        *)
LEMMA FactStarted ==
  ASSUME IInv, NEW o \in Objectives, fact' = [fact EXCEPT ![o].started = TRUE]
  PROVE  FactStep
BY DEF IInv, TypeOK, Facts, ObjectiveInv, FactStep

(* The ingest of a terminal event is a ledger step.                        *)
LEMMA FactIngested ==
  ASSUME IInv, NEW o \in Objectives, NEW e \in Events, e # NoEvent, IngestTerminal(o, e)
  PROVE  FactStep /\ fact'[o].terminal = e
BY DEF IInv, TypeOK, Facts, ObjectiveInv, FactStep, IngestTerminal, IngestAccepts

(* Processes and objectives a step does not touch.                         *)
LEMMA KeptController ==
  ASSUME IInv, FactStep, NEW c \in Controllers, ctl'[c] = ctl[c]
  PROVE  ControllerInv(c)'
<1>1. ctl[c] \in Locals /\ ControllerInv(c)
  BY DEF IInv, TypeOK
<1>2. ctl[c].pc \in AcceptedLabels => ctl[c].o \in Objectives
  BY <1>1 DEF Locals, AcceptedLabels, Between
<1>3. \A i \in ctl[c].todo : i.o \in Objectives
  BY <1>1 DEF Locals, Items
<1>4. ObservedEvent(c)' = ObservedEvent(c) /\ ObservedEvent(c) # NoEvent
  BY ObservedType DEF ObservedEvent, IInv, TypeOK
<1> QED
  BY <1>1, <1>2, <1>3, <1>4 DEF ControllerInv, FactStep, AcceptedLabels

(* An objective whose rows a step leaves alone keeps its invariant.        *)
LEMMA KeptObjective ==
  ASSUME IInv, FactStep, NEW o \in Objectives,
         run'[o].state = run[o].state, allocated'[o] = allocated[o], backend'[o] = backend[o],
         post'[o] = post[o], bill'[o] = bill[o]
  PROVE  ObjectiveInv(o)'
<1>1. post[o].pc = "settle" => Worker(post[o].phase) # NoEvent
  BY PostedEvent DEF IInv, TypeOK
<1> QED
  BY <1>1 DEF IInv, ObjectiveInv, FactStep

(* Where a controller goes.                                                *)
LEMMA RaiseInv ==
  ASSUME IInv, FactStep, NEW c \in Controllers, Raise(c)
  PROVE  \A d \in Controllers : ControllerInv(d)'
<1>1. ControllerInv(c)'
  BY DEF Raise, Idle, ControllerInv, AcceptedLabels, IInv, TypeOK
<1>2. \A d \in Controllers \ {c} : ctl'[d] = ctl[d]
  BY DEF Raise, IInv, TypeOK
<1> QED
  BY <1>1, <1>2, KeptController

(* Going on with a list establishes the invariant of its label.            *)
LEMMA ContinueInv ==
  ASSUME IInv, FactStep, NEW c \in Controllers, NEW list \in {"cancels", "active", "cleanup"},
         NEW todo \in SUBSET Items, Continue(c, list, todo),
         list = "active" => \A i \in todo : fact[i.o].accepted
  PROVE  \A d \in Controllers : ControllerInv(d)'
<1>1. PICK r \in Following(list, todo) : ctl' = [ctl EXCEPT ![c] = r]
  BY DEF Continue
<1>2. ctl'[c] = r /\ \A d \in Controllers \ {c} : ctl'[d] = ctl[d]
  BY <1>1 DEF IInv, TypeOK
<1>3. CASE todo = {}
  <2>1. r = [Idle EXCEPT !.pc = "read", !.list = list]
    BY <1>1, <1>3 DEF Following
  <2>2. ControllerInv(c)'
    BY <1>2, <2>1 DEF ControllerInv, AcceptedLabels, Idle
  <2> QED
    BY <1>2, <2>2, KeptController
<1>4. CASE todo # {}
  <2>1. PICK i \in Oldest(todo) :
          r = [Idle EXCEPT !.pc = FirstStep(list, i), !.list = list, !.todo = todo \ {i}, !.o = i.o]
    BY <1>1, <1>4 DEF Following
  <2>2. i \in todo /\ \A j \in todo : j.o \in Objectives
    BY <2>1 DEF Oldest, Items
  <2>3. r.pc = FirstStep(list, i) /\ r.list = list /\ r.todo = todo \ {i} /\ r.o = i.o
    BY <2>1 DEF Idle
  <2>4. CASE list = "active"
    <3>1. r.pc \in {"mark", "cancel", "status"}
      BY <2>3, <2>4 DEF FirstStep
    <3>2. \A j \in todo : fact'[j.o].accepted
      BY <2>2, <2>4 DEF FactStep
    <3>3. ControllerInv(c)'
      <4>1. ctl'[c].list = "active" /\ ctl'[c].pc \in {"mark", "cancel", "status"}
            /\ fact'[ctl'[c].o].accepted /\ \A j \in ctl'[c].todo : fact'[j.o].accepted
        BY <1>2, <2>2, <2>3, <2>4, <3>1, <3>2
      <4> QED
        BY <4>1 DEF ControllerInv
    <3> QED
      BY <1>2, <3>3, KeptController
  <2>5. CASE list # "active"
    <3>1. (r.pc = "accept" /\ list = "cancels") \/ (r.pc = "delete" /\ list = "cleanup")
      BY <2>3, <2>5 DEF FirstStep
    <3>2. ControllerInv(c)'
      BY <1>2, <2>3, <3>1 DEF ControllerInv, AcceptedLabels
    <3> QED
      BY <1>2, <3>2, KeptController
  <2> QED
    BY <2>4, <2>5
<1> QED
  BY <1>3, <1>4

(* So does moving to the next item.                                        *)
LEMMA NextItemInv ==
  ASSUME IInv, FactStep, NEW c \in Controllers, NextItem(c),
         ctl[c].pc \in {"mark", "status", "ensure", "started", "cleaned"}
  PROVE  \A d \in Controllers : ControllerInv(d)'
<1>1. ctl[c] \in Locals /\ ControllerInv(c)
  BY DEF IInv, TypeOK
<1>2. /\ ctl[c].list \in {"cancels", "active", "cleanup"}
      /\ ctl[c].todo \in SUBSET Items
      /\ ctl[c].list = "active" => \A i \in ctl[c].todo : fact[i.o].accepted
  BY <1>1 DEF ControllerInv, Locals
<1> QED
  BY <1>2, ContinueInv DEF NextItem

(* A step to the next label of the same item, with what that label claims. *)
LEMMA GotoInv ==
  ASSUME IInv, FactStep, NEW c \in Controllers, NEW label \in Labels, Goto(c, label),
         ctl[c].pc \notin Between,
         label \in {"cancel", "status", "ensure", "started"} => ctl[c].list = "active",
         label \in {"accept", "ingest", "settle", "mark"} => ctl[c].list \in {"cancels", "active"},
         label \in {"delete", "cleaned"} => ctl[c].list = "cleanup",
         label \in AcceptedLabels => fact'[ctl[c].o].accepted,
         label = "settle" => fact'[ctl[c].o].terminal = ObservedEvent(c)
  PROVE  \A d \in Controllers : ControllerInv(d)'
<1>1. ctl[c] \in Locals /\ ControllerInv(c)
  BY DEF IInv, TypeOK
<1>2. /\ ctl'[c] = [ctl[c] EXCEPT !.pc = label]
      /\ \A d \in Controllers \ {c} : ctl'[d] = ctl[d]
  BY DEF Goto, IInv, TypeOK
<1>3. ctl'[c].pc = label /\ ctl'[c].list = ctl[c].list /\ ctl'[c].todo = ctl[c].todo
      /\ ctl'[c].o = ctl[c].o /\ ctl'[c].obs = ctl[c].obs
  BY <1>1, <1>2 DEF Locals
<1>4. ObservedEvent(c)' = ObservedEvent(c)
  BY <1>3 DEF ObservedEvent
<1>5. \A i \in ctl[c].todo : i.o \in Objectives
  BY <1>1 DEF Locals, Items
<1>6. ControllerInv(c)'
  BY <1>1, <1>3, <1>4, <1>5 DEF ControllerInv, FactStep
<1> QED
  BY <1>2, <1>6, KeptController

(* A step that leaves rows, holds, backend and handlers alone.             *)
LEMMA QuietObjectives ==
  ASSUME IInv, FactStep, UNCHANGED <<run, bill, external, post>>
  PROVE  \A o \in Objectives : ObjectiveInv(o)'
BY KeptObjective DEF external

(* The same when only the backend changes, and only towards less work or   *)
(* for an accepted objective.                                              *)
LEMMA BackendInv ==
  ASSUME IInv, FactStep, UNCHANGED <<run, bill, allocated, post>>, NEW o \in Objectives,
         \/ backend' = backend
         \/ backend' = Ensured(backend, o) /\ fact[o].accepted
         \/ backend' = Cancelled(backend, o)
         \/ backend' = Deleted(backend, o)
  PROVE  \A p \in Objectives : ObjectiveInv(p)'
<1> SUFFICES ASSUME NEW p \in Objectives PROVE ObjectiveInv(p)'
  OBVIOUS
<1>1. CASE p # o \/ backend' = backend
  <2>1. backend'[p] = backend[p]
    BY <1>1 DEF Ensured, Cancelled, Deleted, IInv, TypeOK
  <2> QED
    BY <2>1, KeptObjective
<1>2. CASE p = o /\ backend' # backend
  <2>1. backend'[p] \in {"queued", "running"} => fact[p].accepted
    BY <1>2 DEF Ensured, Cancelled, Deleted, Exited, IInv, TypeOK, ObjectiveInv
  <2>2. post[p].pc = "settle" => Worker(post[p].phase) # NoEvent
    BY PostedEvent DEF IInv, TypeOK
  <2> QED
    BY <2>1, <2>2 DEF IInv, ObjectiveInv, FactStep
<1> QED
  BY <1>1, <1>2

(* The same when only rows change: a row becomes running or terminal only  *)
(* for an accepted objective.                                              *)
LEMMA RowsInv ==
  ASSUME IInv, UNCHANGED <<fact, bill, external>>,
         \A p \in Objectives : post'[p].pc = "idle" \/ post'[p] = post[p],
         \A p \in Objectives :
           run'[p].state \in {"running", "terminal"} =>
             run[p].state \in {"running", "terminal"} \/ fact[p].accepted
  PROVE  \A p \in Objectives : ObjectiveInv(p)'
BY DEF IInv, ObjectiveInv, external

(* The same when only a hold is settled, by the fact that ended it.        *)
LEMMA SettleInv ==
  ASSUME IInv, UNCHANGED <<run, fact, external>>, NEW o \in Objectives, NEW e \in Events,
         \A p \in Objectives : post'[p] = post[p] \/ (post[p].pc = "settle" /\ post'[p].pc = "mark"),
         Settle(o, e), fact[o].terminal = e, e # NoEvent
  PROVE  \A p \in Objectives : ObjectiveInv(p)'
<1> SUFFICES ASSUME NEW p \in Objectives PROVE ObjectiveInv(p)'
  OBVIOUS
<1>1. bill'[p] = IF p = o THEN [status |-> "settled", event |-> e] ELSE bill[p]
  BY DEF Settle, IInv, TypeOK
<1> QED
  BY <1>1 DEF IInv, ObjectiveInv, external

-----------------------------------------------------------------------------
(* Every action keeps the inductive invariant.                             *)
LEMMA InvStep == IInv /\ [Next]_vars => IInv'
<1> SUFFICES ASSUME IInv, [Next]_vars
             PROVE  /\ \A d \in Controllers : ControllerInv(d)'
                    /\ \A p \in Objectives : ObjectiveInv(p)'
  BY TypeStep DEF IInv
<1>t. TypeOK /\ TypeOK'
  BY TypeStep DEF IInv
<1> DEFINE Goal == /\ \A d \in Controllers : ControllerInv(d)'
                   /\ \A p \in Objectives : ObjectiveInv(p)'
<1>u. CASE UNCHANGED vars
  <2>1. FactStep /\ UNCHANGED <<run, bill, external, post, ctl>>
    BY <1>u, FactUnchanged DEF vars, external
  <2> QED
    BY <2>1, KeptController, QuietObjectives
<1>c. ASSUME NEW c \in Controllers, Reconcile(c) \/ Process(c) \/ Crash(c) PROVE Goal
  <2>0. /\ ctl[c] \in Locals /\ ControllerInv(c)
        /\ ctl[c].pc \notin Between => ctl[c].o \in Objectives
    BY <1>t, CurrentObjective DEF IInv, TypeOK
  <2>a. ctl[c].pc \in AcceptedLabels => ctl[c].o \in Objectives /\ fact[ctl[c].o].accepted
    BY <2>0 DEF ControllerInv, AcceptedLabels, Between
  <2>e. ObservedEvent(c) \in Events /\ ObservedEvent(c) # NoEvent
    BY <1>t, ObservedType DEF TypeOK
  <2>1. CASE Wake(c)
    <3>1. FactStep /\ UNCHANGED <<run, bill, external, post>>
      BY <2>1, FactUnchanged DEF Wake, durable, external
    <3>2. Continue(c, "cancels", QueuedCancellations) /\ QueuedCancellations \in SUBSET Items
      BY <2>1, ListsRead DEF Wake
    <3> QED
      BY <3>1, <3>2, ContinueInv, QuietObjectives
  <2>2. CASE ReadList(c)
    <3>1. FactStep /\ UNCHANGED <<run, bill, external, post>>
      BY <2>2, FactUnchanged DEF ReadList, durable, external
    <3>2. \A i \in ActiveRuns : fact[i.o].accepted
      BY DEF ActiveRuns, RunsIn, Item, IInv, ObjectiveInv
    <3>3. CASE Continue(c, "active", ActiveRuns)
      BY <3>1, <3>2, <3>3, ListsRead, ContinueInv, QuietObjectives
    <3>4. CASE Continue(c, "cleanup", PendingCleanup)
      BY <3>1, <3>4, ListsRead, ContinueInv, QuietObjectives
    <3>5. CASE ctl' = [ctl EXCEPT ![c] = [Idle EXCEPT !.pc = "claim"]]
      <4>1. ctl'[c] = [Idle EXCEPT !.pc = "claim"] /\ \A d \in Controllers \ {c} : ctl'[d] = ctl[d]
        BY <1>t, <3>5 DEF TypeOK
      <4>2. ControllerInv(c)'
        BY <4>1 DEF ControllerInv, AcceptedLabels, Idle
      <4> QED
        BY <3>1, <4>1, <4>2, KeptController, QuietObjectives
    <3> QED
      BY <2>2, <3>3, <3>4, <3>5 DEF ReadList
  <2>3. CASE CancelAccept(c)
    <3>1. ctl[c].o \in Objectives
      BY <2>0, <2>3 DEF CancelAccept, Between
    <3>2. FactStep /\ fact'[ctl[c].o].accepted /\ UNCHANGED <<run, bill, external, post>>
      BY <2>3, <3>1, FactAccepted DEF CancelAccept
    <3>3. ctl[c].list \in {"cancels", "active"}
      BY <2>0, <2>3 DEF CancelAccept, ControllerInv
    <3> QED
      BY <2>3, <3>2, <3>3, GotoInv, QuietObjectives DEF CancelAccept, Labels, Between
  <2>4. CASE ReconcileIngest(c)
    <3>1. UNCHANGED <<run, bill, external, post>>
      BY <2>4 DEF ReconcileIngest
    <3>2. CASE IngestTerminal(ctl[c].o, ObservedEvent(c)) /\ Goto(c, "settle")
      <4>1. FactStep /\ fact'[ctl[c].o].terminal = ObservedEvent(c) /\ fact'[ctl[c].o].accepted
        BY <2>a, <2>e, <2>4, <3>2, FactIngested DEF ReconcileIngest, AcceptedLabels, FactStep
      <4>2. ctl[c].list \in {"cancels", "active"}
        BY <2>0, <2>4 DEF ReconcileIngest, ControllerInv
      <4> QED
        BY <2>4, <3>1, <3>2, <4>1, <4>2, GotoInv, QuietObjectives DEF ReconcileIngest, Labels, Between
    <3>3. CASE Raise(c) /\ UNCHANGED fact
      BY <3>1, <3>3, FactUnchanged, RaiseInv, QuietObjectives
    <3> QED
      BY <2>4, <3>2, <3>3 DEF ReconcileIngest
  <2>5. CASE ReconcileSettle(c)
    <3>1. FactStep /\ UNCHANGED <<run, fact, external, post>>
      BY <2>5, FactUnchanged DEF ReconcileSettle
    <3>2. CASE Settle(ctl[c].o, ObservedEvent(c)) /\ Goto(c, "mark")
      <4>1. ctl[c].o \in Objectives /\ fact[ctl[c].o].accepted
            /\ fact[ctl[c].o].terminal = ObservedEvent(c) /\ ctl[c].list \in {"cancels", "active"}
        BY <2>0, <2>a, <2>5 DEF ReconcileSettle, ControllerInv, AcceptedLabels
      <4>2. \A d \in Controllers : ControllerInv(d)'
        BY <2>5, <3>1, <3>2, <4>1, GotoInv DEF ReconcileSettle, Labels, Between
      <4>3. \A p \in Objectives : ObjectiveInv(p)'
        BY <2>e, <3>1, <3>2, <4>1, SettleInv
      <4> QED
        BY <4>2, <4>3
    <3>3. CASE Raise(c) /\ UNCHANGED bill
      BY <3>1, <3>3, RaiseInv, QuietObjectives
    <3> QED
      BY <2>5, <3>2, <3>3 DEF ReconcileSettle
  <2>6. CASE ReconcileMark(c)
    <3>1. FactStep /\ UNCHANGED <<fact, bill, external, post>> /\ ctl[c].o \in Objectives
          /\ fact[ctl[c].o].accepted
      BY <2>a, <2>6, FactUnchanged DEF ReconcileMark, AcceptedLabels
    <3>2. \A p \in Objectives : p # ctl[c].o => run'[p] = run[p]
      BY <1>t, <2>6 DEF ReconcileMark, MarkTerminal, TypeOK
    <3>3. \A p \in Objectives : ObjectiveInv(p)'
      BY <3>1, <3>2, RowsInv
    <3>4. \A d \in Controllers : ControllerInv(d)'
      BY <2>6, <3>1, NextItemInv DEF ReconcileMark
    <3> QED
      BY <3>3, <3>4
  <2>7. CASE ReconcileCancel(c)
    <3>1. FactStep /\ UNCHANGED <<run, fact, bill, allocated, post>>
      BY <2>7, FactUnchanged DEF ReconcileCancel, durable
    <3>2. ctl[c].o \in Objectives /\ fact[ctl[c].o].accepted /\ ctl[c].list = "active"
      BY <2>0, <2>a, <2>7 DEF ReconcileCancel, AcceptedLabels, ControllerInv
    <3>3. \A p \in Objectives : ObjectiveInv(p)'
      BY <2>7, <3>1, <3>2, BackendInv DEF ReconcileCancel
    <3>4. CASE Goto(c, "status")
      BY <2>7, <3>1, <3>2, <3>3, <3>4, GotoInv DEF ReconcileCancel, Labels, Between
    <3>5. CASE Raise(c)
      BY <3>1, <3>3, <3>5, RaiseInv
    <3> QED
      BY <2>7, <3>4, <3>5 DEF ReconcileCancel
  <2>8. CASE ReconcileStatus(c)
    <3>1. FactStep /\ UNCHANGED <<run, fact, bill, external, post>>
      BY <2>8, FactUnchanged DEF ReconcileStatus, durable, external
    <3>2. ctl[c].o \in Objectives /\ fact[ctl[c].o].accepted /\ ctl[c].list = "active"
      BY <2>0, <2>a, <2>8 DEF ReconcileStatus, AcceptedLabels, ControllerInv
    <3>3. CASE Goto(c, "ensure")
      BY <2>8, <3>1, <3>2, <3>3, GotoInv, QuietObjectives DEF ReconcileStatus, Labels, Between
    <3>4. CASE NextItem(c)
      BY <2>8, <3>1, <3>4, NextItemInv, QuietObjectives DEF ReconcileStatus
    <3>5. CASE Raise(c)
      BY <3>1, <3>5, RaiseInv, QuietObjectives
    <3>6. CASE ctl' = [ctl EXCEPT ![c].pc = "started", ![c].obs = backend[ctl[c].o]]
      <4>1. /\ ctl'[c] = [ctl[c] EXCEPT !.pc = "started", !.obs = backend[ctl[c].o]]
            /\ \A d \in Controllers \ {c} : ctl'[d] = ctl[d]
        BY <1>t, <3>6 DEF TypeOK
      <4>2. ctl'[c].pc = "started" /\ ctl'[c].list = ctl[c].list /\ ctl'[c].todo = ctl[c].todo
            /\ ctl'[c].o = ctl[c].o
        BY <2>0, <4>1 DEF Locals
      <4>3. ControllerInv(c)'
        BY <2>0, <3>1, <3>2, <4>2 DEF ControllerInv
      <4> QED
        BY <3>1, <4>1, <4>3, KeptController, QuietObjectives
    <3> QED
      BY <2>8, <3>3, <3>4, <3>5, <3>6 DEF ReconcileStatus
  <2>9. CASE ReconcileEnsure(c)
    <3>1. FactStep /\ UNCHANGED <<run, fact, bill, allocated, post>>
      BY <2>9, FactUnchanged DEF ReconcileEnsure, durable
    <3>2. ctl[c].o \in Objectives /\ fact[ctl[c].o].accepted
      BY <2>a, <2>9 DEF ReconcileEnsure, AcceptedLabels
    <3>3. \A p \in Objectives : ObjectiveInv(p)'
      BY <2>9, <3>1, <3>2, BackendInv DEF ReconcileEnsure
    <3>4. \A d \in Controllers : ControllerInv(d)'
      BY <2>9, <3>1, NextItemInv, RaiseInv DEF ReconcileEnsure
    <3> QED
      BY <3>3, <3>4
  <2>10. CASE ReconcileStarted(c)
    <3>1. ctl[c].o \in Objectives /\ fact[ctl[c].o].accepted /\ ctl[c].list = "active"
      BY <2>0, <2>a, <2>10 DEF ReconcileStarted, AcceptedLabels, ControllerInv
    <3>2. FactStep /\ UNCHANGED <<run, bill, external, post>>
      BY <2>10, <3>1, FactStarted, FactUnchanged DEF ReconcileStarted
    <3>3. fact'[ctl[c].o].accepted
      BY <3>1, <3>2 DEF FactStep
    <3>4. CASE Goto(c, "ingest")
      BY <2>10, <3>1, <3>2, <3>3, <3>4, GotoInv, QuietObjectives DEF ReconcileStarted, Labels, Between
    <3>5. CASE NextItem(c)
      BY <2>10, <3>2, <3>5, NextItemInv, QuietObjectives DEF ReconcileStarted
    <3>6. CASE Raise(c)
      BY <3>2, <3>6, RaiseInv, QuietObjectives
    <3> QED
      BY <2>10, <3>4, <3>5, <3>6 DEF ReconcileStarted
  <2>11. CASE CleanupDelete(c)
    <3>1. FactStep /\ UNCHANGED <<run, fact, bill, allocated, post>>
      BY <2>11, FactUnchanged DEF CleanupDelete, durable
    <3>2. ctl[c].o \in Objectives /\ ctl[c].list = "cleanup"
      BY <2>0, <2>11 DEF CleanupDelete, Between, ControllerInv
    <3>3. \A p \in Objectives : ObjectiveInv(p)'
      BY <2>11, <3>1, <3>2, BackendInv DEF CleanupDelete
    <3>4. CASE Goto(c, "cleaned")
      BY <2>11, <3>1, <3>2, <3>3, <3>4, GotoInv DEF CleanupDelete, Labels, Between, AcceptedLabels
    <3>5. CASE Raise(c)
      BY <3>1, <3>3, <3>5, RaiseInv
    <3> QED
      BY <2>11, <3>4, <3>5 DEF CleanupDelete
  <2>12. CASE CleanupCleaned(c)
    <3>1. FactStep /\ UNCHANGED <<fact, bill, external, post>>
      BY <2>12, FactUnchanged DEF CleanupCleaned
    <3>2. \A p \in Objectives : run'[p].state = run[p].state
      BY <1>t, <2>12 DEF CleanupCleaned, TypeOK, Rows
    <3>3. \A p \in Objectives : ObjectiveInv(p)'
      BY <3>1, <3>2, RowsInv
    <3>4. \A d \in Controllers : ControllerInv(d)'
      BY <2>12, <3>1, NextItemInv DEF CleanupCleaned
    <3> QED
      BY <3>3, <3>4
  <2>13. CASE ClaimNothing(c)
    <3>1. FactStep /\ UNCHANGED <<fact, bill, external, post>>
      BY <2>13, FactUnchanged DEF ClaimNothing
    <3>2. \A p \in Objectives : run'[p].state = "queued" \/ run'[p] = run[p]
      BY <2>13, RowTypes DEF ClaimNothing, Refreshed
    <3>3. \A p \in Objectives : ObjectiveInv(p)'
      BY <3>1, <3>2, RowsInv
    <3> QED
      BY <2>13, <3>1, <3>3, RaiseInv DEF ClaimNothing
  <2>14. CASE ClaimRun(c)
    <3>1. FactStep /\ UNCHANGED <<fact, bill, external, post>>
      BY <2>14, FactUnchanged DEF ClaimRun
    <3>2. PICK o \in Candidates :
            /\ run' = [Refreshed EXCEPT ![o] =
                         [@ EXCEPT !.state = "launching", !.lease = leases + 1, !.expired = FALSE]]
            /\ ctl' = [ctl EXCEPT ![c] =
                         [Idle EXCEPT !.pc = "launchAccept", !.o = o, !.lease = leases + 1]]
      BY <2>14 DEF ClaimRun
    <3>3. Refreshed \in [Objectives -> Rows] /\ o \in Objectives
      BY <1>t, <3>2, RefreshedType DEF TypeOK, Candidates
    <3>4. \A p \in Objectives : run'[p].state \in {"queued", "launching"} \/ run'[p] = run[p]
      BY <3>2, <3>3, RowTypes DEF Rows, Refreshed
    <3>5. \A p \in Objectives : ObjectiveInv(p)'
      BY <3>1, <3>4, RowsInv
    <3>6. /\ ctl'[c] = [Idle EXCEPT !.pc = "launchAccept", !.o = o, !.lease = leases + 1]
          /\ \A d \in Controllers \ {c} : ctl'[d] = ctl[d]
      BY <1>t, <3>2 DEF TypeOK
    <3>7. ControllerInv(c)'
      BY <3>6 DEF ControllerInv, AcceptedLabels, Idle
    <3> QED
      BY <3>1, <3>5, <3>6, <3>7, KeptController
  <2>15. CASE LaunchAccept(c)
    <3>1. ctl[c].o \in Objectives
      BY <2>0, <2>15 DEF LaunchAccept, Between
    <3>2. FactStep /\ fact'[ctl[c].o].accepted /\ UNCHANGED <<run, bill, external, post>>
      BY <2>15, <3>1, FactAccepted DEF LaunchAccept
    <3> QED
      BY <2>15, <3>2, GotoInv, QuietObjectives DEF LaunchAccept, Labels, Between
  <2>16. CASE LaunchEnsure(c)
    <3>1. FactStep /\ UNCHANGED <<run, fact, bill, allocated, post>>
      BY <2>16, FactUnchanged DEF LaunchEnsure, durable
    <3>2. ctl[c].o \in Objectives /\ fact[ctl[c].o].accepted
      BY <2>a, <2>16 DEF LaunchEnsure, AcceptedLabels
    <3>3. \A p \in Objectives : ObjectiveInv(p)'
      BY <2>16, <3>1, <3>2, BackendInv DEF LaunchEnsure
    <3>4. \A d \in Controllers : ControllerInv(d)'
      BY <2>16, <3>1, <3>2, GotoInv DEF LaunchEnsure, Labels, Between
    <3> QED
      BY <3>3, <3>4
  <2>17. CASE Launched(c)
    <3>1. FactStep /\ UNCHANGED <<fact, bill, external, post>>
      BY <2>17, FactUnchanged DEF Launched
    <3>2. ctl[c].o \in Objectives /\ fact[ctl[c].o].accepted
      BY <2>a, <2>17 DEF Launched, AcceptedLabels
    <3>3. \A p \in Objectives : p # ctl[c].o => run'[p] = run[p]
      BY <1>t, <2>17 DEF Launched, TypeOK
    <3>4. \A p \in Objectives : ObjectiveInv(p)'
      BY <3>1, <3>2, <3>3, RowsInv
    <3>5. CASE Goto(c, "launchFailed")
      BY <2>17, <3>1, <3>4, <3>5, GotoInv DEF Launched, Labels, Between, AcceptedLabels
    <3>6. CASE ctl' = [ctl EXCEPT ![c] = [Idle EXCEPT !.pc = "claim"]]
      <4>1. ctl'[c] = [Idle EXCEPT !.pc = "claim"] /\ \A d \in Controllers \ {c} : ctl'[d] = ctl[d]
        BY <1>t, <3>6 DEF TypeOK
      <4>2. ControllerInv(c)'
        BY <4>1 DEF ControllerInv, AcceptedLabels, Idle
      <4> QED
        BY <3>1, <3>4, <4>1, <4>2, KeptController
    <3> QED
      BY <2>17, <3>5, <3>6 DEF Launched
  <2>18. CASE LaunchFailed(c)
    <3>1. FactStep /\ UNCHANGED <<fact, bill, external, post>>
      BY <2>18, FactUnchanged DEF LaunchFailed
    <3>2. \A p \in Objectives : run'[p].state = "queued" \/ run'[p] = run[p]
      BY <1>t, <2>18, RowTypes DEF LaunchFailed, TypeOK
    <3>3. \A p \in Objectives : ObjectiveInv(p)'
      BY <3>1, <3>2, RowsInv
    <3> QED
      BY <2>18, <3>1, <3>3, RaiseInv DEF LaunchFailed
  <2>19. CASE Crash(c)
    <3>1. FactStep /\ UNCHANGED <<run, bill, external, post>>
      BY <2>19, FactUnchanged DEF Crash, durable, external
    <3> QED
      BY <2>19, <3>1, RaiseInv, QuietObjectives DEF Crash
  <2> QED
    BY <1>c, <2>1, <2>2, <2>3, <2>4, <2>5, <2>6, <2>7, <2>8, <2>9, <2>10, <2>11, <2>12, <2>13,
       <2>14, <2>15, <2>16, <2>17, <2>18, <2>19
    DEF Reconcile, Process
<1>o. ASSUME NEW o \in Objectives,
             \/ Submit(o) \/ RetryCancellation(o)
             \/ NotifyRead(o) \/ NotifyRun(o) \/ NotifyCancel(o)
             \/ Handle(o) \/ PostCrash(o) \/ LeaseExpires(o)
             \/ BackendStart(o) \/ BackendExit(o) \/ BackendLoses(o)
             \/ RequestCancellation(o)
      PROVE  Goal
  <2>c. CASE UNCHANGED ctl /\ FactStep /\ \A p \in Objectives : ObjectiveInv(p)'
    BY <2>c, KeptController
  <2>1. CASE Submit(o)
    <3>1. UNCHANGED <<ctl, fact, run, external, post>> /\ FactStep
      BY <2>1, FactUnchanged DEF Submit
    <3>2. \A p \in Objectives : bill'[p].status = "settled" => bill'[p] = bill[p]
      BY <1>t, <2>1 DEF Submit, TypeOK, Bills
    <3>3. \A p \in Objectives : ObjectiveInv(p)'
      BY <3>1, <3>2 DEF IInv, ObjectiveInv, external
    <3> QED
      BY <2>c, <3>1, <3>3
  <2>2. CASE NotifyRead(o) \/ NotifyRun(o) \/ RetryCancellation(o) \/ RequestCancellation(o)
    <3>1. UNCHANGED <<ctl, fact, run, bill, external, post>>
      BY <2>2 DEF NotifyRead, NotifyRun, RetryCancellation, RequestCancellation, durable, external
    <3> QED
      BY <2>c, <3>1, FactUnchanged, QuietObjectives
  <2>3. CASE NotifyCancel(o)
    <3>1. UNCHANGED <<ctl, fact, run, bill, allocated, post>> /\ FactStep
      BY <2>3, FactUnchanged DEF NotifyCancel, durable
    <3>2. backend' = backend \/ backend' = Cancelled(backend, o)
      BY <2>3 DEF NotifyCancel
    <3> QED
      BY <2>c, <3>1, <3>2, BackendInv
  <2>4. CASE PostIngest(o)
    <3>1. UNCHANGED <<ctl, run, bill, external>> /\ fact[o].accepted /\ post[o].pc = "ingest"
      BY <2>4 DEF PostIngest, IInv, ObjectiveInv
    <3>2. CASE IngestTerminal(o, Worker(post[o].phase)) /\ post' = [post EXCEPT ![o].pc = "settle"]
      <4>1. FactStep /\ fact'[o].terminal = Worker(post[o].phase)
        BY <1>t, <3>1, <3>2, PostedEvent, FactIngested DEF TypeOK
      <4>2. post'[o].phase = post[o].phase /\ post'[o].pc = "settle"
            /\ \A p \in Objectives \ {o} : post'[p] = post[p]
        BY <1>t, <3>2 DEF TypeOK, Posts
      <4>3. ObjectiveInv(o)'
        BY <3>1, <4>1, <4>2 DEF IInv, ObjectiveInv, FactStep, external
      <4>4. \A p \in Objectives \ {o} : ObjectiveInv(p)'
        BY <3>1, <4>1, <4>2, KeptObjective DEF external
      <4> QED
        BY <2>c, <3>1, <4>1, <4>3, <4>4
    <3>3. CASE post' = [post EXCEPT ![o] = PostDone] /\ UNCHANGED fact
      <4>1. \A p \in Objectives : post'[p].pc = "idle" \/ post'[p] = post[p]
        BY <1>t, <3>3 DEF TypeOK, PostDone
      <4> QED
        BY <2>c, <3>1, <3>3, <4>1, FactUnchanged, RowsInv
    <3> QED
      BY <2>4, <3>2, <3>3 DEF PostIngest
  <2>5. CASE PostSettle(o)
    <3>1. UNCHANGED <<ctl, run, fact, external>> /\ post[o].pc = "settle" /\ FactStep
      BY <2>5, FactUnchanged DEF PostSettle
    <3>2. CASE Settle(o, Worker(post[o].phase)) /\ post' = [post EXCEPT ![o].pc = "mark"]
      <4>1. \A p \in Objectives : post'[p] = post[p] \/ (post[p].pc = "settle" /\ post'[p].pc = "mark")
        BY <1>t, <3>1, <3>2 DEF TypeOK, Posts
      <4>2. fact[o].terminal = Worker(post[o].phase)
        BY <3>1 DEF IInv, ObjectiveInv
      <4>3. Worker(post[o].phase) \in Events /\ Worker(post[o].phase) # NoEvent
        BY <1>t, <3>1, PostedEvent DEF TypeOK
      <4> QED
        BY <2>c, <3>1, <3>2, <4>1, <4>2, <4>3, SettleInv
    <3>3. CASE post' = [post EXCEPT ![o] = PostDone] /\ UNCHANGED bill
      <4>1. \A p \in Objectives : post'[p].pc = "idle" \/ post'[p] = post[p]
        BY <1>t, <3>3 DEF TypeOK, PostDone
      <4> QED
        BY <2>c, <3>1, <3>3, <4>1, RowsInv
    <3> QED
      BY <2>5, <3>2, <3>3 DEF PostSettle
  <2>6. CASE PostMark(o)
    <3>1. UNCHANGED <<ctl, fact, bill, external>> /\ fact[o].accepted /\ FactStep
      BY <2>6, FactUnchanged DEF PostMark, IInv, ObjectiveInv
    <3>2. \A p \in Objectives : p # o => run'[p] = run[p]
      BY <1>t, <2>6 DEF PostMark, MarkTerminal, TypeOK
    <3>3. \A p \in Objectives : post'[p].pc = "idle" \/ post'[p] = post[p]
      BY <1>t, <2>6 DEF PostMark, TypeOK, PostDone
    <3> QED
      BY <2>c, <3>1, <3>2, <3>3, RowsInv
  <2>7. CASE PostCrash(o)
    <3>1. UNCHANGED <<ctl, fact, run, bill, external>> /\ FactStep
      BY <2>7, FactUnchanged DEF PostCrash, durable, external
    <3>2. \A p \in Objectives : post'[p].pc = "idle" \/ post'[p] = post[p]
      BY <1>t, <2>7 DEF PostCrash, TypeOK, PostDone
    <3> QED
      BY <2>c, <3>1, <3>2, RowsInv
  <2>8. CASE LeaseExpires(o)
    <3>1. UNCHANGED <<ctl, fact, bill, external, post>> /\ FactStep
      BY <2>8, FactUnchanged DEF LeaseExpires
    <3>2. \A p \in Objectives : run'[p].state = run[p].state
      BY <1>t, <2>8 DEF LeaseExpires, TypeOK, Rows
    <3> QED
      BY <2>c, <3>1, <3>2, RowsInv
  <2>9. CASE BackendStart(o) \/ BackendExit(o)
    <3>1. UNCHANGED <<ctl, fact, run, bill, post>> /\ FactStep
          /\ backend[o] \in {"queued", "running"}
      BY <2>9, FactUnchanged DEF BackendStart, BackendExit, durable
    <3>2. \A p \in Objectives \ {o} : backend'[p] = backend[p] /\ allocated'[p] = allocated[p]
      BY <1>t, <2>9 DEF BackendStart, BackendExit, TypeOK
    <3>3. fact[o].accepted
      BY <3>1 DEF IInv, ObjectiveInv
    <3>4. \A p \in Objectives : ObjectiveInv(p)'
      BY <3>1, <3>2, <3>3 DEF IInv, ObjectiveInv
    <3> QED
      BY <2>c, <3>1, <3>4
  <2>10. CASE BackendLoses(o)
    <3>1. UNCHANGED <<ctl, fact, run, bill, allocated, post>> /\ FactStep
      BY <2>10, FactUnchanged DEF BackendLoses, durable
    <3> QED
      BY <2>c, <2>10, <3>1, BackendInv DEF BackendLoses
  <2> QED
    BY <1>o, <2>1, <2>2, <2>3, <2>4, <2>5, <2>6, <2>7, <2>8, <2>9, <2>10 DEF Handle
<1>p. ASSUME NEW o \in Objectives, NEW p \in WorkerPhases, PostAuthenticate(o, p) PROVE Goal
  <2>1. UNCHANGED <<ctl, fact, run, bill, external>> /\ FactStep /\ run[o].state = "running"
    BY <1>p, FactUnchanged DEF PostAuthenticate, durable, external
  <2>2. \A q \in Objectives : (q = o /\ post'[q].pc = "ingest") \/ post'[q] = post[q]
    BY <1>t, <1>p DEF PostAuthenticate, PostEvent, TypeOK
  <2>3. \A q \in Objectives : ObjectiveInv(q)'
    BY <2>1, <2>2 DEF IInv, ObjectiveInv, external
  <2> QED
    BY <2>1, <2>3, KeptController
<1> QED
  BY <1>u, <1>c, <1>o, <1>p, InputAssumption DEF Next

-----------------------------------------------------------------------------
(* The invariant holds before anything was submitted.                      *)
LEMMA InitInv == Init => IInv
<1> SUFFICES ASSUME Init PROVE IInv
  OBVIOUS
<1>1. TypeOK
  <2>1. Idle \in Locals
    BY DEF Idle, Locals, Between, Labels, Lists, BackendStates
  <2> QED
    BY <2>1, RowTypes, PostTypes, EventFacts
    DEF Init, TypeOK, Facts, Requests, Bills, BackendStates
<1>2. ASSUME NEW c \in Controllers PROVE ControllerInv(c)
  BY DEF Init, Idle, ControllerInv, AcceptedLabels
<1>3. ASSUME NEW o \in Objectives PROVE ObjectiveInv(o)
  BY DEF Init, NoRun, PostDone, ObjectiveInv
<1> QED
  BY <1>1, <1>2, <1>3 DEF IInv

(* The inductive invariant holds in every reachable state, for any number  *)
(* of objectives, instances, crashes and faults.                           *)
THEOREM Invariance == Spec => []IInv
BY InitInv, InvStep, PTL DEF Spec

(* Every variable keeps its type: in particular every process past its     *)
(* idle labels is at an objective, and a posting handler has a phase.      *)
THEOREM TypeCorrect == Spec => []TypeOK
<1>1. IInv => TypeOK
  BY DEF IInv
<1> QED
  BY <1>1, Invariance, PTL

(* claim/launched/mark_terminal: a run is running or ended, and a worker   *)
(* was allocated, only for an objective whose accepted event is durable.   *)
THEOREM AcceptedBeforeLaunch == Spec => []RunningIsAccepted
<1>1. IInv => RunningIsAccepted
  BY DEF IInv, ObjectiveInv, RunningIsAccepted
<1> QED
  BY <1>1, Invariance, PTL

(* ingest then settle_objective, by worker, controllers or both: a hold is *)
(* settled only by the event that ended the objective.                     *)
THEOREM SettlementMatchesFact == Spec => []SettledByTerminalFact
<1>1. IInv => SettledByTerminalFact
  BY DEF IInv, ObjectiveInv, SettledByTerminalFact
<1> QED
  BY <1>1, Invariance, PTL

(* The actions that change rows.                                           *)
LEMMA RowChanges ==
  ASSUME TypeOK, [Next]_vars
  PROVE  \/ run' = run
         \/ \E p \in Objectives : MarkTerminal(p) \/ LeaseExpires(p)
         \/ \E c \in Controllers : CleanupCleaned(c) \/ ClaimNothing(c) \/ ClaimRun(c)
                                   \/ Launched(c) \/ LaunchFailed(c)
<1> USE DEF TypeOK
<1>1. CASE UNCHANGED vars
  BY <1>1 DEF vars
<1>2. ASSUME NEW c \in Controllers, Reconcile(c) PROVE run' = run \/ ReconcileMark(c) \/ CleanupCleaned(c)
  BY <1>2 DEF Reconcile, Wake, ReadList, CancelAccept, ReconcileIngest, ReconcileSettle,
              ReconcileCancel, ReconcileStatus, ReconcileEnsure, ReconcileStarted, CleanupDelete, durable
<1>3. ASSUME NEW c \in Controllers, ReconcileMark(c) PROVE \E p \in Objectives : MarkTerminal(p)
  BY <1>3, CurrentObjective DEF ReconcileMark, Between
<1>4. ASSUME NEW c \in Controllers, Process(c) \/ Crash(c)
      PROVE  run' = run \/ ClaimNothing(c) \/ ClaimRun(c) \/ Launched(c) \/ LaunchFailed(c)
  BY <1>4 DEF Process, LaunchAccept, LaunchEnsure, Crash, durable
<1>5. ASSUME NEW p \in Objectives,
             \/ Submit(p) \/ RetryCancellation(p)
             \/ NotifyRead(p) \/ NotifyRun(p) \/ NotifyCancel(p)
             \/ Handle(p) \/ PostCrash(p) \/ LeaseExpires(p)
             \/ BackendStart(p) \/ BackendExit(p) \/ BackendLoses(p)
             \/ RequestCancellation(p)
             \/ \E q \in WorkerPhases : PostAuthenticate(p, q)
      PROVE  run' = run \/ MarkTerminal(p) \/ LeaseExpires(p)
  BY <1>5 DEF Submit, RetryCancellation, NotifyRead, NotifyRun, NotifyCancel, Handle, PostIngest,
              PostSettle, PostMark, PostCrash, BackendStart, BackendExit, BackendLoses, RequestCancellation, PostAuthenticate, durable
<1> QED
  BY <1>1, <1>2, <1>3, <1>4, <1>5, InputAssumption DEF Next

(* What a step may do to a row that has ended.                             *)
LEMMA RetiredStep ==
  ASSUME TypeOK, [Next]_vars, NEW o \in Objectives, run[o].state = "terminal"
  PROVE  run'[o].state = "terminal"
<1> USE DEF TypeOK
<1>1. CASE run' = run
  BY <1>1
<1>2. ASSUME NEW p \in Objectives, MarkTerminal(p) PROVE run'[o].state = "terminal"
  BY <1>2 DEF MarkTerminal, Retired, Rows
<1>3. ASSUME NEW c \in Controllers, CleanupCleaned(c) PROVE run'[o].state = "terminal"
  BY <1>3 DEF CleanupCleaned, Rows
<1>4. Refreshed[o] = run[o] /\ Refreshed \in [Objectives -> Rows]
  BY RefreshedType DEF Refreshed
<1>5. ASSUME NEW c \in Controllers, ClaimNothing(c) PROVE run'[o].state = "terminal"
  BY <1>4, <1>5 DEF ClaimNothing
<1>6. ASSUME NEW c \in Controllers, ClaimRun(c) PROVE run'[o].state = "terminal"
  <2>1. o \notin Candidates
    BY <1>4 DEF Candidates
  <2>2. PICK p \in Candidates :
          run' = [Refreshed EXCEPT ![p] =
                    [@ EXCEPT !.state = "launching", !.lease = leases + 1, !.expired = FALSE]]
    BY <1>6 DEF ClaimRun
  <2> QED
    BY <1>4, <2>1, <2>2
<1>7. ASSUME NEW c \in Controllers, Launched(c) \/ LaunchFailed(c) PROVE run'[o].state = "terminal"
  BY <1>7 DEF Launched, LaunchFailed, HoldsLease
<1>8. ASSUME NEW p \in Objectives, LeaseExpires(p) PROVE run'[o].state = "terminal"
  BY <1>8 DEF LeaseExpires, Rows
<1> QED
  BY <1>1, <1>2, <1>3, <1>5, <1>6, <1>7, <1>8, RowChanges

(* mark_terminal is final: no late launch, failed launch, lease recovery   *)
(* or claim of any instance brings an ended run back.                      *)
THEOREM RetirementIsFinal == Spec => RetiredIsFinal
<1>1. TypeOK /\ [Next]_vars =>
        [\A o \in Objectives : run[o].state = "terminal" => run'[o].state = "terminal"]_vars
  BY RetiredStep
<1> QED
  BY <1>1, TypeCorrect, PTL DEF Spec, RetiredIsFinal

-----------------------------------------------------------------------------
(* Capacity.  A set of runs is within bounds when it and its part of every *)
(* tenant are small enough.                                                *)
Within(S) ==
  /\ Cardinality(S) <= MaxGlobal
  /\ \A t \in Tenants : Cardinality({o \in S : Tenant[o] = t}) <= MaxPerTenant

(* Part of a set within bounds is within bounds.                           *)
LEMMA WithinSubset ==
  ASSUME NEW S \in SUBSET Objectives, NEW R \in SUBSET S, Within(S)
  PROVE  Within(R)
<1>1. IsFiniteSet(S)
  BY FinitenessAssumption, FS_Subset
<1>2. Cardinality(R) <= Cardinality(S) /\ Cardinality(S) \in Nat /\ Cardinality(R) \in Nat
  BY <1>1, FS_Subset, FS_CardinalityType
<1>3. ASSUME NEW t \in Tenants
      PROVE  Cardinality({o \in R : Tenant[o] = t}) <= MaxPerTenant
  <2> DEFINE ST == {o \in S : Tenant[o] = t}
             RT == {o \in R : Tenant[o] = t}
  <2>1. ST \subseteq S /\ RT \subseteq ST
    OBVIOUS
  <2>2. IsFiniteSet(ST)
    BY <1>1, <2>1, FS_Subset
  <2>3. Cardinality(RT) <= Cardinality(ST) /\ Cardinality(ST) \in Nat /\ Cardinality(RT) \in Nat
    BY <2>1, <2>2, FS_Subset, FS_CardinalityType
  <2>4. Cardinality(ST) <= MaxPerTenant
    BY DEF Within
  <2> QED
    BY <2>3, <2>4, CapacityAssumption
<1> QED
  BY <1>2, <1>3, CapacityAssumption DEF Within

(* claim adds one run where there is room, globally and of its tenant.     *)
LEMMA WithinAdd ==
  ASSUME NEW S \in SUBSET Objectives, Within(S), NEW o \in Objectives \ S,
         Cardinality(S) < MaxGlobal,
         Cardinality({p \in S : Tenant[p] = Tenant[o]}) < MaxPerTenant
  PROVE  Within(S \cup {o})
<1>1. IsFiniteSet(S)
  BY FinitenessAssumption, FS_Subset
<1>2. Cardinality(S \cup {o}) = Cardinality(S) + 1 /\ Cardinality(S) \in Nat
  BY <1>1, FS_AddElement, FS_CardinalityType
<1>3. ASSUME NEW t \in Tenants
      PROVE  Cardinality({p \in S \cup {o} : Tenant[p] = t}) <= MaxPerTenant
  <2> DEFINE ST == {p \in S : Tenant[p] = t}
  <2>1. IsFiniteSet(ST)
    BY <1>1, FS_Subset
  <2>2. CASE t = Tenant[o]
    <3>1. {p \in S \cup {o} : Tenant[p] = t} = ST \cup {o} /\ o \notin ST
      BY <2>2
    <3>2. Cardinality(ST \cup {o}) = Cardinality(ST) + 1 /\ Cardinality(ST) \in Nat
      BY <2>1, <3>1, FS_AddElement, FS_CardinalityType
    <3>3. Cardinality(ST) < MaxPerTenant
      BY <2>2
    <3> QED
      BY <3>1, <3>2, <3>3, CapacityAssumption
  <2>3. CASE t # Tenant[o]
    <3>1. {p \in S \cup {o} : Tenant[p] = t} = ST
      BY <2>3
    <3> QED
      BY <3>1 DEF Within
  <2> QED
    BY <2>2, <2>3
<1> QED
  BY <1>2, <1>3, CapacityAssumption DEF Within

(* Only claim allocates, after it has counted; nothing else adds a row to  *)
(* the allocated ones.                                                     *)
LEMMA CapacityStep == TypeOK /\ CapacityRespected /\ [Next]_vars => CapacityRespected'
<1> SUFFICES ASSUME TypeOK, CapacityRespected, [Next]_vars PROVE Within(Allocated(run'))
  BY DEF CapacityRespected, Within, Allocated
<1>0. Within(Allocated(run)) /\ Allocated(run) \in SUBSET Objectives
  BY DEF CapacityRespected, Within, Allocated
<1>s. ASSUME Allocated(run') \subseteq Allocated(run) PROVE Within(Allocated(run'))
  BY <1>0, <1>s, WithinSubset
<1> USE DEF TypeOK
<1>1. CASE run' = run
  BY <1>s, <1>1
<1>2. ASSUME NEW p \in Objectives, MarkTerminal(p) PROVE Within(Allocated(run'))
  <2>1. Allocated(run') \subseteq Allocated(run)
    BY <1>2 DEF MarkTerminal, Retired, Rows, Allocated
  <2> QED
    BY <1>s, <2>1
<1>3. ASSUME NEW c \in Controllers, CleanupCleaned(c) PROVE Within(Allocated(run'))
  <2>1. Allocated(run') \subseteq Allocated(run)
    BY <1>3 DEF CleanupCleaned, Rows, Allocated
  <2> QED
    BY <1>s, <2>1
<1>4. Allocated(Refreshed) \subseteq Allocated(run) /\ Refreshed \in [Objectives -> Rows]
  BY RefreshedType, RowTypes DEF Allocated, Refreshed
<1>5. ASSUME NEW c \in Controllers, ClaimNothing(c) PROVE Within(Allocated(run'))
  BY <1>s, <1>4, <1>5 DEF ClaimNothing
<1>6. ASSUME NEW c \in Controllers, ClaimRun(c) PROVE Within(Allocated(run'))
  <2>1. PICK o \in Candidates :
          run' = [Refreshed EXCEPT ![o] =
                    [@ EXCEPT !.state = "launching", !.lease = leases + 1, !.expired = FALSE]]
    BY <1>6 DEF ClaimRun
  <2>2. o \in Objectives /\ o \notin Allocated(Refreshed) /\ TenantRoom(Refreshed, Tenant[o])
    BY <2>1 DEF Candidates, Allocated
  <2>3. Within(Allocated(Refreshed)) /\ Allocated(Refreshed) \in SUBSET Objectives
    BY <1>0, <1>4, WithinSubset DEF Allocated
  <2>4. Within(Allocated(Refreshed) \cup {o})
    BY <1>6, <2>2, <2>3, WithinAdd DEF ClaimRun, GlobalRoom, TenantRoom
  <2>5. Allocated(run') = Allocated(Refreshed) \cup {o}
    BY <1>4, <2>1, <2>2 DEF Allocated, Rows
  <2> QED
    BY <2>4, <2>5
<1>7. ASSUME NEW c \in Controllers, Launched(c) \/ LaunchFailed(c) PROVE Within(Allocated(run'))
  <2>1. Allocated(run') \subseteq Allocated(run)
    BY <1>7, RowTypes DEF Launched, LaunchFailed, HoldsLease, Rows, Allocated
  <2> QED
    BY <1>s, <2>1
<1>8. ASSUME NEW p \in Objectives, LeaseExpires(p) PROVE Within(Allocated(run'))
  <2>1. Allocated(run') \subseteq Allocated(run)
    BY <1>8 DEF LeaseExpires, Rows, Allocated
  <2> QED
    BY <1>s, <2>1
<1> QED
  BY <1>1, <1>2, <1>3, <1>5, <1>6, <1>7, <1>8, RowChanges

(* claim never allocates beyond max_global, nor beyond max_per_tenant for  *)
(* any tenant, however many instances claim, crash and lose leases.        *)
THEOREM CapacityHolds == Spec => []CapacityRespected
<1>1. Init => CapacityRespected
  <2> SUFFICES ASSUME Init PROVE CapacityRespected
    OBVIOUS
  <2>1. Allocated(run) = {}
    BY DEF Init, NoRun, Allocated
  <2>2. \A t \in Tenants : {o \in Allocated(run) : Tenant[o] = t} = {}
    BY <2>1
  <2> QED
    BY <2>1, <2>2, FS_EmptySet, CapacityAssumption DEF CapacityRespected
<1> QED
  BY <1>1, CapacityStep, TypeCorrect, PTL DEF Spec

-----------------------------------------------------------------------------
(* What a step does to the abstract ledger.                                *)
LEMMA AcceptedRefines ==
  ASSUME IInv, NEW o \in Objectives, AcceptedEvent(o), UNCHANGED request
  PROVE  [Truth!Next]_(Truth!vars)
<1>1. CASE fact[o].accepted
  <2>1. fact' = fact
    BY <1>1 DEF AcceptedEvent, IInv, TypeOK, Facts
  <2>2. Phase' = Phase
    BY <2>1 DEF Phase
  <2> QED
    BY <2>2 DEF Truth!vars
<1>2. CASE ~fact[o].accepted
  <2>1. fact[o].terminal = NoEvent
    BY <1>2 DEF IInv, ObjectiveInv
  <2>2. /\ fact'[o].accepted /\ fact'[o].terminal = NoEvent
        /\ \A p \in Objectives \ {o} : fact'[p] = fact[p]
    BY <2>1 DEF AcceptedEvent, IInv, TypeOK, Facts
  <2>3. Phase[o] = "none" /\ Phase' = [Phase EXCEPT ![o] = "accepted"]
    BY <1>2, <2>1, <2>2 DEF Phase
  <2>4. Truth!Accept(o)
    BY <2>3 DEF Truth!Accept
  <2> QED
    BY <2>4 DEF Truth!Next
<1> QED
  BY <1>1, <1>2

(* worker.started is invisible in the abstract ledger.                     *)
LEMMA StartedRefines ==
  ASSUME IInv, NEW o \in Objectives, fact' = [fact EXCEPT ![o].started = TRUE], UNCHANGED request
  PROVE  UNCHANGED Truth!vars
<1>1. \A p \in Objectives : fact'[p].accepted = fact[p].accepted /\ fact'[p].terminal = fact[p].terminal
  BY DEF IInv, TypeOK, Facts
<1>2. Phase' = Phase
  BY <1>1 DEF Phase
<1> QED
  BY <1>2 DEF Truth!vars

(* A terminal event finishes the objective or repeats what ended it.       *)
LEMMA IngestRefines ==
  ASSUME IInv, NEW o \in Objectives, NEW e \in Events, e # NoEvent, IngestTerminal(o, e)
  PROVE  [Truth!Next]_(Truth!vars)
<1>1. CASE fact[o].terminal = e
  <2>1. fact' = fact /\ request' = request
    BY <1>1 DEF IngestTerminal, IInv, TypeOK, Facts
  <2>2. Phase' = Phase
    BY <2>1 DEF Phase
  <2> QED
    BY <2>1, <2>2 DEF Truth!vars
<1>2. CASE fact[o].terminal # e
  <2>1. fact[o].accepted /\ fact[o].terminal = NoEvent
    BY <1>2 DEF IngestTerminal, IngestAccepts
  <2>2. /\ fact'[o].terminal = e
        /\ \A p \in Objectives \ {o} : fact'[p] = fact[p]
    BY DEF IngestTerminal, IInv, TypeOK, Facts
  <2>3. Phase[o] = "accepted" /\ Phase' = [Phase EXCEPT ![o] = e[2]]
    <3>1. Phase[o] = "accepted"
      BY <2>1 DEF Phase
    <3>2. Phase'[o] = e[2] /\ \A p \in Objectives \ {o} : Phase'[p] = Phase[p]
      BY <2>2 DEF Phase
    <3>3. Phase' = [p \in Objectives |-> Phase'[p]] /\ Phase = [p \in Objectives |-> Phase[p]]
      BY DEF Phase
    <3>4. Phase' = [Phase EXCEPT ![o] = e[2]]
      BY <3>2, <3>3
    <3> QED
      BY <3>1, <3>4
  <2>4. request' = [request EXCEPT ![o] = Truth!Answer(@, e[2])]
    BY <1>2 DEF IngestTerminal, Answer, Truth!Answer
  <2>5. e[2] \in Truth!TerminalPhases
    BY EventFacts DEF TerminalPhases, Truth!TerminalPhases
  <2>6. Truth!Finish(o, e[2])
    BY <2>3, <2>4 DEF Truth!Finish
  <2> QED
    BY <2>5, <2>6 DEF Truth!Next
<1> QED
  BY <1>1, <1>2

(* A cancellation request is the abstract request.                         *)
LEMMA RequestRefines ==
  ASSUME IInv, NEW o \in Objectives, RequestCancellation(o)
  PROVE  [Truth!Next]_(Truth!vars)
<1>1. fact' = fact /\ fact[o].terminal = NoEvent
  BY DEF RequestCancellation
<1>2. Phase' = Phase
  BY <1>1 DEF Phase
<1>3. Phase[o] \notin Truth!TerminalPhases
  BY <1>1 DEF Phase, Truth!TerminalPhases
<1>4. Truth!Request(o)
  BY <1>2, <1>3 DEF Truth!Request, RequestCancellation
<1> QED
  BY <1>4 DEF Truth!Next

(* A step that leaves facts and requests alone is a stutter.               *)
LEMMA QuietRefines ==
  ASSUME UNCHANGED <<fact, request>>
  PROVE  UNCHANGED Truth!vars
<1>1. Phase' = Phase
  BY DEF Phase
<1> QED
  BY <1>1 DEF Truth!vars

(* Every step is an abstract step or leaves the abstract state alone.      *)
LEMMA TruthStep == IInv /\ [Next]_vars => [Truth!Next]_(Truth!vars)
<1> SUFFICES ASSUME IInv, [Next]_vars PROVE [Truth!Next]_(Truth!vars)
  OBVIOUS
<1>t. TypeOK
  BY DEF IInv
<1>1. CASE UNCHANGED <<fact, request>>
  BY <1>1, QuietRefines
<1>2. ASSUME NEW c \in Controllers, CancelAccept(c) \/ LaunchAccept(c)
      PROVE  [Truth!Next]_(Truth!vars)
  <2>1. ctl[c].o \in Objectives
    BY <1>t, <1>2, CurrentObjective DEF CancelAccept, LaunchAccept, Between, TypeOK
  <2> QED
    BY <1>2, <2>1, AcceptedRefines DEF CancelAccept, LaunchAccept
<1>3. ASSUME NEW c \in Controllers, ReconcileIngest(c) PROVE [Truth!Next]_(Truth!vars)
  <2>1. ctl[c].o \in Objectives /\ ObservedEvent(c) \in Events /\ ObservedEvent(c) # NoEvent
    BY <1>t, <1>3, CurrentObjective, ObservedType DEF ReconcileIngest, Between, TypeOK
  <2> QED
    BY <1>1, <1>3, <2>1, IngestRefines DEF ReconcileIngest
<1>4. ASSUME NEW c \in Controllers, ReconcileStarted(c) PROVE [Truth!Next]_(Truth!vars)
  <2>1. ctl[c].o \in Objectives
    BY <1>t, <1>4, CurrentObjective DEF ReconcileStarted, Between, TypeOK
  <2> QED
    BY <1>1, <1>4, <2>1, StartedRefines DEF ReconcileStarted
<1>5. ASSUME NEW o \in Objectives, PostIngest(o) PROVE [Truth!Next]_(Truth!vars)
  <2>1. Worker(post[o].phase) \in Events /\ Worker(post[o].phase) # NoEvent
    BY <1>t, <1>5, PostedEvent DEF PostIngest, TypeOK
  <2> QED
    BY <1>1, <1>5, <2>1, IngestRefines DEF PostIngest
<1>6. ASSUME NEW o \in Objectives, RequestCancellation(o) PROVE [Truth!Next]_(Truth!vars)
  BY <1>6, RequestRefines
<1>7. \/ UNCHANGED <<fact, request>>
      \/ \E c \in Controllers : CancelAccept(c) \/ LaunchAccept(c) \/ ReconcileIngest(c) \/ ReconcileStarted(c)
      \/ \E o \in Objectives : PostIngest(o) \/ RequestCancellation(o)
  <2>1. CASE UNCHANGED vars
    BY <2>1 DEF vars
  <2>2. ASSUME NEW c \in Controllers, Reconcile(c)
        PROVE  UNCHANGED <<fact, request>> \/ CancelAccept(c) \/ ReconcileIngest(c) \/ ReconcileStarted(c)
    BY <2>2 DEF Reconcile, Wake, ReadList, ReconcileSettle, ReconcileMark, ReconcileCancel,
                ReconcileStatus, ReconcileEnsure, CleanupDelete, CleanupCleaned, durable
  <2>3. ASSUME NEW c \in Controllers, Process(c) \/ Crash(c)
        PROVE  UNCHANGED <<fact, request>> \/ LaunchAccept(c)
    BY <2>3 DEF Process, ClaimNothing, ClaimRun, LaunchEnsure, Launched, LaunchFailed, Crash, durable
  <2>4. ASSUME NEW o \in Objectives,
               \/ Submit(o) \/ RetryCancellation(o)
             \/ NotifyRead(o) \/ NotifyRun(o) \/ NotifyCancel(o)
               \/ Handle(o) \/ PostCrash(o) \/ LeaseExpires(o)
               \/ BackendStart(o) \/ BackendExit(o) \/ BackendLoses(o)
               \/ RequestCancellation(o)
               \/ \E q \in WorkerPhases : PostAuthenticate(o, q)
        PROVE  UNCHANGED <<fact, request>> \/ PostIngest(o) \/ RequestCancellation(o)
    BY <2>4 DEF Submit, RetryCancellation, NotifyRead, NotifyRun, NotifyCancel, Handle, PostSettle,
                PostMark, PostCrash, LeaseExpires, BackendStart, BackendExit, BackendLoses, PostAuthenticate, durable
  <2> QED
    BY <2>1, <2>2, <2>3, <2>4, InputAssumption DEF Next
<1> QED
  BY <1>1, <1>2, <1>3, <1>4, <1>5, <1>6, <1>7

(* FirstmateExecutionStore.ingest under all its callers keeps what a user  *)
(* relies on: accepted once, ended at most once, and every cancellation    *)
(* request answered by the fact that ended the objective.                  *)
THEOREM LedgerImplementsTruth == Spec => ImplementsObjectiveTruth
<1>1. Init => Truth!Init
  <2>1. Init => Phase = [o \in Objectives |-> "none"]
    BY DEF Init, Phase
  <2> QED
    BY <2>1 DEF Init, Truth!Init
<1> QED
  BY <1>1, TruthStep, Invariance, PTL DEF Spec, ImplementsObjectiveTruth, Truth!Spec
=============================================================================
