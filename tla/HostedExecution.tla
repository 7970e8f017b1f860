-------------------------- MODULE HostedExecution ---------------------------
(***************************************************************************)
(* Hosted execution of accepted objectives: several gateway instances run  *)
(* the reconciliation loop of gateway/app/hosted_execution.py against one  *)
(* database and one external isolation backend, workers post their events  *)
(* through any instance, and users ask for cancellation.                   *)
(*                                                                         *)
(* One database transaction or one external call is one action.  Between   *)
(* two of them every other process may move, and the process may crash     *)
(* (its program counter is lost, the database is not).                     *)
(***************************************************************************)
EXTENDS Integers, FiniteSets

CONSTANTS
  Objectives,      \* objectives with a submission row, accepted or not
  Controllers,     \* gateway instances running HostedExecutionController.run
  Tenants,         \* tenant keys
  Tenant,          \* Tenant[o]: the tenant of o
  Cancellable,     \* objectives whose user asks for cancellation
  WorkerPhases,    \* terminal phases a worker may report by itself
  MaxGlobal,       \* config.max_global
  MaxPerTenant,    \* config.max_per_tenant
  MaxCrashes,      \* bound on process crashes
  MaxFaults        \* bound on failed calls, lost answers and early lease expiries

ASSUME TenantAssumption == Tenant \in [Objectives -> Tenants]
ASSUME InputAssumption == /\ Cancellable \subseteq Objectives
                          /\ WorkerPhases \subseteq {"completed", "failed", "cancelled"}
ASSUME CapacityAssumption == MaxGlobal \in Nat \ {0} /\ MaxPerTenant \in Nat \ {0}
ASSUME BoundAssumption == MaxCrashes \in Nat /\ MaxFaults \in Nat
ASSUME FinitenessAssumption == IsFiniteSet(Objectives) /\ IsFiniteSet(Controllers)

VARIABLES
  arrival,     \* arrival[o]: order in which the submission was accepted, 0 before
  run,         \* the hosted_execution_runs row of each objective
  leases,      \* number of lease ids drawn so far
  fact,        \* the execution ledger's facts about each objective
  request,     \* status of the objective's cancellation request
  bill,        \* the credit reservation of each objective
  backend,     \* the isolation backend's state of each execution
  allocated,   \* history: the backend has started a worker for o
  ctl,         \* the program counter and locals of each controller
  post,        \* the handler of o's worker posting a terminal event
  notify,      \* the handler of o's cancellation request, and what became of it
  crashes,     \* crashes so far
  faults       \* faults so far

durable == <<arrival, run, leases, fact, request, bill>>
external == <<backend, allocated>>
vars == <<arrival, run, leases, fact, request, bill, backend, allocated,
          ctl, post, notify, crashes, faults>>

RunStates == {"none", "queued", "launching", "running", "terminal"}
BackendStates == {"missing", "queued", "running", "succeeded", "failed", "cancelled"}
Exited == {"succeeded", "failed", "cancelled"}
TerminalPhases == {"completed", "failed", "cancelled"}

(* Terminal events are identified by who reports them and what they say:   *)
(* the prelaunch-cancel and worker-exit event ids are digests of that, the *)
(* worker chooses its own id for the one fact it ends with.                *)
NoEvent == <<"no", "none">>
Prelaunch == <<"prelaunch", "cancelled">>
Exit(obs) == <<"exit", IF obs = "cancelled" THEN "cancelled" ELSE "failed">>
Worker(p) == <<"worker", p>>
Events == {NoEvent, Prelaunch} \cup {Exit(b) : b \in BackendStates} \cup {Worker(p) : p \in TerminalPhases}

NoRun == [state |-> "none", lease |-> 0, expired |-> FALSE, cleaned |-> FALSE]
Queued == [NoRun EXCEPT !.state = "queued"]
Retired(r) == [r EXCEPT !.state = "terminal", !.lease = 0, !.expired = FALSE]

Items == [o : Objectives, finished : BOOLEAN, cancel : BOOLEAN]
Idle == [pc |-> "idle", list |-> "none", todo |-> {}, o |-> "none", lease |-> 0, obs |-> "missing"]

Fault == faults < MaxFaults /\ faults' = faults + 1
-----------------------------------------------------------------------------
(* The isolation backend (external): PUT is idempotent, POST cancel leaves *)
(* a tombstone even when it comes before the PUT, DELETE forgets.          *)
Ensured(b, o) == [b EXCEPT ![o] = IF @ = "missing" THEN "queued" ELSE @]
Cancelled(b, o) == [b EXCEPT ![o] = IF @ \in Exited THEN @ ELSE "cancelled"]
Deleted(b, o) == [b EXCEPT ![o] = "missing"]

BackendStart(o) ==
  /\ backend[o] = "queued"
  /\ backend' = [backend EXCEPT ![o] = "running"]
  /\ allocated' = [allocated EXCEPT ![o] = TRUE]
  /\ UNCHANGED <<durable, ctl, post, notify, crashes, faults>>

BackendExit(o) ==
  /\ backend[o] = "running"
  /\ \E b \in {"succeeded", "failed"} : backend' = [backend EXCEPT ![o] = b]
  /\ UNCHANGED <<durable, allocated, ctl, post, notify, crashes, faults>>

(* The backend restarts without the execution: status answers 404.         *)
BackendLoses(o) ==
  /\ backend[o] \notin {"missing", "cancelled"}
  /\ Fault
  /\ backend' = Deleted(backend, o)
  /\ UNCHANGED <<durable, allocated, ctl, post, notify, crashes>>
-----------------------------------------------------------------------------
(* Mutant: a later terminal event replaces the first. *)
IngestAnything(o, e) == fact[o].accepted

(* FirstmateExecutionStore.ingest of a terminal event: refused when the    *)
(* objective is unknown or has another terminal event; a repeated event is *)
(* accepted and changes nothing; a new one ends the objective and answers  *)
(* its cancellation request in the same transaction.                       *)
IngestAccepts(o, e) == fact[o].accepted /\ fact[o].terminal \in {NoEvent, e}

(* Mutant: the cancellation request is left open. *)
AnswerNever(status, e) == status

Answer(status, e) ==
  IF e[2] = "cancelled"
  THEN IF status \in {"requested", "failed"} THEN "observed" ELSE status
  ELSE IF status = "requested" THEN "failed" ELSE status

IngestTerminal(o, e) ==
  /\ IngestAccepts(o, e)
  /\ fact' = [fact EXCEPT ![o].terminal = e]
  /\ request' = IF fact[o].terminal = e THEN request ELSE [request EXCEPT ![o] = Answer(@, e)]

(* settle_objective: the hold is settled by the event, or already was.     *)
Settle(o, e) ==
  /\ \/ bill[o].status = "reserved"
     \/ bill[o].status = "settled" /\ bill[o].event = e
  /\ bill' = [bill EXCEPT ![o] = [status |-> "settled", event |-> e]]

MarkTerminal(o) == run' = [run EXCEPT ![o] = Retired(@)]
-----------------------------------------------------------------------------
(* An objective's submission row becomes accepted; its credits are held.   *)
(* Until then, and for ever if its dispatch fails, it is only submitting.  *)
Submit(o) ==
  /\ arrival[o] = 0
  /\ arrival' = [arrival EXCEPT ![o] = 1 + Cardinality({p \in Objectives : arrival[p] > 0})]
  /\ bill' = [bill EXCEPT ![o].status = "reserved"]
  /\ UNCHANGED <<run, leases, fact, request, external, ctl, post, notify, crashes, faults>>

(* ObjectiveCancellationService.request: the row is written unless the     *)
(* objective has finished or already has one.  The submission need not be  *)
(* accepted, now or ever.                                                  *)
RequestCancellation(o) ==
  /\ request[o] = "none"
  /\ fact[o].terminal = NoEvent
  /\ request' = [request EXCEPT ![o] = "requested"]
  /\ notify' = [notify EXCEPT ![o] = "read"]
  /\ UNCHANGED <<arrival, run, leases, fact, bill, external, ctl, post, crashes, faults>>

(* The user repeats a request whose delivery failed.                       *)
RetryCancellation(o) ==
  /\ request[o] = "requested"
  /\ notify[o] = "undelivered"
  /\ notify' = [notify EXCEPT ![o] = "read"]
  /\ UNCHANGED <<durable, external, ctl, post, crashes, faults>>

(* _notify: an open request's run is looked up; an allocated one is        *)
(* cancelled at the backend right away, any other is left to the           *)
(* controllers.  A request that was answered meanwhile is not delivered.   *)
NotifyRead(o) ==
  /\ notify[o] = "read"
  /\ notify' = [notify EXCEPT ![o] = IF request[o] = "requested" THEN "run" ELSE "undelivered"]
  /\ UNCHANGED <<durable, external, ctl, post, crashes, faults>>

NotifyRun(o) ==
  /\ notify[o] = "run"
  /\ notify' = [notify EXCEPT ![o] =
        IF run[o].state \in {"launching", "running"} THEN "cancel" ELSE "delivered"]
  /\ UNCHANGED <<durable, external, ctl, post, crashes, faults>>

NotifyCancel(o) ==
  /\ notify[o] = "cancel"
  /\ \/ /\ backend' = Cancelled(backend, o)
        /\ notify' = [notify EXCEPT ![o] = "delivered"]
        /\ UNCHANGED faults
     \/ /\ Fault
        /\ notify' = [notify EXCEPT ![o] = "undelivered"]
        /\ UNCHANGED backend
  /\ UNCHANGED <<durable, allocated, ctl, post, crashes>>
-----------------------------------------------------------------------------
(* post_hosted_event with a terminal event: authenticate against a running *)
(* run, ingest, settle, mark_terminal.                                     *)
PostDone == [pc |-> "idle", phase |-> "none"]

(* Mutant: the handler drops the phase of the event it was given. *)
PostForgets(p) == [pc |-> "ingest", phase |-> "none"]

PostEvent(p) == [pc |-> "ingest", phase |-> p]

PostAuthenticate(o, p) ==
  /\ post[o].pc = "idle"
  /\ allocated[o]
  /\ run[o].state = "running"
  /\ post' = [post EXCEPT ![o] = PostEvent(p)]
  /\ UNCHANGED <<durable, external, ctl, notify, crashes, faults>>

PostIngest(o) ==
  /\ post[o].pc = "ingest"
  /\ \/ /\ IngestTerminal(o, Worker(post[o].phase))
        /\ post' = [post EXCEPT ![o].pc = "settle"]
     \/ /\ ~IngestAccepts(o, Worker(post[o].phase))
        /\ post' = [post EXCEPT ![o] = PostDone]
        /\ UNCHANGED <<fact, request>>
  /\ UNCHANGED <<arrival, run, leases, bill, external, ctl, notify, crashes, faults>>

PostSettle(o) ==
  /\ post[o].pc = "settle"
  /\ \/ /\ Settle(o, Worker(post[o].phase))
        /\ post' = [post EXCEPT ![o].pc = "mark"]
        /\ UNCHANGED faults
     \/ /\ Fault
        /\ post' = [post EXCEPT ![o] = PostDone]
        /\ UNCHANGED bill
  /\ UNCHANGED <<arrival, run, leases, fact, request, external, ctl, notify, crashes>>

PostMark(o) ==
  /\ post[o].pc = "mark"
  /\ MarkTerminal(o)
  /\ post' = [post EXCEPT ![o] = PostDone]
  /\ UNCHANGED <<arrival, leases, fact, request, bill, external, ctl, notify, crashes, faults>>

PostCrash(o) ==
  /\ post[o].pc # "idle"
  /\ crashes < MaxCrashes
  /\ crashes' = crashes + 1
  /\ post' = [post EXCEPT ![o] = PostDone]
  /\ UNCHANGED <<durable, external, ctl, notify, faults>>
-----------------------------------------------------------------------------
(* The three lists reconcile_once walks.  Each is read once and then used, *)
(* item by item, while the rows may change.                                *)
RunsIn(state) == {o \in Objectives : run[o].state = state}
Item(o) == [o |-> o, finished |-> fact[o].terminal # NoEvent, cancel |-> request[o] = "requested"]

(* Mutant: only objectives with an accepted event are looked at. *)
QueuedCancellationsOfAccepted ==
  {Item(o) : o \in {p \in RunsIn("queued") : request[p] = "requested" /\ fact[p].accepted}}

QueuedCancellations == {Item(o) : o \in {p \in RunsIn("queued") : request[p] = "requested"}}
ActiveRuns == {Item(o) : o \in RunsIn("running")}
PendingCleanup == {Item(o) : o \in {p \in RunsIn("terminal") : ~run[p].cleaned}}

FirstStep(list, i) ==
  IF list = "cancels" THEN "accept"
  ELSE IF list = "cleanup" THEN "delete"
  ELSE IF i.finished THEN "mark"
  ELSE IF i.cancel THEN "cancel" ELSE "status"

Oldest(S) == {i \in S : \A j \in S : arrival[i.o] <= arrival[j.o]}

(* Where a loop goes after an item, or after reading its list.             *)
Following(list, todo) ==
  IF todo = {}
  THEN {[Idle EXCEPT !.pc = "read", !.list = list]}
  ELSE {[Idle EXCEPT !.pc = FirstStep(list, i), !.list = list, !.todo = todo \ {i}, !.o = i.o] :
          i \in Oldest(todo)}

Goto(c, label) == ctl' = [ctl EXCEPT ![c].pc = label]
Raise(c) == ctl' = [ctl EXCEPT ![c] = Idle]
Continue(c, list, todo) == \E r \in Following(list, todo) : ctl' = [ctl EXCEPT ![c] = r]
NextItem(c) == Continue(c, ctl[c].list, ctl[c].todo)

(* run: poll_seconds have passed and reconcile_once starts.                *)
Wake(c) ==
  /\ ctl[c].pc = "idle"
  /\ Continue(c, "cancels", QueuedCancellations)
  /\ UNCHANGED <<durable, external, post, notify, crashes, faults>>

(* The list is exhausted: read the next one, and after the last one turn   *)
(* to process_once.                                                        *)
ReadList(c) ==
  /\ ctl[c].pc = "read"
  /\ CASE ctl[c].list = "cancels" -> Continue(c, "active", ActiveRuns)
       [] ctl[c].list = "active"  -> Continue(c, "cleanup", PendingCleanup)
       [] OTHER -> ctl' = [ctl EXCEPT ![c] = [Idle EXCEPT !.pc = "claim"]]
  /\ UNCHANGED <<durable, external, post, notify, crashes, faults>>

(* _accepted_event: the deterministic event is ingested once.              *)
AcceptedEvent(o) == fact' = [fact EXCEPT ![o].accepted = TRUE]

CancelAccept(c) ==
  /\ ctl[c].pc = "accept"
  /\ AcceptedEvent(ctl[c].o)
  /\ Goto(c, "ingest")
  /\ UNCHANGED <<arrival, run, leases, request, bill, external, post, notify, crashes, faults>>

(* The terminal event reconcile_once reports for the current item.         *)
ObservedEvent(c) == IF ctl[c].list = "cancels" THEN Prelaunch ELSE Exit(ctl[c].obs)

ReconcileIngest(c) ==
  /\ ctl[c].pc = "ingest"
  /\ \/ IngestTerminal(ctl[c].o, ObservedEvent(c)) /\ Goto(c, "settle")
     \/ ~IngestAccepts(ctl[c].o, ObservedEvent(c)) /\ Raise(c) /\ UNCHANGED <<fact, request>>
  /\ UNCHANGED <<arrival, run, leases, bill, external, post, notify, crashes, faults>>

ReconcileSettle(c) ==
  /\ ctl[c].pc = "settle"
  /\ \/ Settle(ctl[c].o, ObservedEvent(c)) /\ Goto(c, "mark") /\ UNCHANGED faults
     \/ Fault /\ Raise(c) /\ UNCHANGED bill
  /\ UNCHANGED <<arrival, run, leases, fact, request, external, post, notify, crashes>>

ReconcileMark(c) ==
  /\ ctl[c].pc = "mark"
  /\ MarkTerminal(ctl[c].o)
  /\ NextItem(c)
  /\ UNCHANGED <<arrival, leases, fact, request, bill, external, post, notify, crashes, faults>>

(* An active run whose request was pending when the list was read.         *)
ReconcileCancel(c) ==
  /\ ctl[c].pc = "cancel"
  /\ \/ backend' = Cancelled(backend, ctl[c].o) /\ Goto(c, "status") /\ UNCHANGED faults
     \/ Fault /\ Raise(c) /\ UNCHANGED backend
  /\ UNCHANGED <<durable, allocated, post, notify, crashes>>

ReconcileStatus(c) ==
  LET seen == backend[ctl[c].o] IN
  /\ ctl[c].pc = "status"
  /\ \/ /\ CASE seen = "missing" -> Goto(c, "ensure")
             [] seen = "queued"  -> NextItem(c)
             [] OTHER -> ctl' = [ctl EXCEPT ![c].pc = "started", ![c].obs = seen]
        /\ UNCHANGED faults
     \/ Fault /\ Raise(c)
  /\ UNCHANGED <<durable, external, post, notify, crashes>>

ReconcileEnsure(c) ==
  /\ ctl[c].pc = "ensure"
  /\ \/ backend' = Ensured(backend, ctl[c].o) /\ NextItem(c) /\ UNCHANGED faults
     \/ Fault /\ backend' \in {backend, Ensured(backend, ctl[c].o)} /\ Raise(c)
  /\ UNCHANGED <<durable, allocated, post, notify, crashes>>

(* worker.started, then either the next item or the worker's exit.         *)
ReconcileStarted(c) ==
  LET o == ctl[c].o IN
  /\ ctl[c].pc = "started"
  /\ IF fact[o].started \/ fact[o].terminal = NoEvent
     THEN /\ fact' = [fact EXCEPT ![o].started = TRUE]
          /\ IF ctl[c].obs \in Exited THEN Goto(c, "ingest") ELSE NextItem(c)
     ELSE Raise(c) /\ UNCHANGED fact
  /\ UNCHANGED <<arrival, run, leases, request, bill, external, post, notify, crashes, faults>>

CleanupDelete(c) ==
  /\ ctl[c].pc = "delete"
  /\ \/ backend' = Deleted(backend, ctl[c].o) /\ Goto(c, "cleaned") /\ UNCHANGED faults
     \/ Fault /\ Raise(c) /\ UNCHANGED backend
  /\ UNCHANGED <<durable, allocated, post, notify, crashes>>

CleanupCleaned(c) ==
  /\ ctl[c].pc = "cleaned"
  /\ run' = [run EXCEPT ![ctl[c].o].cleaned = TRUE]
  /\ NextItem(c)
  /\ UNCHANGED <<arrival, leases, fact, request, bill, external, post, notify, crashes, faults>>
-----------------------------------------------------------------------------
(* Mutant: expired launches stay launching. *)
RefreshedKeepsExpired ==
  [o \in Objectives |-> IF run[o].state = "none" /\ arrival[o] > 0 THEN Queued ELSE run[o]]

(* HostedExecutionStore.claim, one transaction: accepted submissions       *)
(* without a row get one, launches whose lease expired go back to the      *)
(* queue, and the oldest queued run whose tenant has capacity and that     *)
(* nobody asked to cancel is leased.                                       *)
Refreshed ==
  [o \in Objectives |->
     IF (run[o].state = "none" /\ arrival[o] > 0) \/ (run[o].state = "launching" /\ run[o].expired)
     THEN Queued ELSE run[o]]

Allocated(rows) == {o \in Objectives : rows[o].state \in {"launching", "running"}}

(* Mutant: tenants are not bounded. *)
TenantAlwaysHasRoom(rows, t) == TRUE

GlobalRoom(rows) == Cardinality(Allocated(rows)) < MaxGlobal
TenantRoom(rows, t) == Cardinality({o \in Allocated(rows) : Tenant[o] = t}) < MaxPerTenant

Candidates ==
  {o \in Objectives : /\ Refreshed[o].state = "queued"
                      /\ request[o] # "requested"
                      /\ TenantRoom(Refreshed, Tenant[o])}

ClaimNothing(c) ==
  /\ ctl[c].pc = "claim"
  /\ ~GlobalRoom(Refreshed) \/ Candidates = {}
  /\ run' = Refreshed
  /\ Raise(c)
  /\ UNCHANGED <<arrival, leases, fact, request, bill, external, post, notify, crashes, faults>>

ClaimRun(c) ==
  /\ ctl[c].pc = "claim"
  /\ GlobalRoom(Refreshed)
  /\ \E o \in Candidates :
       /\ \A p \in Candidates : arrival[o] <= arrival[p]
       /\ leases' = leases + 1
       /\ run' = [Refreshed EXCEPT ![o] =
                    [@ EXCEPT !.state = "launching", !.lease = leases + 1, !.expired = FALSE]]
       /\ ctl' = [ctl EXCEPT ![c] = [Idle EXCEPT !.pc = "launchAccept", !.o = o, !.lease = leases + 1]]
  /\ UNCHANGED <<arrival, fact, request, bill, external, post, notify, crashes, faults>>

(* Mutant: the accepted event is not published. *)
LaunchWithoutAccept(c) ==
  /\ ctl[c].pc = "launchAccept"
  /\ Goto(c, "launchEnsure")
  /\ UNCHANGED <<durable, external, post, notify, crashes, faults>>

LaunchAccept(c) ==
  /\ ctl[c].pc = "launchAccept"
  /\ AcceptedEvent(ctl[c].o)
  /\ Goto(c, "launchEnsure")
  /\ UNCHANGED <<arrival, run, leases, request, bill, external, post, notify, crashes, faults>>

(* The PUT succeeds, fails, or succeeds with its answer lost.              *)
LaunchEnsure(c) ==
  /\ ctl[c].pc = "launchEnsure"
  /\ \/ backend' = Ensured(backend, ctl[c].o) /\ Goto(c, "launched") /\ UNCHANGED faults
     \/ Fault /\ backend' \in {backend, Ensured(backend, ctl[c].o)} /\ Goto(c, "launchFailed")
  /\ UNCHANGED <<durable, allocated, post, notify, crashes>>

(* Mutant: launched does not compare the lease. *)
HoldsAnyLease(c) == TRUE

HoldsLease(c) ==
  /\ run[ctl[c].o].state = "launching"
  /\ run[ctl[c].o].lease = ctl[c].lease

(* launched: only the current lease moves the run; a lost lease raises.    *)
Launched(c) ==
  /\ ctl[c].pc = "launched"
  /\ IF HoldsLease(c)
     THEN /\ run' = [run EXCEPT ![ctl[c].o] = [@ EXCEPT !.state = "running", !.lease = 0, !.expired = FALSE]]
          /\ ctl' = [ctl EXCEPT ![c] = [Idle EXCEPT !.pc = "claim"]]
     ELSE Goto(c, "launchFailed") /\ UNCHANGED run
  /\ UNCHANGED <<arrival, leases, fact, request, bill, external, post, notify, crashes, faults>>

LaunchFailed(c) ==
  /\ ctl[c].pc = "launchFailed"
  /\ run' = IF HoldsLease(c) THEN [run EXCEPT ![ctl[c].o] = Queued] ELSE run
  /\ Raise(c)
  /\ UNCHANGED <<arrival, leases, fact, request, bill, external, post, notify, crashes, faults>>

Crash(c) ==
  /\ ctl[c].pc # "idle"
  /\ crashes < MaxCrashes
  /\ crashes' = crashes + 1
  /\ Raise(c)
  /\ UNCHANGED <<durable, external, post, notify, faults>>

(* A lease runs out: of course when its holder is gone, and as a fault     *)
(* when its holder is merely slower than lease_ms.                         *)
Abandoned(o) == \A c \in Controllers : ctl[c].pc = "idle" \/ ctl[c].o # o \/ ctl[c].lease # run[o].lease

LeaseExpires(o) ==
  /\ run[o].state = "launching" /\ ~run[o].expired
  /\ run' = [run EXCEPT ![o].expired = TRUE]
  /\ IF Abandoned(o) THEN UNCHANGED faults ELSE Fault
  /\ UNCHANGED <<arrival, leases, fact, request, bill, external, ctl, post, notify, crashes>>
-----------------------------------------------------------------------------
Init ==
  /\ arrival = [o \in Objectives |-> 0]
  /\ run = [o \in Objectives |-> NoRun]
  /\ leases = 0
  /\ fact = [o \in Objectives |-> [accepted |-> FALSE, started |-> FALSE, terminal |-> NoEvent]]
  /\ request = [o \in Objectives |-> "none"]
  /\ bill = [o \in Objectives |-> [status |-> "none", event |-> NoEvent]]
  /\ backend = [o \in Objectives |-> "missing"]
  /\ allocated = [o \in Objectives |-> FALSE]
  /\ ctl = [c \in Controllers |-> Idle]
  /\ post = [o \in Objectives |-> PostDone]
  /\ notify = [o \in Objectives |-> "none"]
  /\ crashes = 0
  /\ faults = 0

Reconcile(c) ==
  \/ Wake(c) \/ ReadList(c) \/ CancelAccept(c)
  \/ ReconcileIngest(c) \/ ReconcileSettle(c) \/ ReconcileMark(c)
  \/ ReconcileCancel(c) \/ ReconcileStatus(c) \/ ReconcileEnsure(c) \/ ReconcileStarted(c)
  \/ CleanupDelete(c) \/ CleanupCleaned(c)

Process(c) ==
  \/ ClaimNothing(c) \/ ClaimRun(c) \/ LaunchAccept(c) \/ LaunchEnsure(c)
  \/ Launched(c) \/ LaunchFailed(c)

Handle(o) == PostIngest(o) \/ PostSettle(o) \/ PostMark(o)

Next ==
  \/ \E c \in Controllers : Reconcile(c) \/ Process(c) \/ Crash(c)
  \/ \E o \in Objectives :
        \/ Submit(o) \/ RetryCancellation(o)
        \/ NotifyRead(o) \/ NotifyRun(o) \/ NotifyCancel(o)
        \/ Handle(o) \/ PostCrash(o) \/ LeaseExpires(o)
        \/ BackendStart(o) \/ BackendExit(o) \/ BackendLoses(o)
        \/ \E p \in WorkerPhases : PostAuthenticate(o, p)
  \/ \E o \in Cancellable : RequestCancellation(o)

(* Each instance keeps its loop running, requests are served, a lease ends *)
(* when its time is over and the backend starts and bounds every worker.   *)
Fairness ==
  /\ \A c \in Controllers : WF_vars(Reconcile(c) \/ Process(c))
  /\ \A o \in Objectives :
       /\ WF_vars(Handle(o))
       /\ WF_vars(LeaseExpires(o))
       /\ WF_vars(BackendStart(o))
       /\ WF_vars(BackendExit(o))

Spec == Init /\ [][Next]_vars
-----------------------------------------------------------------------------
Labels == {"idle", "read", "accept", "ingest", "settle", "mark", "cancel", "status", "ensure",
           "started", "delete", "cleaned", "claim", "launchAccept", "launchEnsure", "launched",
           "launchFailed"}
Lists == {"none", "cancels", "active", "cleanup"}

Rows == [state : RunStates, lease : Nat, expired : BOOLEAN, cleaned : BOOLEAN]
Facts == [accepted : BOOLEAN, started : BOOLEAN, terminal : Events]
Requests == {"none", "requested", "observed", "failed"}
Bills == [status : {"none", "reserved", "settled"}, event : Events]
Between == {"idle", "read", "claim"}
Locals == {r \in [pc : Labels, list : Lists, todo : SUBSET Items, o : Objectives \cup {"none"},
                  lease : Nat, obs : BackendStates] :
             r.pc \notin Between => r.o \in Objectives}
Posts == {r \in [pc : {"idle", "ingest", "settle", "mark"}, phase : TerminalPhases \cup {"none"}] :
             r.pc # "idle" => r.phase \in TerminalPhases}

TypeOK ==
  /\ arrival \in [Objectives -> Nat]
  /\ run \in [Objectives -> Rows]
  /\ leases \in Nat
  /\ fact \in [Objectives -> Facts]
  /\ request \in [Objectives -> Requests]
  /\ bill \in [Objectives -> Bills]
  /\ backend \in [Objectives -> BackendStates]
  /\ allocated \in [Objectives -> BOOLEAN]
  /\ ctl \in [Controllers -> Locals]
  /\ post \in [Objectives -> Posts]
  /\ notify \in [Objectives -> {"none", "read", "run", "cancel", "delivered", "undelivered"}]
  /\ crashes \in Nat /\ faults \in Nat

(* However many instances claim, crash, lose leases and retry, the rows    *)
(* that count as allocated never exceed max_global, nor max_per_tenant for *)
(* any tenant.                                                             *)
CapacityRespected ==
  /\ Cardinality(Allocated(run)) <= MaxGlobal
  /\ \A t \in Tenants : Cardinality({o \in Allocated(run) : Tenant[o] = t}) <= MaxPerTenant

(* A worker is launched, and a run ends, only for an objective whose       *)
(* accepted event is durable: the events of a worker are never refused for *)
(* want of their objective.                                                *)
RunningIsAccepted ==
  \A o \in Objectives :
    run[o].state \in {"running", "terminal"} \/ allocated[o] => fact[o].accepted

(* The hold of an objective is settled only by the fact that ended it,     *)
(* whichever of the controllers and the worker reported it first.          *)
SettledByTerminalFact ==
  \A o \in Objectives :
    bill[o].status = "settled" => bill[o].event = fact[o].terminal /\ fact[o].terminal # NoEvent

(* mark_terminal retires the worker's bearer.  No late launch, failed      *)
(* launch, lease recovery or claim of any instance brings the run back.    *)
RetiredIsFinal ==
  [][\A o \in Objectives : run[o].state = "terminal" => run'[o].state = "terminal"]_vars

(* The execution ledger keeps what users rely on (ObjectiveTruth).         *)
Phase == [o \in Objectives |->
            IF fact[o].terminal # NoEvent THEN fact[o].terminal[2]
            ELSE IF fact[o].accepted THEN "accepted" ELSE "none"]
Truth == INSTANCE ObjectiveTruth WITH phase <- Phase
ImplementsObjectiveTruth == Truth!Spec

(* Every accepted submission is eventually finished and cleaned up.        *)
EveryRunDrains ==
  \A o \in Objectives : arrival[o] > 0 ~> (run[o].state = "terminal" /\ run[o].cleaned)

(* A cancellation request, made before or after its submission was         *)
(* accepted, is eventually answered once the submission is accepted; of a  *)
(* submission that is never accepted nothing runs, and its request stays   *)
(* requested.  An answered request may be opened again by the recovery of  *)
(* a starting instance (RecoverReopen of CancellationRecovery).            *)
EveryRequestIsAnswered ==
  \A o \in Objectives :
    request[o] = "requested" /\ arrival[o] > 0 /\ fact[o].terminal = NoEvent
      ~> request[o] \in {"observed", "failed"}

(* reconcile_once: "Persist normal accepted/cancelled facts without ever   *)
(* creating external execution" (hosted_execution.py:593): an objective    *)
(* cancelled before its launch has no worker.                              *)
PrelaunchCancelHasNoWorker ==
  \A o \in Objectives : fact[o].terminal = Prelaunch => backend[o] \notin {"queued", "running"}

(* Some handler is still on its way to settle o's hold.                    *)
SettlementPending(o) ==
  \/ post[o].pc # "idle"
  \/ \E c \in Controllers :
       ctl[c].o = o /\ ctl[c].pc \in {"accept", "cancel", "status", "started", "ingest", "settle"}

(* "The exact catalog rate settles the reservation", and the usage ledger  *)
(* retains the cost "for each terminal event" (docs/billing-and-credits.md *)
(* lines 32 and 34): the hold of a retired run, whose worker can no longer *)
(* authenticate, is settled unless somebody is still about to settle it.   *)
RetiredIsSettled ==
  \A o \in Objectives :
    run[o].state = "terminal" => bill[o].status = "settled" \/ SettlementPending(o)
=============================================================================
