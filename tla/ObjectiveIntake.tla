--------------------------- MODULE ObjectiveIntake --------------------------
(***************************************************************************)
(* Submission of objectives: the chat tool claims a submission row, holds  *)
(* credits, publishes the task and accepts the row (FirstmateObjectiveTools*)
(* .execute), and every gateway instance recovers interrupted submissions  *)
(* once when it starts (reconcile_pending_objective_intake).               *)
(*                                                                         *)
(* One database transaction or one dispatch is one action.  An instance    *)
(* has two threads, its chat requests and its startup recovery; a crash    *)
(* ends both and is followed by a restart.  Modelled is the metered mode:  *)
(* the personal mode refuses every submission before it is published.      *)
(***************************************************************************)
EXTENDS Integers

CONSTANTS
  Objectives,       \* objective identities, one per tool invocation
  Instances,        \* gateway instances
  StartupRetries,   \* MAX_STARTUP_INTAKE_RETRIES
  MaxTries,         \* bound on the attempts made from chat
  MaxFaults,        \* bound on failed or cancelled calls and slow leases
  MaxCrashes        \* bound on crashes

ASSUME RetryAssumption == StartupRetries \in Nat \ {0} /\ MaxTries \in Nat \ {0}
ASSUME BoundAssumption == MaxFaults \in Nat /\ MaxCrashes \in Nat

VARIABLES
  row,       \* the magi_objective_submissions row of each objective
  hold,      \* the status of its credit reservation
  task,      \* whether Firstmate has its task
  thread,    \* thread[t]: program counter and locals
  faults,    \* faults so far
  crashes    \* crashes so far

vars == <<row, hold, task, thread, faults, crashes>>

Threads == Instances \X {"chat", "boot"}

(* legible: the stored contract is one that later releases still parse.    *)
NoRow == [status |-> "none", attempt |-> 0, leased |-> FALSE, legible |-> TRUE]
Claimed(r, n) == [r EXCEPT !.status = "submitting", !.attempt = n, !.leased = TRUE]
Pending == {"submitting", "failed"}

(* held: the reservation this thread was given was still reserved.         *)
(* todo: what recovery read of the rows it has still to look at.           *)
Resting == [pc |-> "idle", o |-> "none", attempt |-> 0, held |-> FALSE, todo |-> {}]
Down == [Resting EXCEPT !.pc = "down"]

Fault == faults < MaxFaults /\ faults' = faults + 1

(* A chat request ends, recovery goes on with its list.                    *)
Between(t) == [Resting EXCEPT !.todo = thread[t].todo]
Finish(t) == thread' = [thread EXCEPT ![t] = Between(t)]
Goto(t, label) == thread' = [thread EXCEPT ![t].pc = label]

(* Mutant: the claim is not handed to the submission. *)
WorkUnnamed(t, o, n) == Goto(t, "reserve")

Work(t, o, n) ==
  thread' = [thread EXCEPT ![t] = [Between(t) EXCEPT !.pc = "reserve", !.o = o, !.attempt = n]]
-----------------------------------------------------------------------------
(* ObjectiveSubmissionStore.claim: a new row, or another attempt at a      *)
(* failed one or at one whose lease ran out.  An accepted row is returned  *)
(* and a leased one refused; neither changes anything.                     *)
Claimable(o) ==
  \/ row[o].status \in {"none", "failed"}
  \/ row[o].status = "submitting" /\ ~row[o].leased

Claim(t, o) ==
  /\ t[2] = "chat"
  /\ thread[<<t[1], "boot">>].pc # "down"
  /\ thread[t].pc = "idle"
  /\ Claimable(o)
  /\ row[o].attempt < MaxTries
  /\ \E legible \in IF row[o].status = "none" THEN BOOLEAN ELSE {row[o].legible} :
       row' = [row EXCEPT ![o] = Claimed([@ EXCEPT !.legible = legible], @.attempt + 1)]
  /\ Work(t, o, row[o].attempt + 1)
  /\ UNCHANGED <<hold, task, faults, crashes>>

(* Mutant: a row that was recovered once is not recovered again. *)
RecoverableOnce == {o \in Objectives : row[o].status \in Pending /\ row[o].attempt < 2}

(* Startup: recovery reads the rows it will retry.  The cutoff excludes    *)
(* rows written since the process started, its own chat's among them, so   *)
(* that start and read are one step and no chat of this instance precedes  *)
(* it.                                                                     *)
Recoverable == {o \in Objectives : row[o].status \in Pending /\ row[o].attempt < StartupRetries}

Boot(t) ==
  /\ thread[t].pc = "down"
  /\ thread' = [thread EXCEPT ![t] =
        [Resting EXCEPT !.todo = {[o |-> o, attempt |-> row[o].attempt] : o \in Recoverable}]]
  /\ UNCHANGED <<row, hold, task, faults, crashes>>

Dropped(t, i) == [thread[t] EXCEPT !.todo = @ \ {i}]

(* Mutant: the attempt is not compared. *)
AnyStillPending(i) == row[i.o].status \in Pending

StillPending(i) == row[i.o].status \in Pending /\ row[i.o].attempt = i.attempt

(* The conditional update that makes the row this recovery's.              *)
Recover(t, i) ==
  /\ thread[t].pc = "idle"
  /\ i \in thread[t].todo
  /\ row[i.o].legible
  /\ IF StillPending(i)
     THEN /\ row' = [row EXCEPT ![i.o] = Claimed(@, i.attempt + 1)]
          /\ thread' = [thread EXCEPT ![t] =
                [Dropped(t, i) EXCEPT !.pc = "reserve", !.o = i.o, !.attempt = i.attempt + 1]]
     ELSE thread' = [thread EXCEPT ![t] = Dropped(t, i)] /\ UNCHANGED row
  /\ UNCHANGED <<hold, task, faults, crashes>>

(* A stored contract that no longer parses is given up for good.           *)
GiveUp(t, i) ==
  /\ thread[t].pc = "idle"
  /\ i \in thread[t].todo
  /\ ~row[i.o].legible
  /\ IF row[i.o].status \in Pending
     THEN /\ row' = [row EXCEPT ![i.o] =
                [@ EXCEPT !.status = "failed", !.attempt = StartupRetries, !.leased = FALSE]]
          /\ thread' = [thread EXCEPT ![t] = [Dropped(t, i) EXCEPT !.pc = "release", !.o = i.o]]
     ELSE thread' = [thread EXCEPT ![t] = Dropped(t, i)] /\ UNCHANGED row
  /\ UNCHANGED <<hold, task, faults, crashes>>
-----------------------------------------------------------------------------
(* Mutant: recovery relies on the hold of the interrupted attempt. *)
ReserveNothing(t) ==
  /\ thread[t].pc = "reserve"
  /\ Goto(t, "dispatch")
  /\ UNCHANGED <<row, hold, task, faults, crashes>>

(* reserve_objective: an existing reservation is returned whatever its     *)
(* status; a new one is taken unless the balance, the entitlement or a     *)
(* limit refuses it.                                                       *)
Reserve(t) ==
  LET o == thread[t].o IN
  /\ thread[t].pc = "reserve"
  /\ \/ /\ hold' = [hold EXCEPT ![o] = IF @ = "none" THEN "reserved" ELSE @]
        /\ thread' = [thread EXCEPT ![t].pc = "dispatch", ![t].held = hold[o] \in {"none", "reserved"}]
        /\ UNCHANGED faults
     \/ /\ hold[o] = "none"
        /\ Fault
        /\ Goto(t, "fail")
        /\ UNCHANGED hold
  /\ UNCHANGED <<row, task, crashes>>

(* ObjectiveDispatcher.submit: the task is published under its             *)
(* deterministic identity, or the dispatch fails, and then the task may    *)
(* still have been published (the wake failed, the answer came too late).  *)
Dispatch(t) ==
  LET published == [task EXCEPT ![thread[t].o] = TRUE] IN
  /\ thread[t].pc = "dispatch"
  /\ \/ task' = published /\ Goto(t, "accept") /\ UNCHANGED faults
     \/ Fault /\ task' \in {task, published} /\ Goto(t, "fail")
  /\ UNCHANGED <<row, hold, crashes>>

Accept(t) ==
  /\ thread[t].pc = "accept"
  /\ row' = [row EXCEPT ![thread[t].o] = [@ EXCEPT !.status = "accepted", !.leased = FALSE]]
  /\ Finish(t)
  /\ UNCHANGED <<hold, task, faults, crashes>>

(* Mutant: a failure is recorded over an acceptance. *)
MayFailAnything(o) == TRUE

MayFail(o) == row[o].status # "accepted"

(* A failure that the store cannot record is dropped, and nothing is       *)
(* released for it.                                                        *)
Fail(t) ==
  LET o == thread[t].o IN
  /\ thread[t].pc = "fail"
  /\ \/ /\ MayFail(o)
        /\ row' = [row EXCEPT ![o] = [@ EXCEPT !.status = "failed", !.leased = FALSE]]
        /\ IF thread[t].held THEN Goto(t, "release") ELSE Finish(t)
        /\ UNCHANGED faults
     \/ ~MayFail(o) /\ Finish(t) /\ UNCHANGED <<row, faults>>
     \/ Fault /\ Finish(t) /\ UNCHANGED row
  /\ UNCHANGED <<hold, task, crashes>>

(* release_objective: only a reservation that is still reserved.           *)
Release(t) ==
  /\ thread[t].pc = "release"
  /\ hold' = [hold EXCEPT ![thread[t].o] = IF @ = "reserved" THEN "released" ELSE @]
  /\ Finish(t)
  /\ UNCHANGED <<row, task, faults, crashes>>

(* A cancelled request or an error nobody handles ends the request, or the *)
(* whole recovery pass, where it stands; a dispatch may have published.    *)
Interrupt(t) ==
  LET published == [task EXCEPT ![thread[t].o] = TRUE] IN
  /\ thread[t].pc \in {"reserve", "dispatch", "accept", "release"}
  /\ Fault
  /\ IF thread[t].pc = "dispatch" THEN task' \in {task, published} ELSE UNCHANGED task
  /\ thread' = [thread EXCEPT ![t] = Resting]
  /\ UNCHANGED <<row, hold, crashes>>
-----------------------------------------------------------------------------
Working(t) == thread[t].pc \notin {"idle", "down"}

(* OBJECTIVE_DISPATCH_LEASE_MS pass: of course when nobody is at the row,  *)
(* and as a fault when its dispatcher is merely slow.                      *)
LeaseEnds(o) ==
  /\ row[o].leased
  /\ row' = [row EXCEPT ![o].leased = FALSE]
  /\ IF \E t \in Threads : Working(t) /\ thread[t].o = o THEN Fault ELSE UNCHANGED faults
  /\ UNCHANGED <<hold, task, thread, crashes>>

(* Execution settles the hold of a task it was given (external).           *)
Settle(o) ==
  /\ task[o] /\ hold[o] = "reserved"
  /\ hold' = [hold EXCEPT ![o] = "settled"]
  /\ UNCHANGED <<row, task, thread, faults, crashes>>

Restarted(i) == [thread EXCEPT ![<<i, "chat">>] = Resting, ![<<i, "boot">>] = Down]

(* An instance that has nothing to do is restarted, by a deploy say.       *)
Restart(i) ==
  /\ \A k \in {"chat", "boot"} : thread[<<i, k>>] = Resting
  /\ thread' = Restarted(i)
  /\ UNCHANGED <<row, hold, task, faults, crashes>>

(* A dispatch under way may still publish when its instance goes down.     *)
Crash(i) ==
  LET dispatched == {o \in Objectives :
                       \E k \in {"chat", "boot"} : thread[<<i, k>>].pc = "dispatch" /\ thread[<<i, k>>].o = o} IN
  /\ crashes < MaxCrashes
  /\ crashes' = crashes + 1
  /\ thread' = Restarted(i)
  /\ \E S \in SUBSET dispatched : task' = [o \in Objectives |-> task[o] \/ o \in S]
  /\ UNCHANGED <<row, hold, faults>>

Init ==
  /\ row = [o \in Objectives |-> NoRow]
  /\ hold = [o \in Objectives |-> "none"]
  /\ task = [o \in Objectives |-> FALSE]
  /\ thread = [t \in Threads |-> IF t[2] = "boot" THEN Down ELSE Resting]
  /\ faults = 0
  /\ crashes = 0

Step(t) == \/ Boot(t)
           \/ \E i \in thread[t].todo : Recover(t, i) \/ GiveUp(t, i)
           \/ Reserve(t) \/ Dispatch(t) \/ Accept(t) \/ Fail(t) \/ Release(t)

Next ==
  \/ \E t \in Threads : Step(t) \/ Interrupt(t) \/ \E o \in Objectives : Claim(t, o)
  \/ \E o \in Objectives : LeaseEnds(o) \/ Settle(o)
  \/ \E i \in Instances : Restart(i) \/ Crash(i)

(* A thread that has something to do goes on, a crashed instance comes up  *)
(* again, and an instance at rest is restarted some time.  Nobody is       *)
(* obliged to retry from chat.                                             *)
Fairness ==
  /\ \A t \in Threads : WF_vars(Step(t))
  /\ \A i \in Instances : WF_vars(Restart(i))

Spec == Init /\ [][Next]_vars
FairSpec == Spec /\ Fairness
-----------------------------------------------------------------------------
Rows == [status : {"none", "submitting", "accepted", "failed"}, attempt : Nat, leased : BOOLEAN,
         legible : BOOLEAN]
Locals == [pc : {"idle", "down", "reserve", "dispatch", "accept", "fail", "release"},
           o : Objectives \cup {"none"}, attempt : Nat, held : BOOLEAN,
           todo : SUBSET [o : Objectives, attempt : Nat]]

TypeOK ==
  /\ row \in [Objectives -> Rows]
  /\ hold \in [Objectives -> {"none", "reserved", "released", "settled"}]
  /\ task \in [Objectives -> BOOLEAN]
  /\ thread \in [Threads -> Locals]
  /\ \A t \in Threads : Working(t) => thread[t].o \in Objectives
  /\ faults \in Nat /\ crashes \in Nat

(* "Reserve before the queue edge": no task reaches Firstmate before its   *)
(* credits were held, and nothing is accepted that was not published,      *)
(* whichever of chat, retry and startup recovery carried it there.         *)
HoldThenTaskThenAccept ==
  \A o \in Objectives :
    /\ task[o] => hold[o] # "none"
    /\ row[o].status = "accepted" => task[o]

(* Two recoveries that read the same rows, or a recovery and a retry from  *)
(* chat, never carry out the same attempt at an objective.                 *)
AttemptsAreDistinct ==
  \A t, u \in Threads :
    t # u /\ Working(t) /\ Working(u) /\ thread[t].o = thread[u].o /\ row[thread[t].o].legible
      => thread[t].attempt # thread[u].attempt

(* An accepted submission stays accepted: the failure of a slower attempt  *)
(* and a later recovery leave it alone.                                    *)
AcceptedIsFinal ==
  [][\A o \in Objectives : row[o].status = "accepted" => row'[o].status = "accepted"]_vars

(* A submission cut short anywhere, its request cancelled, its failure     *)
(* unrecorded or its instance crashed, and the hold such a submission left *)
(* behind, are dealt with by the restarts that follow, a recovery that was *)
(* itself cut short included, unless the startup retries of the row are    *)
(* used up.  The retries of the run outnumber its attempts from chat,      *)
(* faults and crashes together, so that only an illegible contract, whose  *)
(* retries GiveUp takes away, ever has them used up.                       *)
Unresolved(o) ==
  \/ row[o].status = "submitting"
  \/ row[o].status = "failed" /\ hold[o] = "reserved"

EverySubmissionResolves ==
  \A o \in Objectives :
    Unresolved(o) ~> ~Unresolved(o) \/ row[o].attempt >= StartupRetries

(* "Startup intake recovery repeats the same idempotent reservation gate"  *)
(* (docs/billing-and-credits.md:18): what is accepted has its credits held *)
(* or already settled.                                                     *)
AcceptedIsHeld ==
  \A o \in Objectives : row[o].status = "accepted" => hold[o] \in {"reserved", "settled"}
=============================================================================
