---------------------------- MODULE IntakeProofs ----------------------------
(* Theorems of ObjectiveIntake, for any number of objectives, instances,   *)
(* retries, faults and crashes.                                            *)
EXTENDS ObjectiveIntake, TLAPS

(* Where a thread stands says what has been done for its objective.        *)
PassedInv ==
  \A t \in Threads :
    /\ thread[t].pc \in {"dispatch", "accept"} => hold[thread[t].o] # "none"
    /\ thread[t].pc = "accept" => task[thread[t].o]

(* No thread is ahead of the row it works on, and a row that does not      *)
(* exist has no contract to be illegible.                                  *)
AttemptInv ==
  /\ \A o \in Objectives : row[o].status = "none" => row[o].legible
  /\ \A t \in Threads : Working(t) /\ row[thread[t].o].legible
       => thread[t].attempt <= row[thread[t].o].attempt

IInv == TypeOK /\ PassedInv /\ HoldThenTaskThenAccept /\ AttemptInv /\ AttemptsAreDistinct
-----------------------------------------------------------------------------
(* The states ObjectiveIntake starts in satisfy the inductive invariant.   *)
LEMMA InitIInv == Init => IInv
  <1> SUFFICES ASSUME Init PROVE IInv
    OBVIOUS
  <1>1. TypeOK
    BY RetryAssumption DEF Init, TypeOK, Rows, Locals, Working, NoRow, Resting, Down, Threads
  <1>2. \A t \in Threads : thread[t].pc \in {"idle", "down"}
    BY DEF Init, Resting, Down
  <1>3. PassedInv /\ AttemptsAreDistinct
    BY <1>2 DEF PassedInv, AttemptsAreDistinct, Working
  <1>4. HoldThenTaskThenAccept
    BY DEF Init, HoldThenTaskThenAccept, NoRow
  <1>5. AttemptInv
    BY <1>2 DEF Init, AttemptInv, NoRow, Working
  <1>6. QED
    BY <1>1, <1>3, <1>4, <1>5 DEF IInv

(* The threads are well typed.                                             *)
ThreadOK ==
  /\ thread \in [Threads -> Locals]
  /\ \A t \in Threads : Working(t) => thread[t].o \in Objectives

(* Replacing one thread by a well-typed one keeps them so.                 *)
LEMMA ThreadSet ==
  ASSUME ThreadOK, NEW t \in Threads, NEW l \in Locals,
         l.pc \in {"idle", "down"} \/ l.o \in Objectives,
         thread' = [thread EXCEPT ![t] = l]
  PROVE  ThreadOK'
  BY DEF ThreadOK, Working

(* Replacing one row by a row keeps the rows well typed.                   *)
LEMMA RowSet ==
  ASSUME row \in [Objectives -> Rows], NEW o \in Objectives, NEW r \in Rows,
         row' = [row EXCEPT ![o] = r]
  PROVE  row' \in [Objectives -> Rows]
  OBVIOUS

(* The edits the actions make to a row yield rows.                         *)
LEMMA RowEdits ==
  ASSUME NEW r \in Rows, NEW n \in Nat, NEW b \in BOOLEAN,
         NEW s \in {"none", "submitting", "accepted", "failed"}
  PROVE  /\ [r EXCEPT !.legible = b] \in Rows
         /\ [r EXCEPT !.leased = b] \in Rows
         /\ [r EXCEPT !.status = s, !.leased = b] \in Rows
         /\ [r EXCEPT !.status = s, !.attempt = n, !.leased = b] \in Rows
  BY DEF Rows

(* A request that ends, and a recovery between two rows, are well typed.   *)
LEMMA BetweenType ==
  ASSUME ThreadOK, NEW t \in Threads
  PROVE  Between(t) \in Locals /\ Between(t).pc = "idle"
  <1>1. thread[t].todo \in SUBSET [o : Objectives, attempt : Nat]
    BY DEF ThreadOK, Locals
  <1>2. QED
    BY <1>1 DEF Between, Resting, Locals

(* So they are after Finish, and after a Goto of a thread at work.         *)
LEMMA FinishType ==
  ASSUME ThreadOK, NEW t \in Threads, Finish(t)
  PROVE  ThreadOK'
  BY BetweenType, ThreadSet DEF Finish

(* A thread at work that moves on keeps its objective.                     *)
LEMMA GotoType ==
  ASSUME ThreadOK, NEW t \in Threads, Working(t),
         Goto(t, "dispatch") \/ Goto(t, "accept") \/ Goto(t, "fail") \/ Goto(t, "release")
  PROVE  ThreadOK'
  <1>1. thread[t] \in Locals /\ thread[t].o \in Objectives
    BY DEF ThreadOK
  <1>2. PICK pc \in {"dispatch", "accept", "fail", "release"} : thread' = [thread EXCEPT ![t].pc = pc]
    BY DEF Goto
  <1> DEFINE l == [thread[t] EXCEPT !.pc = pc]
  <1>3. l \in Locals
    BY <1>1 DEF Locals
  <1>4. l.o \in Objectives
    BY <1>1 DEF Locals
  <1>5. thread' = [thread EXCEPT ![t] = l]
    BY <1>2
  <1> HIDE DEF l
  <1>6. QED
    BY <1>3, <1>4, <1>5, ThreadSet

(* Every step keeps the rows, holds, tasks and locals in their types.      *)
LEMMA TypeStep == TypeOK /\ [Next]_vars => TypeOK'
  <1> SUFFICES ASSUME TypeOK, [Next]_vars PROVE TypeOK'
    OBVIOUS
  <1> USE RetryAssumption, BoundAssumption
  <1>a. ThreadOK /\ row \in [Objectives -> Rows]
    BY DEF TypeOK, ThreadOK
  <1>b. ASSUME ThreadOK', row' \in [Objectives -> Rows], UNCHANGED <<hold, task, faults, crashes>> PROVE TypeOK'
    BY <1>b DEF TypeOK, ThreadOK
  <1>c. ASSUME NEW t \in Threads, Working(t) PROVE thread[t] \in Locals /\ thread[t].o \in Objectives
    BY <1>a, <1>c DEF ThreadOK
  <1>d. ASSUME NEW t \in Threads, NEW i \in thread[t].todo
        PROVE  i.o \in Objectives /\ i.attempt \in Nat /\ row[i.o] \in Rows
               /\ Dropped(t, i) \in Locals /\ thread[t] \in Locals
    <2>1. thread[t] \in Locals /\ thread[t].todo \in SUBSET [o : Objectives, attempt : Nat]
      BY <1>a, <1>d DEF ThreadOK, Locals
    <2>2. i \in [o : Objectives, attempt : Nat]
      BY <2>1
    <2>3. Dropped(t, i) \in Locals
      BY <2>1 DEF Dropped, Locals
    <2>4. QED
      BY <2>1, <2>2, <2>3, <1>a
  <1>1. ASSUME NEW t \in Threads, NEW o \in Objectives, Claim(t, o) PROVE TypeOK'
    <2>1. PICK b \in BOOLEAN : row' = [row EXCEPT ![o] = Claimed([@ EXCEPT !.legible = b], @.attempt + 1)]
      BY <1>1, <1>a DEF Claim, Rows
    <2>2. row[o] \in Rows /\ row[o].attempt + 1 \in Nat
      BY <1>a DEF Rows
    <2>3. Claimed([row[o] EXCEPT !.legible = b], row[o].attempt + 1) \in Rows
      BY <2>2 DEF Claimed, Rows
    <2>4. row' \in [Objectives -> Rows]
      BY <2>1, <2>3, <1>a, RowSet
    <2> DEFINE l == [Between(t) EXCEPT !.pc = "reserve", !.o = o, !.attempt = row[o].attempt + 1]
    <2>5. l \in Locals /\ l.o \in Objectives
      BY <2>2, <1>a, BetweenType DEF Locals
    <2>6. thread' = [thread EXCEPT ![t] = l]
      BY <1>1 DEF Claim, Work
    <2> HIDE DEF l
    <2>7. ThreadOK'
      BY <2>5, <2>6, <1>a, ThreadSet
    <2>8. QED
      BY <2>4, <2>7, <1>b, <1>1 DEF Claim
  <1>2. ASSUME NEW t \in Threads, Boot(t) PROVE TypeOK'
    <2> DEFINE S == {[o |-> o, attempt |-> row[o].attempt] : o \in Recoverable}
    <2>1. S \in SUBSET [o : Objectives, attempt : Nat]
      BY <1>a DEF Recoverable, Rows
    <2>2. thread' = [thread EXCEPT ![t] = [Resting EXCEPT !.todo = S]]
      BY <1>2 DEF Boot
    <2> HIDE DEF S
    <2>3. [Resting EXCEPT !.todo = S] \in Locals /\ [Resting EXCEPT !.todo = S].pc = "idle"
      BY <2>1 DEF Resting, Locals
    <2>4. ThreadOK'
      BY <2>2, <2>3, <1>a, ThreadSet
    <2>5. QED
      BY <2>4, <1>2, <1>a, <1>b DEF Boot
  <1>3. ASSUME NEW t \in Threads, NEW i \in thread[t].todo, Recover(t, i) PROVE TypeOK'
    <2> DEFINE l == [Dropped(t, i) EXCEPT !.pc = "reserve", !.o = i.o, !.attempt = i.attempt + 1]
    <2>1. /\ l \in Locals /\ l.o \in Objectives
          /\ Claimed(row[i.o], i.attempt + 1) \in Rows
      <3>1. i.o \in Objectives /\ i.attempt + 1 \in Nat /\ row[i.o] \in Rows /\ Dropped(t, i) \in Locals
        BY <1>d
      <3>2. Claimed(row[i.o], i.attempt + 1) \in Rows
        BY <3>1, RowEdits DEF Claimed
      <3>3. QED
        BY <3>1, <3>2 DEF Locals
    <2>2. Dropped(t, i).pc = "idle"
      BY <1>3, <1>d DEF Recover, Dropped, Locals
    <2>3. \/ row' = [row EXCEPT ![i.o] = Claimed(row[i.o], i.attempt + 1)] /\ thread' = [thread EXCEPT ![t] = l]
          \/ thread' = [thread EXCEPT ![t] = Dropped(t, i)] /\ UNCHANGED row
      BY <1>3 DEF Recover
    <2> HIDE DEF l
    <2>4. ThreadOK'
      BY <2>1, <2>2, <2>3, <1>a, <1>d, ThreadSet
    <2>5. row' \in [Objectives -> Rows]
      BY <2>1, <2>3, <1>a, <1>d, RowSet
    <2>6. QED
      BY <2>4, <2>5, <1>b, <1>3 DEF Recover
  <1>4. ASSUME NEW t \in Threads, NEW i \in thread[t].todo, GiveUp(t, i) PROVE TypeOK'
    <2> DEFINE l == [Dropped(t, i) EXCEPT !.pc = "release", !.o = i.o]
               r == [row[i.o] EXCEPT !.status = "failed", !.attempt = StartupRetries, !.leased = FALSE]
    <2>1. l \in Locals /\ l.o \in Objectives /\ r \in Rows
      <3>1. i.o \in Objectives /\ row[i.o] \in Rows /\ Dropped(t, i) \in Locals
        BY <1>d
      <3>2. r \in Rows
        BY <3>1, RowEdits
      <3>3. QED
        BY <3>1, <3>2 DEF Locals
    <2>2. Dropped(t, i).pc = "idle"
      BY <1>4, <1>d DEF GiveUp, Dropped, Locals
    <2>3. \/ row' = [row EXCEPT ![i.o] = r] /\ thread' = [thread EXCEPT ![t] = l]
          \/ thread' = [thread EXCEPT ![t] = Dropped(t, i)] /\ UNCHANGED row
      BY <1>4 DEF GiveUp
    <2> HIDE DEF l, r
    <2>4. ThreadOK'
      BY <2>1, <2>2, <2>3, <1>a, <1>d, ThreadSet
    <2>5. row' \in [Objectives -> Rows]
      BY <2>1, <2>3, <1>a, <1>d, RowSet
    <2>6. QED
      BY <2>4, <2>5, <1>b, <1>4 DEF GiveUp
  <1>5. ASSUME NEW t \in Threads, Reserve(t) PROVE TypeOK'
    <2>1. Working(t)
      BY <1>5 DEF Reserve, Working
    <2>2. ThreadOK'
      <3> DEFINE b == hold[thread[t].o] \in {"none", "reserved"}
                 l == [thread[t] EXCEPT !.pc = "dispatch", !.held = b]
      <3>1. Goto(t, "fail") \/ thread' = [thread EXCEPT ![t] = l]
        BY <1>5 DEF Reserve
      <3>b. b \in BOOLEAN
        OBVIOUS
      <3> HIDE DEF b
      <3>2. l \in Locals /\ l.o \in Objectives
        BY <3>b, <2>1, <1>c DEF Locals
      <3> HIDE DEF l
      <3>3. QED
        BY <3>1, <3>2, <2>1, <1>a, ThreadSet, GotoType
    <2>3. hold' \in [Objectives -> {"none", "reserved", "released", "settled"}] /\ faults' \in Nat
      BY <1>5, <2>1, <1>c DEF Reserve, Fault, TypeOK
    <2>4. QED
      BY <2>2, <2>3, <1>5 DEF Reserve, TypeOK, ThreadOK
  <1>6. ASSUME NEW t \in Threads, Dispatch(t) PROVE TypeOK'
    <2>1. Working(t)
      BY <1>6 DEF Dispatch, Working
    <2>2. ThreadOK'
      BY <2>1, <1>6, <1>a, GotoType DEF Dispatch
    <2>3. task' \in [Objectives -> BOOLEAN] /\ faults' \in Nat
      <3>1. faults' \in Nat
        BY <1>6 DEF Dispatch, Fault, TypeOK
      <3>2. task' = task \/ task' = [task EXCEPT ![thread[t].o] = TRUE]
        BY <1>6 DEF Dispatch
      <3>3. QED
        BY <3>1, <3>2 DEF TypeOK
    <2>4. QED
      BY <2>2, <2>3, <1>6 DEF Dispatch, TypeOK, ThreadOK
  <1>7. ASSUME NEW t \in Threads, Accept(t) PROVE TypeOK'
    <2>1. Working(t) /\ ThreadOK'
      BY <1>7, <1>a, FinishType DEF Accept, Working
    <2>2. row' \in [Objectives -> Rows]
      BY <2>1, <1>7, <1>a, <1>c, RowEdits, RowSet DEF Accept
    <2>3. QED
      BY <2>1, <2>2, <1>b, <1>7 DEF Accept
  <1>8. ASSUME NEW t \in Threads, Fail(t) PROVE TypeOK'
    <2>1. Working(t)
      BY <1>8 DEF Fail, Working
    <2>2. ThreadOK'
      BY <2>1, <1>8, <1>a, FinishType, GotoType DEF Fail
    <2>3. row' \in [Objectives -> Rows]
      BY <2>1, <1>8, <1>a, <1>c, RowEdits, RowSet DEF Fail
    <2>4. faults' \in Nat
      BY <1>8 DEF Fail, Fault, TypeOK
    <2>5. QED
      BY <2>2, <2>3, <2>4, <1>8 DEF Fail, TypeOK, ThreadOK
  <1>9. ASSUME NEW t \in Threads, Release(t) PROVE TypeOK'
    <2>1. Working(t) /\ ThreadOK'
      BY <1>9, <1>a, FinishType DEF Release, Working
    <2>2. hold' \in [Objectives -> {"none", "reserved", "released", "settled"}]
      BY <2>1, <1>9, <1>c DEF Release, TypeOK
    <2>3. QED
      BY <2>1, <2>2, <1>9 DEF Release, TypeOK, ThreadOK
  <1>10. ASSUME NEW t \in Threads, Interrupt(t) PROVE TypeOK'
    <2>1. Working(t) /\ Resting \in Locals /\ Resting.pc = "idle"
      BY <1>10 DEF Interrupt, Working, Resting, Locals
    <2>2. ThreadOK'
      BY <2>1, <1>10, <1>a, ThreadSet DEF Interrupt
    <2>3. task' \in [Objectives -> BOOLEAN] /\ faults' \in Nat
      <3>1. faults' \in Nat
        BY <1>10 DEF Interrupt, Fault, TypeOK
      <3>2. task' = task \/ task' = [task EXCEPT ![thread[t].o] = TRUE]
        BY <1>10 DEF Interrupt
      <3>3. QED
        BY <3>1, <3>2 DEF TypeOK
    <2>4. QED
      BY <2>2, <2>3, <1>10 DEF Interrupt, TypeOK, ThreadOK
  <1>11. ASSUME NEW o \in Objectives, LeaseEnds(o) PROVE TypeOK'
    <2>1. row' \in [Objectives -> Rows]
      BY <1>11, <1>a, RowEdits, RowSet DEF LeaseEnds
    <2>2. faults' \in Nat
      BY <1>11 DEF LeaseEnds, Fault, TypeOK
    <2>3. QED
      BY <2>1, <2>2, <1>11 DEF LeaseEnds, TypeOK, Working
  <1>12. ASSUME NEW o \in Objectives, Settle(o) PROVE TypeOK'
    BY <1>12 DEF Settle, TypeOK, Working
  <1>13. ASSUME NEW i \in Instances, thread' = Restarted(i) PROVE ThreadOK'
    <2>1. Resting \in Locals /\ Resting.pc = "idle" /\ Down \in Locals /\ Down.pc = "down"
      BY DEF Resting, Down, Locals
    <2>2. QED
      BY <2>1, <1>13, <1>a DEF ThreadOK, Restarted, Working, Threads
  <1>14. ASSUME NEW i \in Instances, Restart(i) PROVE TypeOK'
    BY <1>14, <1>13, <1>a, <1>b DEF Restart
  <1>15. ASSUME NEW i \in Instances, Crash(i) PROVE TypeOK'
    <2>1. ThreadOK'
      BY <1>15, <1>13 DEF Crash
    <2>2. task' \in [Objectives -> BOOLEAN] /\ crashes' \in Nat
      BY <1>15 DEF Crash, TypeOK
    <2>3. QED
      BY <2>1, <2>2, <1>15 DEF Crash, TypeOK, ThreadOK
  <1>16. CASE UNCHANGED vars
    BY <1>16 DEF vars, TypeOK, Working
  <1>17. QED
    BY <1>1, <1>2, <1>3, <1>4, <1>5, <1>6, <1>7, <1>8, <1>9, <1>10, <1>11, <1>12, <1>14, <1>15, <1>16
    DEF Next, Step

(* A step of one thread that neither dispatches nor accepts afterwards,    *)
(* and that accepts no row, keeps the order.                               *)
LEMMA OrderFrame ==
  ASSUME PassedInv, HoldThenTaskThenAccept, NEW t \in Threads,
         thread'[t].pc \notin {"dispatch", "accept"},
         \A u \in Threads \ {t} : thread'[u] = thread[u],
         UNCHANGED <<hold, task>>,
         \A o \in Objectives : row'[o].status = "accepted" => row[o].status = "accepted"
  PROVE  PassedInv' /\ HoldThenTaskThenAccept'
  BY DEF PassedInv, HoldThenTaskThenAccept

(* After every step a thread that dispatches has seen a hold taken, one    *)
(* that accepts has seen its task published, and neither is undone: the    *)
(* order of hold, task and acceptance is kept.                             *)
LEMMA OrderStep ==
  TypeOK /\ PassedInv /\ HoldThenTaskThenAccept /\ [Next]_vars
    => PassedInv' /\ HoldThenTaskThenAccept'
  <1> SUFFICES ASSUME TypeOK, PassedInv, HoldThenTaskThenAccept, [Next]_vars
               PROVE  PassedInv' /\ HoldThenTaskThenAccept'
    OBVIOUS
  <1> USE DEF PassedInv, HoldThenTaskThenAccept
  <1>t. /\ \A t \in Threads : Working(t) => thread[t].o \in Objectives
        /\ DOMAIN thread = Threads /\ DOMAIN row = Objectives
        /\ DOMAIN hold = Objectives /\ DOMAIN task = Objectives
    BY DEF TypeOK
  <1>1. ASSUME NEW t \in Threads, NEW o \in Objectives, Claim(t, o) PROVE PassedInv' /\ HoldThenTaskThenAccept'
    BY <1>1, <1>t DEF Claim, Claimed, Work, Between, Resting, TypeOK, Rows, Locals
  <1>2. ASSUME NEW t \in Threads, Boot(t) PROVE PassedInv' /\ HoldThenTaskThenAccept'
    BY <1>2, <1>t DEF Boot, Resting
  <1>3. ASSUME NEW t \in Threads, NEW i \in thread[t].todo, Recover(t, i) PROVE PassedInv' /\ HoldThenTaskThenAccept'
    <2> DEFINE l == [Dropped(t, i) EXCEPT !.pc = "reserve", !.o = i.o, !.attempt = i.attempt + 1]
               r == Claimed(row[i.o], i.attempt + 1)
    <2>1. \/ row' = [row EXCEPT ![i.o] = r] /\ thread' = [thread EXCEPT ![t] = l]
          \/ thread' = [thread EXCEPT ![t] = Dropped(t, i)] /\ UNCHANGED row
      BY <1>3 DEF Recover
    <2>2. i.o \in Objectives /\ row[i.o] \in Rows /\ thread[t] \in Locals /\ thread[t].pc = "idle"
      <3>1. thread[t] \in Locals
        BY DEF TypeOK
      <3>2. i.o \in Objectives
        BY <3>1 DEF Locals
      <3>3. QED
        BY <3>1, <3>2, <1>3 DEF TypeOK, Recover
    <2>3. l.pc = "reserve" /\ Dropped(t, i).pc = "idle"
      BY <2>2 DEF Dropped, Locals
    <2>4. r.status # "accepted"
      BY <2>2 DEF Claimed, Rows
    <2> HIDE DEF l, r
    <2>5. /\ thread'[t].pc \notin {"dispatch", "accept"}
          /\ \A u \in Threads \ {t} : thread'[u] = thread[u]
      BY <2>1, <2>3, <1>t
    <2>6. \A o \in Objectives : row'[o].status = "accepted" => row[o].status = "accepted"
      BY <2>1, <2>2, <2>4, <1>t
    <2>7. QED
      BY <1>3, <2>5, <2>6, OrderFrame DEF Recover
  <1>4. ASSUME NEW t \in Threads, NEW i \in thread[t].todo, GiveUp(t, i) PROVE PassedInv' /\ HoldThenTaskThenAccept'
    <2> DEFINE l == [Dropped(t, i) EXCEPT !.pc = "release", !.o = i.o]
               r == [row[i.o] EXCEPT !.status = "failed", !.attempt = StartupRetries, !.leased = FALSE]
    <2>1. \/ row' = [row EXCEPT ![i.o] = r] /\ thread' = [thread EXCEPT ![t] = l]
          \/ thread' = [thread EXCEPT ![t] = Dropped(t, i)] /\ UNCHANGED row
      BY <1>4 DEF GiveUp
    <2>2. i.o \in Objectives /\ row[i.o] \in Rows /\ thread[t] \in Locals /\ thread[t].pc = "idle"
      <3>1. thread[t] \in Locals
        BY DEF TypeOK
      <3>2. i.o \in Objectives
        BY <3>1 DEF Locals
      <3>3. QED
        BY <3>1, <3>2, <1>4 DEF TypeOK, GiveUp
    <2>3. l.pc = "release" /\ Dropped(t, i).pc = "idle"
      BY <2>2 DEF Dropped, Locals
    <2>4. r.status # "accepted"
      BY <2>2 DEF Claimed, Rows
    <2> HIDE DEF l, r
    <2>5. /\ thread'[t].pc \notin {"dispatch", "accept"}
          /\ \A u \in Threads \ {t} : thread'[u] = thread[u]
      BY <2>1, <2>3, <1>t
    <2>6. \A o \in Objectives : row'[o].status = "accepted" => row[o].status = "accepted"
      BY <2>1, <2>2, <2>4, <1>t
    <2>7. QED
      BY <1>4, <2>5, <2>6, OrderFrame DEF GiveUp
  <1>5. ASSUME NEW t \in Threads, Reserve(t) PROVE PassedInv' /\ HoldThenTaskThenAccept'
    BY <1>5, <1>t DEF Reserve, Goto, Working, TypeOK, Locals
  <1>6. ASSUME NEW t \in Threads, Dispatch(t) PROVE PassedInv' /\ HoldThenTaskThenAccept'
    BY <1>6, <1>t DEF Dispatch, Goto, Working, TypeOK, Locals
  <1>7. ASSUME NEW t \in Threads, Accept(t) PROVE PassedInv' /\ HoldThenTaskThenAccept'
    BY <1>7, <1>t DEF Accept, Finish, Between, Resting, Working, TypeOK, Rows
  <1>8. ASSUME NEW t \in Threads, Fail(t) PROVE PassedInv' /\ HoldThenTaskThenAccept'
    <2>1. thread[t] \in Locals /\ \A o \in Objectives : row[o] \in Rows
      BY DEF TypeOK
    <2>2. /\ thread'[t].pc \notin {"dispatch", "accept"}
          /\ \A u \in Threads \ {t} : thread'[u] = thread[u]
      <3>1. Finish(t) \/ Goto(t, "release")
        BY <1>8 DEF Fail
      <3>2. QED
        BY <3>1, <1>t, <2>1 DEF Goto, Finish, Between, Resting, Locals
    <2>3. \A o \in Objectives : row'[o].status = "accepted" => row[o].status = "accepted"
      <3> DEFINE r == [row[thread[t].o] EXCEPT !.status = "failed", !.leased = FALSE]
      <3>1. thread[t].o \in Objectives /\ row[thread[t].o] \in Rows
        BY <1>8, <1>t, <2>1 DEF Fail, Working
      <3>2. row' = row \/ row' = [row EXCEPT ![thread[t].o] = r]
        BY <1>8 DEF Fail
      <3>3. r.status = "failed"
        BY <3>1 DEF Rows
      <3> HIDE DEF r
      <3>4. QED
        BY <3>1, <3>2, <3>3, <1>t
    <2>4. QED
      BY <1>8, <2>2, <2>3, OrderFrame DEF Fail
  <1>9. ASSUME NEW t \in Threads, Release(t) PROVE PassedInv' /\ HoldThenTaskThenAccept'
    BY <1>9, <1>t DEF Release, Finish, Between, Resting, Working
  <1>10. ASSUME NEW t \in Threads, Interrupt(t) PROVE PassedInv' /\ HoldThenTaskThenAccept'
    BY <1>10, <1>t DEF Interrupt, Resting, Working
  <1>11. ASSUME NEW o \in Objectives, LeaseEnds(o) PROVE PassedInv' /\ HoldThenTaskThenAccept'
    BY <1>11, <1>t DEF LeaseEnds, TypeOK, Rows
  <1>12. ASSUME NEW o \in Objectives, Settle(o) PROVE PassedInv' /\ HoldThenTaskThenAccept'
    BY <1>12, <1>t DEF Settle, Working
  <1>13. ASSUME NEW i \in Instances, Restart(i) PROVE PassedInv' /\ HoldThenTaskThenAccept'
    BY <1>13, <1>t DEF Restart, Restarted, Resting, Down, Threads
  <1>14. ASSUME NEW i \in Instances, Crash(i) PROVE PassedInv' /\ HoldThenTaskThenAccept'
    <2>1. \A t \in Threads : thread'[t] = thread[t] \/ thread'[t].pc \in {"idle", "down"}
      BY <1>14, <1>t DEF Crash, Restarted, Resting, Down, Threads
    <2>2. \A o \in Objectives :
            /\ task[o] => task'[o]
            /\ task'[o] => task[o] \/ \E t \in Threads : thread[t].pc = "dispatch" /\ thread[t].o = o
      <3>1. PICK S \in SUBSET {o \in Objectives : \E k \in {"chat", "boot"} : thread[<<i, k>>].pc = "dispatch" /\ thread[<<i, k>>].o = o} :
              task' = [o \in Objectives |-> task[o] \/ o \in S]
        BY <1>14 DEF Crash
      <3>2. \A k \in {"chat", "boot"} : <<i, k>> \in Threads
        BY DEF Threads
      <3>3. QED
        BY <3>1, <3>2
    <2>3. \A o \in Objectives : task'[o] => hold[o] # "none"
      BY <2>2
    <2>4. UNCHANGED <<row, hold>>
      BY <1>14 DEF Crash
    <2>5. PassedInv'
      <3> SUFFICES ASSUME NEW t \in Threads, thread'[t].pc \in {"dispatch", "accept"}
                   PROVE  hold'[thread'[t].o] # "none" /\ (thread'[t].pc = "accept" => task'[thread'[t].o])
        OBVIOUS
      <3>1. thread'[t] = thread[t] /\ thread[t].o \in Objectives
        BY <2>1, <1>t DEF Working
      <3>2. QED
        BY <3>1, <2>2, <2>4
    <2>6. QED
      BY <2>2, <2>3, <2>4, <2>5
  <1>15. CASE UNCHANGED vars
    BY <1>15 DEF vars
  <1>16. QED
    BY <1>1, <1>2, <1>3, <1>4, <1>5, <1>6, <1>7, <1>8, <1>9, <1>10, <1>11, <1>12, <1>13, <1>14, <1>15
    DEF Next, Step

(* An accepted row stays accepted: only rows that are pending, or not      *)
(* accepted, are overwritten.                                              *)
LEMMA FinalStep ==
  ASSUME TypeOK, [Next]_vars, NEW o \in Objectives, row[o].status = "accepted"
  PROVE  row'[o].status = "accepted"
  <1>t. /\ DOMAIN row = Objectives /\ \A p \in Objectives : row[p] \in Rows
        /\ \A t \in Threads : Working(t) => thread[t].o \in Objectives
    BY DEF TypeOK
  <1>1. ASSUME NEW t \in Threads, NEW p \in Objectives, Claim(t, p) PROVE row'[o].status = "accepted"
    <2>1. row[p].status # "accepted"
      BY <1>1 DEF Claim, Claimable
    <2>2. row'[o] = row[o]
      BY <1>1, <2>1, <1>t DEF Claim
    <2>3. QED
      BY <2>2
  <1>2. ASSUME NEW t \in Threads, NEW i \in thread[t].todo, Recover(t, i) \/ GiveUp(t, i)
        PROVE row'[o].status = "accepted"
    <2>1. CASE row'= row
      BY <2>1
    <2>2. CASE row' # row
      <3>1. row[i.o].status \in Pending
        BY <1>2, <2>2 DEF Recover, GiveUp, StillPending
      <3>2. i.o # o
        BY <3>1 DEF Pending
      <3>3. row'[o] = row[o]
        BY <1>2, <2>2, <3>2, <1>t DEF Recover, GiveUp
      <3>4. QED
        BY <3>3
    <2>3. QED
      BY <2>1, <2>2
  <1>3. ASSUME NEW t \in Threads, Accept(t) PROVE row'[o].status = "accepted"
    <2>1. thread[t].o \in Objectives /\ row[thread[t].o] \in Rows
      BY <1>3, <1>t DEF Accept, Working
    <2>2. [row[thread[t].o] EXCEPT !.status = "accepted", !.leased = FALSE].status = "accepted"
      BY <2>1 DEF Rows
    <2>3. QED
      BY <1>3, <2>1, <2>2, <1>t DEF Accept
  <1>4. ASSUME NEW t \in Threads, Fail(t) PROVE row'[o].status = "accepted"
    <2>1. row' = row \/ (thread[t].o # o /\ \E r : row' = [row EXCEPT ![thread[t].o] = r])
      BY <1>4 DEF Fail, MayFail
    <2>2. QED
      BY <2>1, <1>t
  <1>5. ASSUME NEW p \in Objectives, LeaseEnds(p) PROVE row'[o].status = "accepted"
    <2>1. [row[p] EXCEPT !.leased = FALSE].status = row[p].status
      BY <1>t DEF Rows
    <2>2. QED
      BY <1>5, <2>1, <1>t DEF LeaseEnds
  <1>6. CASE UNCHANGED row
    BY <1>6
  <1>7. QED
    BY <1>1, <1>2, <1>3, <1>4, <1>5, <1>6
    DEF Next, Step, Boot, Reserve, Dispatch, Release, Interrupt, Settle, Restart, Crash, vars
-----------------------------------------------------------------------------
(* What a step does to the rows: none becomes legible, none goes back in   *)
(* its attempts while it is legible.                                       *)
RowsAdvance ==
  \A o \in Objectives :
    /\ row'[o].legible => row[o].legible /\ row[o].attempt <= row'[o].attempt
    /\ row'[o].status = "none" => row'[o].legible

(* What a step does to the threads: they go on with what they did, except  *)
(* that t may begin an attempt of its own, later than any before.          *)
Begins(t) ==
  row'[thread'[t].o].legible =>
    /\ thread'[t].attempt = row'[thread'[t].o].attempt
    /\ row[thread'[t].o].attempt < row'[thread'[t].o].attempt

Continues(u) == Working(u) /\ thread'[u].o = thread[u].o /\ thread'[u].attempt = thread[u].attempt

(* Such a step keeps the attempts under way distinct.                      *)
LEMMA AttemptFrame ==
  ASSUME TypeOK, TypeOK', AttemptInv, AttemptsAreDistinct, RowsAdvance, NEW t,
         \A u \in Threads : Working(u)' => Continues(u) \/ (u = t /\ Begins(t))
  PROVE  AttemptInv' /\ AttemptsAreDistinct'
  <1>t. /\ \A u \in Threads : thread[u].attempt \in Nat /\ thread'[u].attempt \in Nat
        /\ \A o \in Objectives : row[o].attempt \in Nat /\ row'[o].attempt \in Nat
        /\ \A u \in Threads : Working(u)' => thread'[u].o \in Objectives
    BY DEF TypeOK, Rows, Locals
  <1>1. AttemptInv'
    <2>1. ASSUME NEW u \in Threads, Working(u)', row'[thread'[u].o].legible
          PROVE  thread'[u].attempt <= row'[thread'[u].o].attempt
      BY <2>1, <1>t DEF RowsAdvance, Continues, Begins, AttemptInv
    <2>2. QED
      BY <2>1 DEF AttemptInv, RowsAdvance
  <1>2. ASSUME NEW u \in Threads, NEW v \in Threads, u # v, Working(u)', Working(v)',
               thread'[u].o = thread'[v].o, row'[thread'[u].o].legible
        PROVE  thread'[u].attempt # thread'[v].attempt
    <2>1. row[thread'[u].o].legible /\ thread'[u].o \in Objectives
      BY <1>2, <1>t DEF RowsAdvance
    <2>2. CASE Continues(u) /\ Continues(v)
      BY <2>1, <2>2, <1>2 DEF Continues, AttemptsAreDistinct
    <2>3. CASE u = t /\ Begins(t) /\ Continues(v)
      <3>1. thread[v].attempt <= row[thread[v].o].attempt
        BY <2>1, <2>3, <1>2 DEF Continues, AttemptInv
      <3>2. QED
        BY <3>1, <2>1, <2>3, <1>2, <1>t DEF Continues, Begins
    <2>4. CASE v = t /\ Begins(t) /\ Continues(u)
      <3>1. thread[u].attempt <= row[thread[u].o].attempt
        BY <2>1, <2>4, <1>2 DEF Continues, AttemptInv
      <3>2. QED
        BY <3>1, <2>1, <2>4, <1>2, <1>t DEF Continues, Begins
    <2>5. QED
      BY <2>2, <2>3, <2>4, <1>2
  <1>3. QED
    BY <1>1, <1>2 DEF AttemptsAreDistinct

(* Replacing one row by an edit that keeps its contract and does not go    *)
(* back in its attempts advances the rows.                                 *)
LEMMA RowAdvance ==
  ASSUME TypeOK, AttemptInv, NEW o \in Objectives, NEW r,
         r.legible => row[o].legible /\ row[o].attempt <= r.attempt,
         r.status # "none",
         row' = row \/ row' = [row EXCEPT ![o] = r]
  PROVE  RowsAdvance
  <1>1. DOMAIN row = Objectives /\ \A p \in Objectives : row[p].attempt \in Nat
    BY DEF TypeOK, Rows
  <1>2. QED
    BY <1>1 DEF RowsAdvance, AttemptInv

(* Rows that are left alone advance, trivially.                            *)
LEMMA RowsSame ==
  ASSUME TypeOK, AttemptInv, UNCHANGED row
  PROVE  RowsAdvance
  <1>1. \A p \in Objectives : row[p].attempt \in Nat
    BY DEF TypeOK, Rows
  <1>2. QED
    BY <1>1 DEF RowsAdvance, AttemptInv

(* A thread that ends, or only changes its place, continues; the others    *)
(* are left alone.                                                         *)
LEMMA OneContinues ==
  ASSUME TypeOK, NEW t \in Threads, NEW l, thread' = [thread EXCEPT ![t] = l],
         \/ l.pc \in {"idle", "down"}
         \/ Working(t) /\ l.o = thread[t].o /\ l.attempt = thread[t].attempt
  PROVE  \A u \in Threads : Working(u)' => Continues(u)
  <1>1. DOMAIN thread = Threads
    BY DEF TypeOK
  <1>2. QED
    BY <1>1 DEF Working, Continues

(* Finish and Goto are such steps.                                         *)
LEMMA FinishContinues ==
  ASSUME TypeOK, NEW t \in Threads, Finish(t)
  PROVE  \A u \in Threads : Working(u)' => Continues(u)
  <1>1. Between(t).pc = "idle"
    BY DEF Between, Resting
  <1>2. QED
    BY <1>1, OneContinues DEF Finish

(* Goto moves a thread within the attempt it carries out.                  *)
LEMMA GotoContinues ==
  ASSUME TypeOK, NEW t \in Threads, NEW label, Working(t), Goto(t, label)
  PROVE  \A u \in Threads : Working(u)' => Continues(u)
  <1> DEFINE l == [thread[t] EXCEPT !.pc = label]
  <1>1. l.o = thread[t].o /\ l.attempt = thread[t].attempt
    BY DEF TypeOK, Locals
  <1>2. thread' = [thread EXCEPT ![t] = l]
    BY DEF Goto
  <1> HIDE DEF l
  <1>3. QED
    BY <1>1, <1>2, OneContinues

(* Every step keeps the attempts under way at a legible objective distinct.*)
LEMMA AttemptStep ==
  TypeOK /\ TypeOK' /\ AttemptInv /\ AttemptsAreDistinct /\ [Next]_vars
    => AttemptInv' /\ AttemptsAreDistinct'
  <1> SUFFICES ASSUME TypeOK, TypeOK', AttemptInv, AttemptsAreDistinct, [Next]_vars
               PROVE  AttemptInv' /\ AttemptsAreDistinct'
    OBVIOUS
  <1>t. /\ DOMAIN thread = Threads /\ DOMAIN row = Objectives
        /\ \A o \in Objectives : row[o] \in Rows /\ row[o].attempt \in Nat
        /\ \A t \in Threads : thread[t] \in Locals
        /\ \A t \in Threads : Working(t) => thread[t].o \in Objectives
    BY DEF TypeOK, Rows
  <1>f. ASSUME RowsAdvance, \A u \in Threads : Working(u)' => Continues(u)
        PROVE  AttemptInv' /\ AttemptsAreDistinct'
    BY <1>f, AttemptFrame
  <1>1. ASSUME NEW t \in Threads, NEW o \in Objectives, Claim(t, o)
        PROVE  AttemptInv' /\ AttemptsAreDistinct'
    <2> DEFINE l == [Between(t) EXCEPT !.pc = "reserve", !.o = o, !.attempt = row[o].attempt + 1]
    <2>1. PICK b \in BOOLEAN :
            /\ row' = [row EXCEPT ![o] = Claimed([row[o] EXCEPT !.legible = b], row[o].attempt + 1)]
            /\ b => row[o].legible
      BY <1>1, <1>t DEF Claim, Rows, AttemptInv
    <2> DEFINE r == Claimed([row[o] EXCEPT !.legible = b], row[o].attempt + 1)
    <2>2. r.legible = b /\ r.attempt = row[o].attempt + 1 /\ r.status = "submitting"
      BY <1>t DEF Claimed, Rows
    <2>3. row' = [row EXCEPT ![o] = r]
      BY <2>1
    <2>4. l.o = o /\ l.attempt = row[o].attempt + 1
      BY DEF Between, Resting
    <2>5. thread' = [thread EXCEPT ![t] = l]
      BY <1>1 DEF Claim, Work
    <2> HIDE DEF l, r
    <2>6. RowsAdvance
      <3>1. r.status # "none" /\ (r.legible => row[o].legible /\ row[o].attempt <= r.attempt)
        BY <2>1, <2>2, <1>t
      <3>2. QED
        BY <3>1, <2>3, RowAdvance
    <2>7. Begins(t)
      BY <2>2, <2>3, <2>4, <2>5, <1>t DEF Begins
    <2>8. \A u \in Threads : u # t /\ Working(u)' => Continues(u)
      BY <2>5, <1>t DEF Working, Continues
    <2>9. QED
      BY <2>6, <2>7, <2>8, AttemptFrame
  <1>2. ASSUME NEW t \in Threads, Boot(t) PROVE AttemptInv' /\ AttemptsAreDistinct'
    <2>1. \A u \in Threads : Working(u)' => Continues(u)
      BY <1>2, <1>t DEF Boot, Resting, Working, Continues
    <2>2. QED
      BY <2>1, <1>2, <1>f, RowsSame DEF Boot
  <1>3. ASSUME NEW t \in Threads, NEW i \in thread[t].todo, Recover(t, i)
        PROVE  AttemptInv' /\ AttemptsAreDistinct'
    <2>1. i.o \in Objectives /\ i.attempt \in Nat /\ thread[t].pc = "idle"
      BY <1>3, <1>t DEF Locals, Recover
    <2>2. CASE ~StillPending(i)
      <3>1. Dropped(t, i).pc = "idle"
        BY <2>1, <1>t DEF Dropped, Locals
      <3>2. \A u \in Threads : Working(u)' => Continues(u)
        BY <3>1, <2>2, <1>3, OneContinues DEF Recover
      <3>3. QED
        BY <3>2, <2>2, <1>3, <1>f, RowsSame DEF Recover
    <2>3. CASE StillPending(i)
      <3> DEFINE l == [Dropped(t, i) EXCEPT !.pc = "reserve", !.o = i.o, !.attempt = i.attempt + 1]
                 r == Claimed(row[i.o], i.attempt + 1)
      <3>1. r.legible = row[i.o].legible /\ r.attempt = row[i.o].attempt + 1 /\ r.status = "submitting"
        BY <2>1, <2>3, <1>t DEF Claimed, Rows, StillPending
      <3>2. l.o = i.o /\ l.attempt = row[i.o].attempt + 1
        BY <2>1, <2>3, <1>t DEF Dropped, Locals, StillPending
      <3>3. row' = [row EXCEPT ![i.o] = r] /\ thread' = [thread EXCEPT ![t] = l]
        BY <2>3, <1>3 DEF Recover
      <3> HIDE DEF l, r
      <3>4. RowsAdvance
        <4>1. r.status # "none" /\ (r.legible => row[i.o].legible /\ row[i.o].attempt <= r.attempt)
          BY <3>1, <2>1, <1>t
        <4>2. QED
          BY <4>1, <3>3, <2>1, RowAdvance
      <3>5. Begins(t)
        BY <3>1, <3>2, <3>3, <2>1, <1>t DEF Begins
      <3>6. \A u \in Threads : u # t /\ Working(u)' => Continues(u)
        BY <3>3, <1>t DEF Working, Continues
      <3>7. QED
        BY <3>4, <3>5, <3>6, AttemptFrame
    <2>4. QED
      BY <2>2, <2>3
  <1>4. ASSUME NEW t \in Threads, NEW i \in thread[t].todo, GiveUp(t, i)
        PROVE  AttemptInv' /\ AttemptsAreDistinct'
    <2>1. i.o \in Objectives /\ thread[t].pc = "idle" /\ ~row[i.o].legible
      BY <1>4, <1>t DEF Locals, GiveUp
    <2>2. CASE row[i.o].status \notin Pending
      <3>1. Dropped(t, i).pc = "idle"
        BY <2>1, <1>t DEF Dropped, Locals
      <3>2. \A u \in Threads : Working(u)' => Continues(u)
        BY <3>1, <2>2, <1>4, OneContinues DEF GiveUp
      <3>3. QED
        BY <3>2, <2>2, <1>4, <1>f, RowsSame DEF GiveUp
    <2>3. CASE row[i.o].status \in Pending
      <3> DEFINE l == [Dropped(t, i) EXCEPT !.pc = "release", !.o = i.o]
                 r == [row[i.o] EXCEPT !.status = "failed", !.attempt = StartupRetries, !.leased = FALSE]
      <3>1. ~r.legible /\ r.status = "failed"
        BY <2>1, <1>t DEF Rows
      <3>2. l.o = i.o
        BY <2>1, <1>t DEF Dropped, Locals
      <3>3. row' = [row EXCEPT ![i.o] = r] /\ thread' = [thread EXCEPT ![t] = l]
        BY <2>3, <1>4 DEF GiveUp
      <3> HIDE DEF l, r
      <3>4. RowsAdvance
        BY <3>1, <3>3, <2>1, <1>t, RowAdvance
      <3>5. Begins(t)
        BY <3>1, <3>2, <3>3, <2>1, <1>t DEF Begins
      <3>6. \A u \in Threads : u # t /\ Working(u)' => Continues(u)
        BY <3>3, <1>t DEF Working, Continues
      <3>7. QED
        BY <3>4, <3>5, <3>6, AttemptFrame
    <2>4. QED
      BY <2>2, <2>3
  <1>5. ASSUME NEW t \in Threads, Reserve(t) PROVE AttemptInv' /\ AttemptsAreDistinct'
    <2>1. Working(t)
      BY <1>5 DEF Reserve, Working
    <2> DEFINE l == [thread[t] EXCEPT !.pc = "dispatch", !.held = hold[thread[t].o] \in {"none", "reserved"}]
    <2>2. l.o = thread[t].o /\ l.attempt = thread[t].attempt
      BY <1>t DEF Locals
    <2>3. Goto(t, "fail") \/ thread' = [thread EXCEPT ![t] = l]
      BY <1>5 DEF Reserve
    <2> HIDE DEF l
    <2>4. \A u \in Threads : Working(u)' => Continues(u)
      BY <2>1, <2>2, <2>3, GotoContinues, OneContinues
    <2>5. QED
      BY <2>4, <1>5, <1>f, RowsSame DEF Reserve
  <1>6. ASSUME NEW t \in Threads, Dispatch(t) PROVE AttemptInv' /\ AttemptsAreDistinct'
    <2>1. \A u \in Threads : Working(u)' => Continues(u)
      <3>1. Working(t) /\ (Goto(t, "accept") \/ Goto(t, "fail"))
        BY <1>6 DEF Dispatch, Working
      <3>2. QED
        BY <3>1, GotoContinues
    <2>2. QED
      BY <2>1, <1>6, <1>f, RowsSame DEF Dispatch
  <1>7. ASSUME NEW t \in Threads, Accept(t) \/ Fail(t) PROVE AttemptInv' /\ AttemptsAreDistinct'
    <2>1. Working(t) /\ thread[t].o \in Objectives
      BY <1>7, <1>t DEF Accept, Fail, Working
    <2>2. \A u \in Threads : Working(u)' => Continues(u)
      <3>1. Finish(t) \/ Goto(t, "release")
        BY <1>7 DEF Accept, Fail
      <3>2. QED
        BY <3>1, <2>1, FinishContinues, GotoContinues
    <2>3. ASSUME NEW s \in {"accepted", "failed"},
                 row' = row \/ row' = [row EXCEPT ![thread[t].o] = [@ EXCEPT !.status = s, !.leased = FALSE]]
          PROVE  RowsAdvance
      <3> DEFINE r == [row[thread[t].o] EXCEPT !.status = s, !.leased = FALSE]
      <3>1. r.status = s /\ r.legible = row[thread[t].o].legible /\ r.attempt = row[thread[t].o].attempt
        BY <2>1, <1>t DEF Rows
      <3>2. row' = row \/ row' = [row EXCEPT ![thread[t].o] = r]
        BY <2>3
      <3> HIDE DEF r
      <3>3. r.status # "none" /\ (r.legible => row[thread[t].o].legible /\ row[thread[t].o].attempt <= r.attempt)
        BY <3>1, <2>1, <1>t
      <3>4. QED
        BY <3>2, <3>3, <2>1, RowAdvance
    <2>4. RowsAdvance
      BY <1>7, <2>3 DEF Accept, Fail
    <2>5. QED
      BY <2>2, <2>4, <1>f
  <1>8. ASSUME NEW t \in Threads, Release(t) PROVE AttemptInv' /\ AttemptsAreDistinct'
    BY <1>8, <1>f, RowsSame, FinishContinues DEF Release
  <1>9. ASSUME NEW t \in Threads, Interrupt(t) PROVE AttemptInv' /\ AttemptsAreDistinct'
    <2>1. Resting.pc = "idle"
      BY DEF Resting
    <2>2. QED
      BY <2>1, <1>9, <1>f, RowsSame, OneContinues DEF Interrupt
  <1>10. ASSUME NEW o \in Objectives, LeaseEnds(o) PROVE AttemptInv' /\ AttemptsAreDistinct'
    <2>1. UNCHANGED thread /\ row' = [row EXCEPT ![o].leased = FALSE]
      BY <1>10 DEF LeaseEnds
    <2>2. \A p \in Objectives : /\ row'[p].status = row[p].status
                               /\ row'[p].attempt = row[p].attempt
                               /\ row'[p].legible = row[p].legible
      BY <2>1, <1>t DEF Rows
    <2>3. RowsAdvance
      BY <2>2, <1>t DEF RowsAdvance, AttemptInv
    <2>4. QED
      BY <2>1, <2>3, <1>f DEF Continues, Working
  <1>11. CASE UNCHANGED <<row, thread>>
    BY <1>11, <1>f, RowsSame DEF Continues, Working
  <1>12. ASSUME NEW i \in Instances, UNCHANGED row, thread' = Restarted(i)
         PROVE  AttemptInv' /\ AttemptsAreDistinct'
    <2>1. \A u \in Threads : Working(u)' => Continues(u)
      BY <1>12, <1>t DEF Restarted, Resting, Down, Working, Continues, Threads
    <2>2. QED
      BY <2>1, <1>12, <1>f, RowsSame
  <1>13. QED
    BY <1>1, <1>2, <1>3, <1>4, <1>5, <1>6, <1>7, <1>8, <1>9, <1>10, <1>11, <1>12
    DEF Next, Step, Settle, Restart, Crash, vars
-----------------------------------------------------------------------------
(* The inductive invariant holds of every reachable state.                 *)
THEOREM IntakeInvariance == Spec => []IInv
  <1>1. IInv /\ [Next]_vars => IInv'
    BY TypeStep, OrderStep, AttemptStep DEF IInv
  <1>2. QED
    BY InitIInv, <1>1, PTL DEF Spec

(* The submission rows, holds and threads keep their types.                *)
THEOREM IntakeTypes == Spec => []TypeOK
  <1>1. IInv => TypeOK
    BY DEF IInv
  <1>2. QED
    BY <1>1, IntakeInvariance, PTL

(* Credits are held before a task is published and a task is published     *)
(* before its submission is accepted, through every retry and restart      *)
(* (FirstmateObjectiveTools.execute, reconcile_pending_objective_intake).  *)
THEOREM HoldPrecedesTask == Spec => []HoldThenTaskThenAccept
  <1>1. IInv => HoldThenTaskThenAccept
    BY DEF IInv
  <1>2. QED
    BY <1>1, IntakeInvariance, PTL

(* No two threads of any instances carry out the same attempt: the         *)
(* comparison of attempt_count makes recovery exclusive.                   *)
THEOREM NoSharedAttempt == Spec => []AttemptsAreDistinct
  <1>1. IInv => AttemptsAreDistinct
    BY DEF IInv
  <1>2. QED
    BY <1>1, IntakeInvariance, PTL

(* ObjectiveSubmissionStore never takes an acceptance back.                *)
THEOREM AcceptanceIsFinal == Spec => AcceptedIsFinal
  <1>1. IInv /\ [Next]_vars
          => [\A o \in Objectives : row[o].status = "accepted" => row'[o].status = "accepted"]_vars
    BY FinalStep DEF IInv
  <1>2. QED
    BY <1>1, IntakeInvariance, PTL DEF Spec, AcceptedIsFinal
=============================================================================
