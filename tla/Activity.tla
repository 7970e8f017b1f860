------------------------------ MODULE Activity ------------------------------
(***************************************************************************)
(* The activity projection (activity_store.py) of one account, the adapter *)
(* that fills it from Firstmate (firstmate_activity.py) and the client's   *)
(* merge of what the gateway sends (CanonicalActivity.ts).                 *)
(*                                                                         *)
(* Firstmate appends lines to two journals and answers with snapshots of   *)
(* its fleet.  Every gateway process reconciles the three sources one      *)
(* after the other; processes share only the database.  A record is        *)
(* revised in place, and each insertion or revision is an entry of the     *)
(* change ledger that the client replays.                                  *)
(***************************************************************************)
EXTENDS Integers, Sequences, FiniteSets, SequencesExt

CONSTANTS
  Reconcilers,  \* gateway processes that run the adapter
  MaxLines,     \* bound on the lines of a journal
  MaxObserved,  \* bound on the times of fleet snapshots
  MaxRewrites,  \* bound on the lines rewritten in place and on truncations
  MaxChanges,   \* bound on the change ledger
  PageSize,     \* rows of a page
  MaxResponses  \* bound on the answers on their way to the client

ASSUME ActivityConstants ==
  /\ MaxLines \in Nat /\ MaxObserved \in Nat /\ MaxRewrites \in Nat /\ MaxChanges \in Nat
  /\ PageSize \in Nat \ {0} /\ MaxResponses \in Nat

Journals == {"branch", "captain"}
Lines(s) == IF s = "branch" THEN {"told", "silent"} ELSE {"told", "retold"}
LineKeys == Journals \X (1 .. MaxLines)
FleetKeys == {<<"fleet", 1>>, <<"fleet", 2>>}
Objective == <<"fleet", 1>>
Decision == <<"fleet", 2>>
Keys == LineKeys \cup FleetKeys

VARIABLES
  journal,    \* Firstmate: the lines of each journal
  fleet,      \* Firstmate: the task, its decision and the time of a snapshot
  rewrites,   \* faults of the journals so far
  acked,      \* Firstmate: what its captain-event consumer acknowledged
  policy,     \* bootstrap policy of the deployment
  source,     \* activity_sources: the row of each journal
  fleetRow,   \* activity_sources: the row of the fleet snapshot
  events,     \* canonical_source_events: <<journal, cursor, line>>
  store,      \* activity_records and activity_changes
  reconciler, \* what each process is doing
  client,     \* CanonicalActivity.ts: records held and deliveryCursor
  responses   \* answers of the gateway not yet merged

activityVars == <<journal, fleet, rewrites, acked, policy, source, fleetRow, events, store,
                  reconciler, client, responses>>
firstmateVars == <<journal, fleet, rewrites>>
clientVars == <<client, responses>>

NoFleet == [at |-> 0, task |-> "absent", open |-> FALSE]
NoSource == [state |-> "none", cursor |-> 0, prefix |-> << >>, tail |-> 0, accepted |-> 0]
NoRecord == [rev |-> 0, state |-> "none"]
Resting == [pc |-> "idle", fleet |-> NoFleet, rows |-> << >>, known |-> NoSource]

ActivityInit ==
  /\ journal = [s \in Journals |-> << >>] /\ fleet = NoFleet /\ rewrites = 0 /\ acked = 0
  /\ policy \in {"tail", "from-start", "after:1"}
  /\ source = [s \in Journals |-> NoSource] /\ fleetRow = NoFleet /\ events = {}
  /\ store = [records |-> [k \in Keys |-> NoRecord], changes |-> << >>]
  /\ reconciler = [i \in Reconcilers |-> Resting]
  /\ client = [cursor |-> 0, seen |-> [k \in Keys |-> NoRecord], baseline |-> FALSE] /\ responses = {}
-----------------------------------------------------------------------------
(* _upsert_activity: an unchanged record is left alone, any other one gets *)
(* its next revision and an entry in the ledger (_record_activity_change). *)
(* An event without an activity has the state none.                        *)
Upsert(st, c) ==
  IF c.state \in {"none", st.records[c.key].state} THEN st
  ELSE LET rev == st.records[c.key].rev + 1
       IN [records |-> [st.records EXCEPT ![c.key] = [rev |-> rev, state |-> c.state]],
           changes |-> Append(st.changes, [key |-> c.key, rev |-> rev])]

Projected(st, candidates) == FoldLeft(Upsert, st, candidates)

(* sequence_index: the order in which records were inserted.               *)
Inserted(st) == SelectSeq(st.changes, LAMBDA c : c.rev = 1)
Index(st, k) == CHOOSE n \in 1 .. Len(Inserted(st)) : Inserted(st)[n].key = k
Known(st) == {k \in Keys : st.records[k].rev > 0}

(* What a client must be shown however old it is: objectives under way and *)
(* decisions that are open.                                                *)
IsFocus(k, r) == k \in FleetKeys /\ r.state \in {"active", "awaiting-user"}
-----------------------------------------------------------------------------
(* Firstmate.  A journal is append-only; a line rewritten in place or a    *)
(* truncation is the fault the prefix hash is there to detect.             *)
AppendLine(s, line) ==
  /\ Len(journal[s]) < MaxLines
  /\ journal' = [journal EXCEPT ![s] = Append(@, line)]
  /\ UNCHANGED <<fleet, rewrites>>

RewriteJournal(s) ==
  /\ journal[s] # << >> /\ rewrites < MaxRewrites
  /\ \/ journal' = [journal EXCEPT ![s] = Front(@)]
     \/ \E n \in 1 .. Len(journal[s]) : \E line \in Lines(s) \ {journal[s][n]} :
          journal' = [journal EXCEPT ![s][n] = line]
  /\ rewrites' = rewrites + 1
  /\ UNCHANGED fleet

(* The time of a snapshot has the resolution of a second.                  *)
FleetMoves(at, task, open) ==
  /\ at \in {fleet.at, fleet.at + 1} /\ at <= MaxObserved
  /\ open => task = "active"
  /\ fleet' = [at |-> at, task |-> task, open |-> open]
  /\ fleet' # fleet
  /\ UNCHANGED <<journal, rewrites>>

FirstmateMoves ==
  /\ \/ \E s \in Journals : RewriteJournal(s) \/ \E line \in Lines(s) : AppendLine(s, line)
     \/ \E at \in 0 .. MaxObserved, task \in {"absent", "active", "completed"}, open \in BOOLEAN :
          FleetMoves(at, task, open)
  /\ UNCHANGED <<acked, policy, source, fleetRow, events, store, reconciler, clientVars>>
-----------------------------------------------------------------------------
(* reconcile: the fleet snapshot, the branch journal, the captain outbox.  *)
GoesWith(i, r) == reconciler' = [reconciler EXCEPT ![i] = r]
Goes(i, pc) == GoesWith(i, [Resting EXCEPT !.pc = pc])

ReadFleet(i) ==
  /\ reconciler[i].pc = "idle"
  /\ GoesWith(i, [reconciler[i] EXCEPT !.pc = "fleet", !.fleet = fleet])
  /\ UNCHANGED <<acked, source, fleetRow, events, store>>

(* _normalize_snapshot: an open decision and then the objective, in its    *)
(* _lifecycle_state; a task that is not in the fleet has no candidate.     *)
LifecycleState(f) == IF f.open THEN "awaiting-user" ELSE f.task
DecisionCandidate(f) ==
  IF f.open THEN <<[key |-> Decision, state |-> "awaiting-user"]>> ELSE << >>
ObjectiveCandidate(f) ==
  IF LifecycleState(f) # "absent" THEN <<[key |-> Objective, state |-> LifecycleState(f)]>> ELSE << >>
Candidates(f) == DecisionCandidate(f) \o ObjectiveCandidate(f)

(* A decision the snapshot no longer shows is closed.                      *)
Closed(st, f) ==
  IF ~f.open /\ st.records[Decision].state = "awaiting-user"
  THEN Upsert(st, [key |-> Decision, state |-> "resolved"]) ELSE st

(* reconcile_snapshot: an older observation is ignored, one with the same  *)
(* time and other content is a conflict.                                   *)
Observable(f) == f.at > fleetRow.at \/ f = fleetRow \/ fleetRow.at = 0

ReconcileSnapshot(i) ==
  LET f == reconciler[i].fleet
  IN /\ reconciler[i].pc = "fleet"
     /\ \/ /\ f.at > 0 /\ Observable(f)
           /\ Len(store.changes) + 2 <= MaxChanges
           /\ store' = Closed(Projected(store, Candidates(f)), f)
           /\ fleetRow' = f
        \/ ~Observable(f) /\ UNCHANGED <<store, fleetRow>>
     /\ Goes(i, "branch")
     /\ UNCHANGED <<acked, source, events>>

(* get_source_state and _read_branch_rows, _read_captain_event_rows: the   *)
(* branch adapter reads the journal before its row, the captain adapter    *)
(* after it.                                                               *)
ReadBranchRows(i) ==
  /\ reconciler[i].pc = "branch"
  /\ GoesWith(i, [reconciler[i] EXCEPT !.pc = "branch-row", !.rows = journal["branch"]])
  /\ UNCHANGED <<acked, source, fleetRow, events, store>>

ReadCaptainRows(i) ==
  /\ reconciler[i].pc = "captain-row"
  /\ GoesWith(i, [reconciler[i] EXCEPT !.pc = "captain-bind", !.rows = journal["captain"]])
  /\ UNCHANGED <<acked, source, fleetRow, events, store>>

ReadSource(i) ==
  /\ \/ /\ reconciler[i].pc = "branch-row"
        /\ GoesWith(i, [reconciler[i] EXCEPT !.pc = "branch-bind", !.known = source["branch"]])
     \/ /\ reconciler[i].pc = "captain"
        /\ GoesWith(i, [reconciler[i] EXCEPT !.pc = "captain-row", !.known = source["captain"]])
  /\ UNCHANGED <<acked, source, fleetRow, events, store>>

(* _bootstrap_cursor and initialize_source: a source that never accepted   *)
(* anything is bound where the policy says; a race is lost quietly and the *)
(* row is read again.                                                      *)
Unbound(row) ==
  row.state = "none" \/ (row.state = "fault" /\ row.cursor = 0 /\ row.prefix = << >>
                         /\ row.tail = 0 /\ row.accepted = 0)

BootstrapCursors(tail) ==
  CASE policy = "tail"       -> {tail}
    [] policy = "from-start" -> {0}
    [] policy = "after:1"    -> {n \in {1} : n <= tail}

BindStep(s) == IF s = "branch" THEN "branch-bind" ELSE "captain-bind"
ApplyStep(s) == IF s = "branch" THEN "branch-apply" ELSE "captain-apply"

InitializeSource(i, s) ==
  /\ reconciler[i].pc = BindStep(s)
  /\ \/ /\ Unbound(reconciler[i].known)
        /\ \E cursor \in BootstrapCursors(Len(reconciler[i].rows)) :
             source' = [source EXCEPT ![s] =
               IF Unbound(@)
               THEN [state |-> "available", cursor |-> cursor, accepted |-> 0,
                     prefix |-> SubSeq(reconciler[i].rows, 1, cursor), tail |-> Len(reconciler[i].rows)]
               ELSE @]
     \/ ~Unbound(reconciler[i].known) /\ UNCHANGED source
  /\ GoesWith(i, [reconciler[i] EXCEPT !.pc = ApplyStep(s),
                  !.known = IF Unbound(@) THEN source'[s] ELSE @])
  /\ UNCHANGED <<acked, fleetRow, events, store>>

(* _prefix_hash: what was accepted is still the beginning of the journal.  *)
SamePrefix(row, rows) ==
  row.cursor <= Len(rows) /\ (row.cursor > 0 => row.prefix = SubSeq(rows, 1, row.cursor))

(* Mutant: the cursor is not compared with the row's. *)
CursorAny(s, expected) == TRUE
CursorUnmoved(s, expected) == source[s].cursor = expected

(* A line with the identity of an accepted one must be that line.          *)
Identical(s, first, rows) ==
  \A e \in events : e[1] = s /\ e[2] \in first .. Len(rows) => e[3] = rows[e[2]]

(* What the adapter makes of line n of a journal; a silent line is stored  *)
(* without an activity.                                                    *)
RecordOf(s, n, line) == [key |-> <<s, n>>, state |-> IF line = "silent" THEN "none" ELSE line]

(* apply_source_event_batch: events, projections and cursor in one         *)
(* transaction.  Lines accepted before are duplicates and add nothing.     *)
ApplyBatch(i, s) ==
  LET r == reconciler[i]
      first == r.known.cursor + 1
      fresh == {n \in first .. Len(r.rows) : \A e \in events : <<e[1], e[2]>> # <<s, n>>}
      told == {n \in fresh : r.rows[n] # "silent"}
  IN /\ r.pc = ApplyStep(s)
     /\ SamePrefix(r.known, r.rows) /\ CursorUnmoved(s, r.known.cursor) /\ Identical(s, first, r.rows)
     /\ Len(store.changes) + Cardinality(told) <= MaxChanges
     /\ events' = events \cup {<<s, n, r.rows[n]>> : n \in fresh}
     /\ store' = Projected(store, [n \in 1 .. Len(r.rows) |->
                                     RecordOf(s, n, IF n \in told THEN r.rows[n] ELSE "silent")])
     /\ source' = [source EXCEPT ![s] = [state |-> "available", cursor |-> Len(r.rows), prefix |-> r.rows,
                                         tail |-> Len(r.rows), accepted |-> @.accepted + Cardinality(fresh)]]
     /\ IF s = "branch" THEN Goes(i, "captain") ELSE GoesWith(i, [r EXCEPT !.pc = "ack"])
     /\ UNCHANGED <<acked, fleetRow>>

(* _acknowledge_captain_events: after the commit, or again for the cursor  *)
(* an earlier pass committed.                                              *)
Acknowledge(i) ==
  LET r == reconciler[i]
  IN /\ \/ r.pc = "ack" /\ acked' = Len(r.rows) /\ GoesWith(i, Resting)
        \/ /\ r.pc = "captain-bind" /\ ~Unbound(r.known) /\ r.known.cursor # acked
           /\ r.known.cursor > 0 /\ SamePrefix(r.known, r.rows)
           /\ acked' = r.known.cursor /\ UNCHANGED reconciler
     /\ UNCHANGED <<source, fleetRow, events, store>>

(* mark_source_fault: a source that cannot be read, a journal that changed *)
(* or a lost race; the pass goes on with the next source.                  *)
Faulted(s) == source' = [source EXCEPT ![s].state = "fault"]

FleetFault(i) == reconciler[i].pc = "fleet" /\ Goes(i, "branch") /\ UNCHANGED source

BranchFault(i) ==
  /\ reconciler[i].pc \in {"branch", "branch-row", "branch-bind", "branch-apply"}
  /\ Faulted("branch") /\ Goes(i, "captain")

(* Also when Firstmate's captain-event command fails, times out or refuses.*)
CaptainFault(i) ==
  /\ reconciler[i].pc \in {"captain", "captain-row", "captain-bind", "captain-apply", "ack"}
  /\ Faulted("captain") /\ GoesWith(i, Resting)

SourceFault(i) ==
  /\ FleetFault(i) \/ BranchFault(i) \/ CaptainFault(i)
  /\ UNCHANGED <<acked, fleetRow, events, store>>

(* The process ends: what it knew is gone.                                 *)
ReconcilerStops(i) ==
  /\ reconciler[i].pc # "idle" /\ GoesWith(i, Resting)
  /\ UNCHANGED <<acked, source, fleetRow, events, store>>

Reconcile(i) ==
  /\ \/ ReadFleet(i) \/ ReconcileSnapshot(i) \/ ReadBranchRows(i) \/ ReadCaptainRows(i) \/ ReadSource(i)
     \/ \E s \in Journals : InitializeSource(i, s) \/ ApplyBatch(i, s)
     \/ Acknowledge(i) \/ SourceFault(i) \/ ReconcilerStops(i)
  /\ UNCHANGED <<firstmateVars, policy, clientVars>>
-----------------------------------------------------------------------------
(* list_activity and snapshot_activity: a page is read in one transaction  *)
(* and each entry carries its record as it is then.                        *)
Row(n, k) == [n |-> n, key |-> k, rec |-> store.records[k]]
Newest(k) == Max({n \in 1 .. Len(store.changes) : store.changes[n].key = k})

ReplayPage(after) ==
  LET last == Min({after + PageSize, Len(store.changes)})
  IN [kind |-> "replay", cursor |-> last, rows |-> {Row(n, store.changes[n].key) : n \in after + 1 .. last}]

NewestBefore(before) ==
  {k \in Known(store) : /\ Index(store, k) < before
                        /\ Index(store, k) >= before - PageSize}

FocusKeys == {k \in Known(store) : IsFocus(k, store.records[k])}

(* Mutant: only the page is sent. *)
PageOnly(before, kind) ==
  [kind |-> kind, cursor |-> Len(store.changes), rows |-> {Row(Newest(k), k) : k \in NewestBefore(before)}]

SnapshotPage(before, kind) ==
  [kind |-> kind, cursor |-> Len(store.changes),
   rows |-> {Row(Newest(k), k) : k \in NewestBefore(before) \cup FocusKeys}]

(* The event socket sends the pages after a cursor of its own, which may   *)
(* be ahead of a client that has lost some.                                *)
StreamActivity ==
  \E after \in client.cursor .. Len(store.changes) - 1 : responses' = responses \cup {ReplayPage(after)}

(* The client asks for changes, for the newest page or for an older one;   *)
(* answers arrive in any order or are lost.                                *)
AskActivity ==
  /\ Cardinality(responses) < MaxResponses
  /\ \/ StreamActivity
     \/ client.cursor < Len(store.changes) /\ responses' = responses \cup {ReplayPage(client.cursor)}
     \/ responses' = responses \cup {SnapshotPage(Len(Inserted(store)) + 1, "newest")}
     \/ \E before \in 1 .. Len(Inserted(store)) : responses' = responses \cup {SnapshotPage(before, "older")}
  /\ UNCHANGED client

(* ingestCanonicalActivityPage: entries up to the cursor may only raise a  *)
(* revision, the ones after it must follow it without a gap.               *)
Held(k) == client.seen[k].rev > 0
Fits(p) ==
  LET unseen == {r \in p.rows : r.n > client.cursor}
  IN /\ \A r \in p.rows \ unseen : Held(r.key) \/ client.baseline
     /\ unseen # {} => client.cursor + 1 \in {r.n : r \in unseen}
     /\ unseen = {} => p.cursor <= client.cursor
     /\ \A r \in unseen : r.rec.rev >= client.seen[r.key].rev

(* What the client holds after merging rows, the higher revision winning.  *)
Merged(seen, rows) ==
  [k \in Keys |-> LET r == {x \in rows : x.key = k /\ x.rec.rev > seen[k].rev}
                  IN IF r = {} THEN seen[k] ELSE (CHOOSE x \in r : TRUE).rec]

MergeReplay(p) ==
  /\ p.kind = "replay" /\ Fits(p)
  /\ client' = [client EXCEPT
       !.cursor = Max({@, p.cursor}),
       !.seen = Merged(@, {r \in p.rows : r.n > client.cursor \/ Held(r.key)})]

(* ingestCanonicalActivitySnapshot: open facts that a snapshot no older    *)
(* than the cursor does not show are dropped; an older page is merged only *)
(* once the replay has reached it.                                         *)
MergeSnapshot(p) ==
  LET stale == {k \in Keys : /\ p.cursor >= client.cursor
                             /\ IsFocus(k, client.seen[k])
                             /\ k \notin {r.key : r \in p.rows}}
      kept == [k \in Keys |-> IF k \in stale THEN NoRecord ELSE client.seen[k]]
  IN /\ p.kind = "newest" \/ (p.kind = "older" /\ p.cursor <= client.cursor)
     /\ client' = [cursor |-> Max({client.cursor, p.cursor}), seen |-> Merged(kept, p.rows), baseline |-> TRUE]

Answer(p) ==
  /\ MergeReplay(p) \/ MergeSnapshot(p) \/ UNCHANGED client
  /\ responses' = responses \ {p}

ClientMoves ==
  /\ AskActivity \/ \E p \in responses : Answer(p)
  /\ UNCHANGED <<firstmateVars, acked, policy, source, fleetRow, events, store, reconciler>>

ActivityNext == FirstmateMoves \/ (\E i \in Reconcilers : Reconcile(i)) \/ ClientMoves

ActivitySpec == ActivityInit /\ [][ActivityNext]_activityVars
-----------------------------------------------------------------------------
(* Every source reaches the owner exactly as it was accepted: the events   *)
(* of a journal are an unbroken run of lines that ends at the cursor and   *)
(* agrees with the hash, each line that is not silent has its record,      *)
(* Firstmate is told only of what is stored, and the fleet's records are   *)
(* those of the newest observation, whichever process won a race and       *)
(* whatever became of the journals.                                        *)
JournalsAreDeliveredOnce ==
  /\ \A e \in events :
       /\ e[2] <= source[e[1]].cursor /\ source[e[1]].prefix[e[2]] = e[3]
       /\ \A n \in e[2] .. source[e[1]].cursor : \E d \in events : d[1] = e[1] /\ d[2] = n
       /\ e[3] # "silent" => store.records[<<e[1], e[2]>>] = [rev |-> 1, state |-> e[3]]
  /\ acked <= source["captain"].cursor

FleetIsNewest ==
  /\ (store.records[Decision].state = "awaiting-user") <=> fleetRow.open
  /\ fleetRow.open => store.records[Objective].state = "awaiting-user"

(* The projection agrees with all three sources of the adapter.            *)
ProjectionMatchesSources == JournalsAreDeliveredOnce /\ FleetIsNewest

(* Whatever pages the client lost, repeated or received late, everything   *)
(* that is open now is on its screen at its current revision or still in   *)
(* the part of the ledger it will replay.                                  *)
ReplayMissesNothing ==
  \A k \in FocusKeys :
    \/ client.seen[k].rev = store.records[k].rev
    \/ \E n \in client.cursor + 1 .. Len(store.changes) : store.changes[n].key = k
=============================================================================
