---------------------------- MODULE AccountProofs ----------------------------
(***************************************************************************)
(* Proofs about ProjectContext, GitHubApp and Notifications: an objective  *)
(* is dispatched with the context that was frozen, the ledger of a memory  *)
(* is complete, callbacks and webhook deliveries take effect once, and a   *)
(* push that was recorded is never sent again.                             *)
(***************************************************************************)
EXTENDS ProjectContext, GitHubApp, Notifications, LedgerFacts, FiniteSetTheorems, TLAPS

(* What was selected for an objective.                                     *)
Contexts == SUBSET (Entries \X Nat)
EntryRows == [state : {"none", "live", "deleted"}, rev : Nat, content : Contents \cup {NoContent}]
SubmissionRows == [state : {"none", "submitting", "lapsed", "accepted", "failed"},
                   project : ProjectIds \cup {NoProject}, context : Contexts, attempts : Nat]
WorkRows == [pc : {"idle", "memory", "assemble", "claim"},
             scope : (ProjectIds \cup {NoProject}) \X (Repositories \cup {NoRepository}),
             o : Objectives \cup {"none"}, context : Contexts]

ContextTypes ==
  /\ entry \in [Entries -> EntryRows] /\ terms \in SUBSET Entries
  /\ submission \in [Objectives -> SubmissionRows]
  /\ work \in [Actors -> WorkRows]
  /\ \A a \in Actors : /\ work[a].pc = "memory" => work[a].scope \in Scopes
                       /\ work[a].pc \in {"assemble", "claim"} => work[a].o \in Objectives
  /\ DOMAIN dispatched = Objectives /\ dispatched = [o \in Objectives |-> dispatched[o]]

(* Nothing was dispatched before the first claim, and the context that it  *)
(* stored ever since.                                                      *)
Frozen(row, contexts) == IF row.state = "none" THEN contexts = {} ELSE contexts = {row.context}
FrozenInv == \A o \in Objectives : Frozen(submission[o], dispatched[o])

ContextInv == ContextTypes /\ FrozenInv
-----------------------------------------------------------------------------
LEMMA Idles == NoWork \in WorkRows /\ NoWork.pc = "idle" /\ NoWork.context = {}
BY DEF NoWork, WorkRows, Contexts

LEMMA ContextStarts == ContextInit => ContextInv
<1> SUFFICES ASSUME ContextInit PROVE ContextInv
  OBVIOUS
<1>1. NoEntry \in EntryRows /\ NoSubmission \in SubmissionRows
  BY DEF NoEntry, NoSubmission, EntryRows, SubmissionRows, Contexts
<1>2. ContextTypes
  BY <1>1, Idles DEF ContextInit, ContextTypes
<1>3. FrozenInv
  BY DEF ContextInit, FrozenInv, Frozen, NoSubmission
<1> QED
  BY <1>2, <1>3 DEF ContextInv

LEMMA OneWork ==
  ASSUME ContextTypes, NEW a \in Actors, NEW w \in WorkRows, work' = [work EXCEPT ![a] = w],
         w.pc = "memory" => w.scope \in Scopes, w.pc \in {"assemble", "claim"} => w.o \in Objectives
  PROVE  /\ work' \in [Actors -> WorkRows]
         /\ \A b \in Actors : /\ work'[b].pc = "memory" => work'[b].scope \in Scopes
                              /\ work'[b].pc \in {"assemble", "claim"} => work'[b].o \in Objectives
<1>1. work' \in [Actors -> WorkRows] /\ work'[a] = w /\ \A b \in Actors \ {a} : work'[b] = work[b]
  BY DEF ContextTypes
<1> QED
  BY <1>1 DEF ContextTypes

LEMMA WorkEnding ==
  ASSUME ContextTypes, NEW a \in Actors, WorkEnds(a)
  PROVE  /\ work' \in [Actors -> WorkRows]
         /\ \A b \in Actors : /\ work'[b].pc = "memory" => work'[b].scope \in Scopes
                              /\ work'[b].pc \in {"assemble", "claim"} => work'[b].o \in Objectives
BY Idles, OneWork DEF WorkEnds

(* What a search selects.                                                  *)
LEMMA Selecting ==
  ASSUME ContextTypes, NEW s PROVE Selected(s) \in Contexts
<1> SUFFICES ASSUME NEW x \in Selected(s) PROVE x \in Entries \X Nat
  BY DEF Contexts
<1>1. PICK e \in terms : x = <<e, entry[e].rev>>
  BY DEF Selected
<1> QED
  BY <1>1 DEF ContextTypes, EntryRows

(* Steps of the projects and the memory.                                   *)
LEMMA OtherSteps ==
  ASSUME ContextInv, UNCHANGED <<submission, dispatched>>,
         entry' \in [Entries -> EntryRows], terms' \in SUBSET Entries,
         work' \in [Actors -> WorkRows],
         \A b \in Actors : /\ work'[b].pc = "memory" => work'[b].scope \in Scopes
                           /\ work'[b].pc \in {"assemble", "claim"} => work'[b].o \in Objectives
  PROVE  ContextInv'
BY DEF ContextInv, ContextTypes, FrozenInv

LEMMA ProjectStep == ASSUME ContextInv, NEW p \in ProjectIds, ProjectRequest(p) PROVE ContextInv'
<1>1. UNCHANGED <<entry, terms, work, submission, dispatched>>
  BY DEF ProjectRequest, CreateProject, DeleteProject, UpdateProject, BindRepository, UnbindRepository, memoryVars
<1> QED
  BY <1>1, OtherSteps DEF ContextInv, ContextTypes

LEMMA PutStep ==
  ASSUME ContextInv, NEW a \in Actors, NEW k \in MemoryKeys, NEW c \in Contents, NEW immutable \in BOOLEAN,
         Put(a, k, c, immutable)
  PROVE  ContextInv'
<1> DEFINE e == <<work[a].scope, k>>
           rev == entry[e].rev + 1
           row == [state |-> "live", rev |-> rev, content |-> c]
<1>0. ContextTypes /\ UNCHANGED <<submission, dispatched>> /\ WorkEnds(a) /\ work[a].pc = "memory"
  BY DEF ContextInv, Put
<1>1. e \in Entries
  BY <1>0 DEF ContextTypes, Entries
<1>2. rev \in Nat
  BY <1>0, <1>1 DEF ContextTypes, EntryRows
<1>3. row \in EntryRows
  BY <1>2 DEF EntryRows
<1>4. \/ UNCHANGED <<entry, terms>>
      \/ entry' = [entry EXCEPT ![e] = row] /\ terms' \in {terms \cup {e}, terms \ {e}}
  BY DEF Put, memoryVars
<1> HIDE DEF row, e
<1>5. entry' \in [Entries -> EntryRows] /\ terms' \in SUBSET Entries
  BY <1>0, <1>1, <1>3, <1>4 DEF ContextTypes
<1> QED
  BY <1>0, <1>5, WorkEnding, OtherSteps

LEMMA DeleteStep ==
  ASSUME ContextInv, NEW a \in Actors, NEW k \in MemoryKeys, DeleteEntry(a, k) PROVE ContextInv'
<1> DEFINE e == <<work[a].scope, k>>
           rev == entry[e].rev + 1
           row == [entry[e] EXCEPT !.state = "deleted", !.rev = rev]
<1>0. ContextTypes /\ UNCHANGED <<submission, dispatched>> /\ WorkEnds(a) /\ work[a].pc = "memory"
  BY DEF ContextInv, DeleteEntry
<1>1. e \in Entries
  BY <1>0 DEF ContextTypes, Entries
<1>2. rev \in Nat /\ entry[e] \in EntryRows
  BY <1>0, <1>1 DEF ContextTypes, EntryRows
<1>3. UNCHANGED <<entry, terms>> \/ (entry' = [entry EXCEPT ![e] = row] /\ terms' = terms \ {e})
  <2>1. entry \in [Entries -> EntryRows]
    BY <1>0 DEF ContextTypes
  <2>2. CASE UNCHANGED <<entry, terms>>
    BY <2>2
  <2>3. CASE entry' = [entry EXCEPT ![e].state = "deleted", ![e].rev = rev] /\ terms' = terms \ {e}
    BY <2>1, <2>3
  <2> QED
    BY <2>2, <2>3 DEF DeleteEntry, memoryVars
<1> HIDE DEF rev, e
<1>4. row \in EntryRows
  BY <1>2 DEF EntryRows
<1> HIDE DEF row
<1>5. entry' \in [Entries -> EntryRows] /\ terms' \in SUBSET Entries
  BY <1>0, <1>1, <1>3, <1>4 DEF ContextTypes
<1> QED
  BY <1>0, <1>5, WorkEnding, OtherSteps

LEMMA ResolveStep ==
  ASSUME ContextInv, NEW a \in Actors, NEW s \in Scopes, ResolveScope(a, s) PROVE ContextInv'
<1> DEFINE w == [NoWork EXCEPT !.pc = "memory", !.scope = s]
<1>0. /\ ContextTypes /\ UNCHANGED <<entry, terms, submission, dispatched>>
      /\ work' = [work EXCEPT ![a] = w]
  BY DEF ContextInv, ResolveScope, memoryVars
<1>1. w \in WorkRows /\ w.pc = "memory" /\ w.scope = s
  BY Idles DEF WorkRows, Scopes
<1> HIDE DEF w
<1>2. /\ work' \in [Actors -> WorkRows]
      /\ \A b \in Actors : /\ work'[b].pc = "memory" => work'[b].scope \in Scopes
                           /\ work'[b].pc \in {"assemble", "claim"} => work'[b].o \in Objectives
  BY <1>0, <1>1, OneWork
<1> QED
  BY <1>0, <1>2, OtherSteps DEF ContextTypes

LEMMA BeginClaimStep ==
  ASSUME ContextInv, NEW a \in Actors, NEW o \in Objectives, BeginClaim(a, o) PROVE ContextInv'
<1>0. ContextTypes /\ UNCHANGED <<entry, terms, submission, dispatched>>
  BY DEF ContextInv, BeginClaim, memoryVars
<1>1. PICK w \in WorkRows : w.pc \in {"assemble", "claim"} /\ w.o = o /\ work' = [work EXCEPT ![a] = w]
  <2>1. CASE work' = [work EXCEPT ![a] = [NoWork EXCEPT !.pc = "claim", !.o = o]]
    <3>1. LET w == [NoWork EXCEPT !.pc = "claim", !.o = o] IN w \in WorkRows /\ w.pc = "claim" /\ w.o = o
      BY Idles DEF WorkRows
    <3> QED
      BY <2>1, <3>1
  <2>2. CASE \E p \in ProjectIds \cup {NoProject} :
               work' = [work EXCEPT ![a] = [NoWork EXCEPT !.pc = "assemble", !.o = o, !.scope = <<p, NoRepository>>]]
    <3>1. PICK p \in ProjectIds \cup {NoProject} :
            work' = [work EXCEPT ![a] = [NoWork EXCEPT !.pc = "assemble", !.o = o, !.scope = <<p, NoRepository>>]]
      BY <2>2
    <3> DEFINE s == <<p, NoRepository>>
    <3>2. s \in (ProjectIds \cup {NoProject}) \X (Repositories \cup {NoRepository})
      OBVIOUS
    <3> HIDE DEF s
    <3>3. LET w == [NoWork EXCEPT !.pc = "assemble", !.o = o, !.scope = s]
          IN w \in WorkRows /\ w.pc = "assemble" /\ w.o = o
      BY <3>2, Idles DEF WorkRows
    <3> QED
      BY <3>1, <3>3 DEF s
  <2> QED
    BY <2>1, <2>2 DEF BeginClaim
<1>2. /\ work' \in [Actors -> WorkRows]
      /\ \A b \in Actors : /\ work'[b].pc = "memory" => work'[b].scope \in Scopes
                           /\ work'[b].pc \in {"assemble", "claim"} => work'[b].o \in Objectives
  BY <1>0, <1>1, OneWork
<1> QED
  BY <1>0, <1>2, OtherSteps DEF ContextTypes

LEMMA AssembleStep == ASSUME ContextInv, NEW a \in Actors, AssembleWorker(a) PROVE ContextInv'
<1>0. ContextTypes /\ UNCHANGED <<entry, terms, submission, dispatched>> /\ work[a].pc = "assemble"
  BY DEF ContextInv, AssembleWorker, memoryVars
<1>1. CASE WorkEnds(a)
  BY <1>0, <1>1, WorkEnding, OtherSteps DEF ContextTypes
<1>2. CASE \E found \in Contexts : work' = [work EXCEPT ![a].pc = "claim", ![a].context = found]
  <2>1. PICK found \in Contexts : work' = [work EXCEPT ![a].pc = "claim", ![a].context = found]
    BY <1>2
  <2> DEFINE w == [work[a] EXCEPT !.pc = "claim", !.context = found]
  <2>2. work[a] \in WorkRows /\ work[a].o \in Objectives /\ work \in [Actors -> WorkRows]
    BY <1>0 DEF ContextTypes
  <2>3. w \in WorkRows /\ w.pc = "claim" /\ w.o = work[a].o
    BY <2>2 DEF WorkRows
  <2>4. work' = [work EXCEPT ![a] = w]
    BY <2>1, <2>2
  <2> HIDE DEF w
  <2>5. /\ work' \in [Actors -> WorkRows]
        /\ \A b \in Actors : /\ work'[b].pc = "memory" => work'[b].scope \in Scopes
                             /\ work'[b].pc \in {"assemble", "claim"} => work'[b].o \in Objectives
    BY <1>0, <2>2, <2>3, <2>4, OneWork
  <2> QED
    BY <1>0, <2>5, OtherSteps DEF ContextTypes
<1>3. Selected(work[a].scope) \in Contexts
  BY <1>0, Selecting
<1> QED
  BY <1>1, <1>2, <1>3 DEF AssembleWorker

(* One submission is replaced, and what was dispatched stays the context   *)
(* that it holds.                                                          *)
LEMMA OneSubmission ==
  ASSUME ContextInv, NEW o \in Objectives, NEW row \in SubmissionRows, NEW contexts,
         submission' = [submission EXCEPT ![o] = row], dispatched' = [dispatched EXCEPT ![o] = contexts],
         Frozen(row, contexts), UNCHANGED <<entry, terms>>,
         work' \in [Actors -> WorkRows],
         \A b \in Actors : /\ work'[b].pc = "memory" => work'[b].scope \in Scopes
                           /\ work'[b].pc \in {"assemble", "claim"} => work'[b].o \in Objectives
  PROVE  ContextInv'
<1>1. submission' \in [Objectives -> SubmissionRows] /\ submission'[o] = row
  BY DEF ContextInv, ContextTypes
<1>2. DOMAIN dispatched' = Objectives /\ dispatched'[o] = contexts
  BY DEF ContextInv, ContextTypes
<1>3. \A q \in Objectives \ {o} : submission'[q] = submission[q] /\ dispatched'[q] = dispatched[q]
  BY DEF ContextInv, ContextTypes
<1>4. dispatched' = [q \in Objectives |-> dispatched'[q]]
  BY <1>2 DEF ContextInv, ContextTypes
<1>5. ContextTypes'
  BY <1>1, <1>2, <1>4 DEF ContextInv, ContextTypes
<1>6. FrozenInv'
  BY <1>1, <1>2, <1>3 DEF ContextInv, FrozenInv
<1> QED
  BY <1>5, <1>6 DEF ContextInv

LEMMA CommitStep == ASSUME ContextInv, NEW a \in Actors, CommitClaim(a) PROVE ContextInv'
<1> DEFINE o == work[a].o
           row == submission[o]
           first == [state |-> "submitting", project |-> work[a].scope[1], context |-> work[a].context,
                     attempts |-> 1]
           k == row.attempts + 1
           again == [row EXCEPT !.state = "submitting", !.attempts = k]
<1>0. ContextTypes /\ UNCHANGED <<entry, terms>> /\ WorkEnds(a) /\ work[a].pc = "claim"
  BY DEF ContextInv, CommitClaim, memoryVars
<1>1. o \in Objectives /\ work[a] \in WorkRows /\ row \in SubmissionRows
  BY <1>0 DEF ContextTypes
<1>2. /\ work' \in [Actors -> WorkRows]
      /\ \A b \in Actors : /\ work'[b].pc = "memory" => work'[b].scope \in Scopes
                           /\ work'[b].pc \in {"assemble", "claim"} => work'[b].o \in Objectives
  BY <1>0, WorkEnding
<1>3. Frozen(row, dispatched[o])
  BY <1>1 DEF ContextInv, FrozenInv
<1>4. CASE row.state = "none" /\ Dispatches(o, first, ContextStored(a, o))
  <2>1. work[a].scope[1] \in ProjectIds \cup {NoProject} /\ work[a].context \in Contexts
    BY <1>1 DEF WorkRows
  <2>2. first \in SubmissionRows /\ first.state = "submitting" /\ first.context = work[a].context
    BY <2>1 DEF SubmissionRows
  <2>3. ContextStored(a, o) = work[a].context /\ dispatched[o] \cup {work[a].context} = {work[a].context}
    BY <1>3, <1>4 DEF ContextStored, Frozen
  <2>4. /\ submission' = [submission EXCEPT ![o] = first]
        /\ dispatched' = [dispatched EXCEPT ![o] = {work[a].context}]
    BY <1>4, <2>3 DEF Dispatches
  <2> HIDE DEF first, o
  <2>5. Frozen(first, {work[a].context})
    BY <2>2 DEF Frozen
  <2> QED
    BY <1>0, <1>1, <1>2, <2>2, <2>4, <2>5, OneSubmission
<1>5. CASE row.state \in {"lapsed", "failed"} /\ Dispatches(o, again, ContextStored(a, o))
  <2>1. k \in Nat /\ Dispatches(o, again, ContextStored(a, o))
    BY <1>1, <1>5 DEF SubmissionRows
  <2> HIDE DEF k
  <2>2. again \in SubmissionRows /\ again.state = "submitting" /\ again.context = row.context
    BY <1>1, <2>1 DEF SubmissionRows
  <2>3. ContextStored(a, o) = row.context /\ dispatched[o] \cup {row.context} = {row.context}
    BY <1>3, <1>5 DEF ContextStored, Frozen
  <2>4. /\ submission' = [submission EXCEPT ![o] = again]
        /\ dispatched' = [dispatched EXCEPT ![o] = {row.context}]
    BY <1>5, <2>3 DEF Dispatches
  <2>5. Frozen(again, {row.context})
    BY <2>2 DEF Frozen
  <2> HIDE DEF again, row, o
  <2> QED
    BY <1>0, <1>1, <1>2, <2>2, <2>4, <2>5, OneSubmission
<1>6. CASE UNCHANGED <<submission, dispatched>>
  BY <1>0, <1>2, <1>6, OtherSteps DEF ContextTypes
<1> QED
  BY <1>4, <1>5, <1>6 DEF CommitClaim

LEMMA SettleStep == ASSUME ContextInv, NEW o \in Objectives, SettleDispatch(o) PROVE ContextInv'
<1>0. /\ ContextTypes /\ UNCHANGED <<entry, terms, work, dispatched>>
      /\ submission[o].state # "none" /\ submission[o] \in SubmissionRows
  BY DEF ContextInv, ContextTypes, SettleDispatch, memoryVars
<1>1. PICK state \in {"accepted", "failed", "lapsed"} : submission' = [submission EXCEPT ![o].state = state]
  BY DEF SettleDispatch
<1> DEFINE row == [submission[o] EXCEPT !.state = state]
<1>2. row \in SubmissionRows /\ row.state # "none" /\ row.context = submission[o].context
  BY <1>0 DEF SubmissionRows
<1>3. submission' = [submission EXCEPT ![o] = row] /\ dispatched' = [dispatched EXCEPT ![o] = dispatched[o]]
  BY <1>0, <1>1 DEF ContextTypes
<1> HIDE DEF row
<1>4. Frozen(row, dispatched[o])
  BY <1>0, <1>2 DEF ContextInv, FrozenInv, Frozen
<1> QED
  BY <1>0, <1>2, <1>3, <1>4, OneSubmission DEF ContextTypes

LEMMA OtherWork ==
  ASSUME ContextInv, NEW a \in Actors, Search(a) \/ AssembleChat(a) \/ ActorStops(a) PROVE ContextInv'
<1>1. UNCHANGED <<entry, terms, submission, dispatched>> /\ WorkEnds(a)
  BY DEF Search, AssembleChat, ActorStops, memoryVars
<1> QED
  BY <1>1, WorkEnding, OtherSteps DEF ContextInv, ContextTypes

LEMMA ContextStep == ContextInv /\ [ContextNext]_contextVars => ContextInv'
<1> SUFFICES ASSUME ContextInv, [ContextNext]_contextVars PROVE ContextInv'
  OBVIOUS
<1>1. CASE UNCHANGED contextVars
  BY <1>1, OtherSteps DEF contextVars, ContextInv, ContextTypes
<1>2. CASE \E p \in ProjectIds : ProjectRequest(p)
  BY <1>2, ProjectStep
<1>3. ASSUME NEW a \in Actors, MemoryRequest(a) PROVE ContextInv'
  BY <1>3, ResolveStep, DeleteStep, PutStep, OtherWork DEF MemoryRequest
<1>4. ASSUME NEW a \in Actors, AssembleWorker(a) \/ CommitClaim(a) \/ ActorStops(a) PROVE ContextInv'
  BY <1>4, AssembleStep, CommitStep, OtherWork
<1>5. ASSUME NEW a \in Actors, NEW o \in Objectives, BeginClaim(a, o) PROVE ContextInv'
  BY <1>5, BeginClaimStep
<1>6. CASE \E o \in Objectives : SettleDispatch(o)
  BY <1>6, SettleStep
<1> QED
  BY <1>1, <1>2, <1>3, <1>4, <1>5, <1>6 DEF ContextNext

(* Through every claim, retry, late answer and change of memory a          *)
(* submission is in step with what was dispatched for it.                  *)
THEOREM ContextInvariance == ContextSpec => []ContextInv
<1> QED
  BY ContextStarts, ContextStep, PTL DEF ContextSpec

(* An objective is dispatched with one context only, the one that its      *)
(* first claim stored (magi_firstmate_tools.py).                           *)
THEOREM OneContext == ContextSpec => []ContextStaysFrozen
<1>1. ContextInv => ContextStaysFrozen
  <2> SUFFICES ASSUME ContextInv, NEW o \in Objectives PROVE Cardinality(dispatched[o]) <= 1
    BY DEF ContextStaysFrozen
  <2>1. dispatched[o] = {} \/ dispatched[o] = {submission[o].context}
    BY DEF ContextInv, FrozenInv, Frozen
  <2>2. CASE dispatched[o] = {}
    BY <2>2, FS_EmptySet
  <2>3. CASE dispatched[o] = {submission[o].context}
    <3>1. \A x : Cardinality({x}) = 1
      BY FS_Singleton
    <3>2. Cardinality({submission[o].context}) = 1
      BY <3>1
    <3> QED
      BY <2>3, <3>2
  <2> QED
    BY <2>1, <2>2, <2>3
<1> QED
  BY <1>1, ContextInvariance, PTL
-----------------------------------------------------------------------------
(* The ledger of an entry: its row, its revisions and what the audit chain *)
(* of its scope tells of its key.                                          *)
Snapshots == Contents \cup {Tombstone}
AuditEvents == [key : MemoryKeys, rev : Nat, operation : {"created", "updated", "deleted"}]
EventsOf(chain, k) == {i \in 1 .. Len(chain) : chain[i].key = k}
Kept(row, snapshots, chain, k) ==
  /\ snapshots \in Seq(Snapshots) /\ chain \in Seq(AuditEvents)
  /\ Len(snapshots) = row.rev /\ row.rev <= MAX_MEMORY_REVISIONS_PER_ENTRY
  /\ Numbered(EventsOf(chain, k), chain, row.rev)
  /\ row.state = "none" => row.rev = 0
  /\ row.state = "live" =>
       0 < row.rev /\ row.rev < MAX_MEMORY_REVISIONS_PER_ENTRY /\ snapshots[row.rev] = row.content
  /\ \A i \in 1 .. row.rev : snapshots[i] = Tombstone <=> row.state = "deleted" /\ i = row.rev

TrailInv ==
  /\ DOMAIN revisions = Entries /\ DOMAIN audit = Scopes
  /\ \A e \in Entries : Kept(entry[e], revisions[e], audit[e[1]], e[2])
  /\ \A e \in Entries : e \in terms <=> Indexed(entry[e])

(* What a change leaves.                                                   *)
Changes(row, new, snapshot) ==
  /\ row.state # "deleted" /\ new.rev = row.rev + 1
  /\ \/ /\ new.state = "live" /\ new.content = snapshot /\ snapshot \in Contents
        /\ new.rev < MAX_MEMORY_REVISIONS_PER_ENTRY
     \/ /\ row.state = "live" /\ new.state = "deleted" /\ snapshot = Tombstone

(* The chain of a scope, one event longer.                                 *)
LEMMA ChainGrows ==
  ASSUME NEW chain \in Seq(AuditEvents), NEW event \in AuditEvents
  PROVE  LET longer == Append(chain, event)
             m      == Len(chain) + 1
         IN /\ longer \in Seq(AuditEvents) /\ m \in Nat
            /\ EventsOf(chain, event.key) \in SUBSET Nat
            /\ \A i \in 1 .. Len(chain) : i < m /\ longer[i] = chain[i]
            /\ longer[m] = event
            /\ EventsOf(longer, event.key) = EventsOf(chain, event.key) \cup {m}
            /\ \A k : k # event.key => EventsOf(longer, k) = EventsOf(chain, k)
<1> DEFINE longer == Append(chain, event)
           m == Len(chain) + 1
<1>1. Len(chain) \in Nat /\ longer \in Seq(AuditEvents) /\ Len(longer) = m
  OBVIOUS
<1>2. \A i \in 1 .. Len(chain) : i < m /\ longer[i] = chain[i]
  BY <1>1
<1>3. longer[m] = event
  BY <1>1
<1> HIDE DEF longer
<1>4. \A i : i \in 1 .. Len(longer) <=> i \in 1 .. Len(chain) \/ i = m
  BY <1>1
<1>5. EventsOf(longer, event.key) = EventsOf(chain, event.key) \cup {m}
  BY <1>1, <1>2, <1>3, <1>4 DEF EventsOf
<1>6. ASSUME NEW k, k # event.key PROVE EventsOf(longer, k) = EventsOf(chain, k)
  BY <1>1, <1>2, <1>3, <1>4, <1>6 DEF EventsOf
<1>7. EventsOf(chain, event.key) \in SUBSET Nat
  BY <1>1 DEF EventsOf
<1> QED
  BY <1>1, <1>2, <1>3, <1>5, <1>6, <1>7 DEF longer

LEMMA KeptChanged ==
  ASSUME NEW row \in EntryRows, NEW new \in EntryRows, NEW snapshots, NEW chain, NEW k, Kept(row, snapshots, chain, k),
         NEW snapshot, Changes(row, new, snapshot), NEW event \in AuditEvents, event.key = k, event.rev = new.rev
  PROVE  Kept(new, Append(snapshots, snapshot), Append(chain, event), k)
<1> DEFINE longer == Append(chain, event)
           m == Len(chain) + 1
           P == EventsOf(chain, k)
           after == Append(snapshots, snapshot)
<1>1. row.rev \in Nat /\ new.rev = row.rev + 1 /\ new.rev \in Nat
  BY DEF EntryRows, Changes
<1>2. snapshots \in Seq(Snapshots) /\ chain \in Seq(AuditEvents) /\ Len(snapshots) = row.rev
  BY DEF Kept
<1>3. snapshot \in Snapshots
  BY DEF Changes, Snapshots
<1>4. /\ after \in Seq(Snapshots) /\ Len(after) = new.rev /\ after[new.rev] = snapshot
      /\ \A i \in 1 .. row.rev : after[i] = snapshots[i]
  BY <1>1, <1>2, <1>3
<1>5. Numbered(EventsOf(longer, k), longer, new.rev) /\ longer \in Seq(AuditEvents)
  <2>1. /\ longer \in Seq(AuditEvents) /\ m \in Nat /\ P \in SUBSET Nat
        /\ \A i \in P : i < m
        /\ \A i \in P : longer[i] = chain[i]
        /\ longer[m].rev = row.rev + 1
        /\ EventsOf(longer, k) = P \cup {m}
    <3>1. \A i \in P : i \in 1 .. Len(chain)
      BY DEF EventsOf
    <3> QED
      BY <1>1, <1>2, <3>1, ChainGrows
  <2>2. Numbered(P, chain, row.rev)
    BY DEF Kept
  <2> HIDE DEF P, longer, m
  <2>3. Numbered(P \cup {m}, longer, row.rev + 1)
    BY <1>1, <2>1, <2>2, NumberedNext
  <2> QED
    BY <1>1, <2>1, <2>3
<1> HIDE DEF after, longer
<1>6. new.state # "none" /\ new.rev <= MAX_MEMORY_REVISIONS_PER_ENTRY
  <2>1. MAX_MEMORY_REVISIONS_PER_ENTRY \in Nat
    BY ProjectConstants
  <2>2. CASE new.state = "live"
    BY <1>1, <2>1, <2>2 DEF Changes
  <2>3. CASE row.state = "live" /\ new.state = "deleted"
    BY <1>1, <2>1, <2>3 DEF Kept
  <2> QED
    BY <2>2, <2>3 DEF Changes
<1>7. new.state = "live" =>
        0 < new.rev /\ new.rev < MAX_MEMORY_REVISIONS_PER_ENTRY /\ after[new.rev] = new.content
  BY <1>1, <1>4 DEF Changes
<1>8. ASSUME NEW i \in 1 .. new.rev
      PROVE  after[i] = Tombstone <=> new.state = "deleted" /\ i = new.rev
  <2>1. CASE i = new.rev
    BY <1>4, <2>1, SnapshotAssumption DEF Changes
  <2>2. CASE i # new.rev
    <3>1. i \in 1 .. row.rev
      BY <1>1, <2>2
    <3>2. snapshots[i] # Tombstone
      BY <3>1 DEF Kept, Changes
    <3> QED
      BY <1>4, <2>2, <3>1, <3>2
  <2> QED
    BY <2>1, <2>2
<1>9. Kept(new, after, longer, k)
  BY <1>4, <1>5, <1>6, <1>7, <1>8 DEF Kept
<1> QED
  BY <1>9 DEF after, longer

LEMMA KeptBeside ==
  ASSUME NEW row, NEW snapshots, NEW chain, NEW k, Kept(row, snapshots, chain, k),
         NEW event \in AuditEvents, event.key # k
  PROVE  Kept(row, snapshots, Append(chain, event), k)
<1> DEFINE longer == Append(chain, event)
<1>1. chain \in Seq(AuditEvents) /\ Numbered(EventsOf(chain, k), chain, row.rev)
  BY DEF Kept
<1>2. /\ longer \in Seq(AuditEvents) /\ EventsOf(longer, k) = EventsOf(chain, k)
      /\ \A i \in 1 .. Len(chain) : longer[i] = chain[i]
  BY <1>1, ChainGrows
<1> HIDE DEF longer
<1>3. \A i \in EventsOf(chain, k) : longer[i] = chain[i]
  BY <1>2 DEF EventsOf
<1>4. Numbered(EventsOf(longer, k), longer, row.rev)
  BY <1>1, <1>2, <1>3, NumberedSame
<1>5. Kept(row, snapshots, longer, k)
  BY <1>2, <1>4 DEF Kept
<1> QED
  BY <1>5 DEF longer

(* One entry changes and leaves a revision and an event.                   *)
LEMMA TrailChanged ==
  ASSUME ContextTypes, TrailInv, NEW s \in Scopes, NEW k \in MemoryKeys, NEW new \in EntryRows, NEW snapshot,
         Changes(entry[<<s, k>>], new, snapshot),
         NEW operation \in {"created", "updated", "deleted"}, Recorded(<<s, k>>, new.rev, snapshot, operation),
         entry' = [entry EXCEPT ![<<s, k>>] = new],
         terms' = IF Indexed(new) THEN terms \cup {<<s, k>>} ELSE terms \ {<<s, k>>}
  PROVE  TrailInv'
<1> DEFINE e == <<s, k>>
           event == [key |-> k, rev |-> new.rev, operation |-> operation]
<1>1. e \in Entries /\ e[1] = s /\ e[2] = k
  BY DEF Entries
<1>2. event \in AuditEvents /\ event.key = k /\ event.rev = new.rev
  BY DEF AuditEvents, EntryRows
<1>3. /\ revisions' = [revisions EXCEPT ![e] = Append(@, snapshot)]
      /\ audit' = [audit EXCEPT ![s] = Append(@, event)]
  BY <1>1 DEF Recorded
<1> HIDE DEF e, event
<1>4. /\ DOMAIN revisions = Entries /\ DOMAIN audit = Scopes /\ entry \in [Entries -> EntryRows]
  BY DEF TrailInv, ContextTypes
<1>5. DOMAIN revisions' = Entries /\ DOMAIN audit' = Scopes
  BY <1>3, <1>4
<1>6. ASSUME NEW x \in Entries PROVE Kept(entry'[x], revisions'[x], audit'[x[1]], x[2])
  <2>1. x \in Scopes \X MemoryKeys /\ x = <<x[1], x[2]>> /\ x[1] \in Scopes
    BY DEF Entries
  <2>2. Kept(entry[x], revisions[x], audit[x[1]], x[2])
    BY DEF TrailInv
  <2>3. CASE x = e
    <3>1. entry'[x] = new /\ revisions'[x] = Append(revisions[e], snapshot) /\ audit'[x[1]] = Append(audit[s], event)
      <4>1. entry' = [entry EXCEPT ![e] = new] /\ x \in Entries /\ x[1] \in Scopes /\ x[1] = s
        BY <1>1, <2>1, <2>3 DEF e
      <4> QED
        BY <1>3, <1>4, <2>3, <4>1
    <3>2. Kept(entry[e], revisions[e], audit[s], k) /\ entry[e] \in EntryRows /\ Changes(entry[e], new, snapshot)
      BY <1>1, <1>4, <2>2, <2>3 DEF e
    <3>3. Kept(new, Append(revisions[e], snapshot), Append(audit[s], event), k)
      BY <1>2, <3>2, KeptChanged
    <3> QED
      BY <1>1, <2>3, <3>1, <3>3
  <2>4. CASE x # e
    <3>1. entry'[x] = entry[x] /\ revisions'[x] = revisions[x]
      BY <1>3, <1>4, <2>4 DEF e
    <3>2. CASE x[1] # s
      <4>1. audit'[x[1]] = audit[x[1]]
        BY <1>3, <1>4, <2>1, <3>2
      <4> QED
        BY <2>2, <3>1, <4>1
    <3>3. CASE x[1] = s
      <4>1. audit'[x[1]] = Append(audit[x[1]], event)
        BY <1>3, <1>4, <2>1, <3>3
      <4>2. event.key # x[2]
        BY <1>2, <2>1, <2>4, <3>3 DEF e
      <4>3. Kept(entry[x], revisions[x], Append(audit[x[1]], event), x[2])
        BY <1>2, <2>2, <4>2, KeptBeside
      <4> QED
        BY <3>1, <4>1, <4>3
    <3> QED
      BY <3>2, <3>3
  <2> QED
    BY <2>3, <2>4
<1>7. ASSUME NEW x \in Entries PROVE x \in terms' <=> Indexed(entry'[x])
  <2>1. x \in terms <=> Indexed(entry[x])
    BY DEF TrailInv
  <2>2. CASE x = e
    <3>1. entry'[x] = new
      BY <1>1, <1>4, <2>2 DEF e
    <3> QED
      BY <2>2, <3>1 DEF e
  <2>3. CASE x # e
    <3>1. entry'[x] = entry[x]
      BY <1>4, <2>3 DEF e
    <3> QED
      BY <2>1, <2>3, <3>1 DEF e
  <2> QED
    BY <2>2, <2>3
<1> QED
  BY <1>5, <1>6, <1>7 DEF TrailInv

LEMMA PutKeepsTrail ==
  ASSUME ContextInv, TrailInv, NEW a \in Actors, NEW k \in MemoryKeys, NEW c \in Contents, NEW immutable \in BOOLEAN,
         Put(a, k, c, immutable)
  PROVE  TrailInv'
<1> DEFINE s == work[a].scope
           e == <<s, k>>
           rev == entry[e].rev + 1
           new == [state |-> "live", rev |-> rev, content |-> c]
           same == Conflicts(e, c, immutable) \/ (entry[e].state = "live" /\ entry[e].content = c)
<1>1. ContextTypes /\ s \in Scopes
  BY DEF ContextInv, ContextTypes, Put
<1>2. e \in Entries /\ entry[e] \in EntryRows /\ Kept(entry[e], revisions[e], audit[s], k)
  BY <1>1 DEF Entries, ContextTypes, TrailInv
<1>3. CASE same
  BY <1>3 DEF Put, memoryVars, TrailInv, Kept
<1>4. CASE ~same
  <2>1. /\ entry' = [entry EXCEPT ![e] = new]
        /\ Recorded(e, rev, c, IF rev = 1 THEN "created" ELSE "updated")
        /\ terms' = IF c \in Searchable THEN terms \cup {e} ELSE terms \ {e}
    BY <1>4 DEF Put
  <2>2. entry[e].rev \in Nat /\ rev \in Nat /\ MAX_MEMORY_REVISIONS_PER_ENTRY \in Nat \ {0, 1}
    BY <1>2, ProjectConstants DEF EntryRows
  <2>3. new \in EntryRows /\ new.state = "live" /\ new.rev = rev /\ new.content = c
    BY <2>2 DEF EntryRows
  <2>4. entry[e].state # "deleted" /\ rev < MAX_MEMORY_REVISIONS_PER_ENTRY
    <3>1. CASE entry[e].state = "none"
      BY <1>2, <2>2, <3>1 DEF Kept
    <3>2. CASE entry[e].state = "live"
      BY <1>4, <3>2 DEF Conflicts, RevisionLeft
    <3>3. CASE entry[e].state = "deleted"
      BY <1>4, <3>3 DEF Conflicts
    <3> QED
      BY <1>2, <3>1, <3>2, <3>3 DEF EntryRows
  <2>5. Changes(entry[e], new, c)
    BY <2>3, <2>4 DEF Changes
  <2> DEFINE operation == IF rev = 1 THEN "created" ELSE "updated"
  <2>6. operation \in {"created", "updated", "deleted"}
    OBVIOUS
  <2> HIDE DEF new, rev, operation
  <2>7. /\ Recorded(e, new.rev, c, operation)
        /\ terms' = IF Indexed(new) THEN terms \cup {e} ELSE terms \ {e}
    BY <2>1, <2>3 DEF operation, Indexed
  <2> HIDE DEF s
  <2> QED
    BY <1>1, <2>1, <2>3, <2>5, <2>6, <2>7, TrailChanged
<1> QED
  BY <1>3, <1>4

LEMMA DeleteKeepsTrail ==
  ASSUME ContextInv, TrailInv, NEW a \in Actors, NEW k \in MemoryKeys, DeleteEntry(a, k)
  PROVE  TrailInv'
<1> DEFINE s == work[a].scope
           e == <<s, k>>
           rev == entry[e].rev + 1
           new == [entry[e] EXCEPT !.state = "deleted", !.rev = rev]
<1>1. ContextTypes /\ s \in Scopes
  BY DEF ContextInv, ContextTypes, DeleteEntry
<1>2. e \in Entries /\ entry[e] \in EntryRows /\ entry \in [Entries -> EntryRows]
  BY <1>1 DEF Entries, ContextTypes
<1>3. CASE entry[e].state # "live"
  BY <1>3 DEF DeleteEntry, memoryVars, TrailInv, Kept
<1>4. CASE entry[e].state = "live"
  <2>1. /\ entry' = [entry EXCEPT ![e].state = "deleted", ![e].rev = rev]
        /\ Recorded(e, rev, Tombstone, "deleted")
        /\ terms' = terms \ {e}
    BY <1>4 DEF DeleteEntry
  <2>2. rev \in Nat /\ rev = entry[e].rev + 1
    BY <1>2 DEF EntryRows
  <2> HIDE DEF rev
  <2>3. entry' = [entry EXCEPT ![e] = new]
    BY <1>2, <2>1
  <2>4. new \in EntryRows /\ new.state = "deleted" /\ new.rev = rev
    BY <1>2, <2>2 DEF EntryRows
  <2> HIDE DEF new
  <2>5. Changes(entry[e], new, Tombstone)
    BY <1>4, <2>2, <2>4 DEF Changes
  <2>6. /\ Recorded(e, new.rev, Tombstone, "deleted")
        /\ terms' = IF Indexed(new) THEN terms \cup {e} ELSE terms \ {e}
    BY <2>1, <2>4 DEF Indexed
  <2> HIDE DEF s
  <2> QED
    BY <1>1, <2>3, <2>4, <2>5, <2>6, TrailChanged
<1> QED
  BY <1>3, <1>4

LEMMA TrailStays == ASSUME TrailInv, UNCHANGED memoryVars PROVE TrailInv'
BY DEF memoryVars, TrailInv, Kept

LEMMA TrailStarts == ContextInit => TrailInv
<1> SUFFICES ASSUME ContextInit PROVE TrailInv
  OBVIOUS
<1>1. DOMAIN revisions = Entries /\ DOMAIN audit = Scopes /\ terms = {}
  BY DEF ContextInit
<1>2. ASSUME NEW e \in Entries PROVE Kept(entry[e], revisions[e], audit[e[1]], e[2]) /\ entry[e].state = "none"
  <2>1. e[1] \in Scopes
    BY DEF Entries
  <2>2. revisions[e] = <<>> /\ audit[e[1]] = <<>> /\ entry[e].rev = 0 /\ entry[e].state = "none"
    BY <2>1 DEF ContextInit, NoEntry
  <2>3. EventsOf(<<>>, e[2]) = {}
    BY DEF EventsOf
  <2>4. Numbered({}, <<>>, 0)
    BY DEF Numbered
  <2>5. <<>> \in Seq(Snapshots) /\ <<>> \in Seq(AuditEvents) /\ Len(<<>>) = 0
    OBVIOUS
  <2>6. 0 <= MAX_MEMORY_REVISIONS_PER_ENTRY /\ 1 .. 0 = {}
    BY ProjectConstants
  <2> QED
    BY <2>2, <2>3, <2>4, <2>5, <2>6 DEF Kept
<1> QED
  BY <1>1, <1>2 DEF TrailInv, Indexed

LEMMA TrailStep == ContextInv /\ TrailInv /\ [ContextNext]_contextVars => TrailInv'
<1> SUFFICES ASSUME ContextInv, TrailInv, [ContextNext]_contextVars PROVE TrailInv'
  OBVIOUS
<1>1. CASE UNCHANGED contextVars
  BY <1>1, TrailStays DEF contextVars, memoryVars
<1>2. CASE \E p \in ProjectIds : ProjectRequest(p)
  BY <1>2, TrailStays
  DEF ProjectRequest, CreateProject, DeleteProject, UpdateProject, BindRepository, UnbindRepository
<1>3. ASSUME NEW a \in Actors, MemoryRequest(a) PROVE TrailInv'
  <2>1. CASE (\E s \in Scopes : ResolveScope(a, s)) \/ Search(a) \/ AssembleChat(a)
    BY <2>1, TrailStays DEF ResolveScope, Search, AssembleChat
  <2> QED
    BY <1>3, <2>1, PutKeepsTrail, DeleteKeepsTrail DEF MemoryRequest
<1>4. ASSUME NEW a \in Actors, \/ AssembleWorker(a) \/ CommitClaim(a) \/ ActorStops(a)
                               \/ \E o \in Objectives : BeginClaim(a, o)
      PROVE  TrailInv'
  BY <1>4, TrailStays DEF AssembleWorker, CommitClaim, ActorStops, BeginClaim
<1>5. CASE \E o \in Objectives : SettleDispatch(o)
  BY <1>5, TrailStays DEF SettleDispatch
<1> QED
  BY <1>1, <1>2, <1>3, <1>4, <1>5 DEF ContextNext

(* Whatever two requests do between resolving a project and writing its    *)
(* memory, the ledger of an entry is complete, and the tombstone of a live *)
(* one still fits (project_memory.py, put and delete).                     *)
THEOREM TrailIsKept == ContextSpec => []MemoryKeepsItsTrail
<1>1. TrailInv => MemoryKeepsItsTrail
  <2> SUFFICES ASSUME TrailInv, NEW e \in Entries
               PROVE  /\ Len(revisions[e]) = entry[e].rev /\ entry[e].rev <= MAX_MEMORY_REVISIONS_PER_ENTRY
                      /\ {audit[e[1]][i].rev : i \in TrailOf(e)} = 1 .. entry[e].rev
                      /\ \A i, j \in TrailOf(e) : i < j => audit[e[1]][i].rev < audit[e[1]][j].rev
                      /\ entry[e].state = "live" =>
                           /\ entry[e].rev < MAX_MEMORY_REVISIONS_PER_ENTRY
                           /\ revisions[e][entry[e].rev] = entry[e].content
                      /\ \A i \in 1 .. entry[e].rev :
                           revisions[e][i] = Tombstone <=> entry[e].state = "deleted" /\ i = entry[e].rev
                      /\ e \in terms <=> Indexed(entry[e])
    BY DEF MemoryKeepsItsTrail
  <2>1. Kept(entry[e], revisions[e], audit[e[1]], e[2])
    BY DEF TrailInv
  <2>2. TrailOf(e) = EventsOf(audit[e[1]], e[2])
    BY DEF TrailOf, EventsOf
  <2>3. Numbered(TrailOf(e), audit[e[1]], entry[e].rev)
    BY <2>1, <2>2 DEF Kept
  <2>4. /\ {audit[e[1]][i].rev : i \in TrailOf(e)} = 1 .. entry[e].rev
        /\ \A i, j \in TrailOf(e) : i < j => audit[e[1]][i].rev < audit[e[1]][j].rev
    BY <2>3, NumberedAre
  <2> QED
    BY <2>1, <2>4 DEF Kept, TrailInv
<1> QED
  BY <1>1, TrailStarts, TrailStep, ContextInvariance, PTL DEF ContextSpec
-----------------------------------------------------------------------------
HandlerFields == {"pc", "i", "user", "seen", "status", "repos", "d", "then"}
DeliveryStates == {"none", "processing", "processed", "failed"}

AppTypes ==
  /\ DOMAIN handler = Handlers
  /\ \A h \in Handlers : DOMAIN handler[h] = HandlerFields /\ handler[h].d \in WebhookIds \cup {"none"}
  /\ delivery \in [WebhookIds -> DeliveryStates]
  /\ transaction \in [Transactions -> [state : {"none", "open", "consumed"}, user : Accounts \cup {NoOwner}]]
  /\ used \in [Transactions \cup WebhookIds -> Nat]

(* What took effect is consumed or processed, and took effect once.        *)
EffectsInv ==
  /\ \A t \in Transactions : used[t] <= 1 /\ (transaction[t].state # "consumed" => used[t] = 0)
  /\ \A d \in WebhookIds : used[d] <= 1 /\ (delivery[d] # "processed" => used[d] = 0)

(* A delivery in hand is marked as under way, and is in one hand.          *)
HandsInv ==
  /\ \A h \in Handlers : handler[h].d \in WebhookIds => delivery[handler[h].d] = "processing"
  /\ \A h, g \in Handlers : handler[h].d = handler[g].d /\ handler[h].d # "none" => h = g

AppInv == AppTypes /\ EffectsInv /\ HandsInv

LEMMA IdleHandler == DOMAIN Idle = HandlerFields /\ Idle.d = "none" /\ Idle.pc = "idle"
BY DEF Idle, HandlerFields

LEMMA AppStarts == AppInit => AppInv
<1> SUFFICES ASSUME AppInit PROVE AppInv
  OBVIOUS
<1>1. AppTypes
  BY IdleHandler DEF AppInit, AppTypes, DeliveryStates
<1>2. EffectsInv
  BY DEF AppInit, EffectsInv
<1>3. HandsInv
  BY IdleHandler, AppIdsDiffer DEF AppInit, HandsInv
<1> QED
  BY <1>1, <1>2, <1>3 DEF AppInv

(* A handler goes on with the delivery it has, or lets go of it.           *)
LEMMA HandlerGoes ==
  ASSUME AppInv, NEW h \in Handlers, NEW row, Goes(h, row), DOMAIN row = HandlerFields,
         row.d \in {handler[h].d, "none"}, UNCHANGED <<transaction, delivery, used>>
  PROVE  AppInv'
<1>1. DOMAIN handler' = Handlers /\ handler'[h] = row /\ \A g \in Handlers \ {h} : handler'[g] = handler[g]
  BY DEF AppInv, AppTypes, Goes
<1>2. AppTypes'
  BY <1>1 DEF AppInv, AppTypes
<1>3. EffectsInv'
  BY DEF AppInv, EffectsInv
<1>4. HandsInv'
  BY <1>1, AppIdsDiffer DEF AppInv, HandsInv
<1> QED
  BY <1>2, <1>3, <1>4 DEF AppInv

LEMMA HandlerFinishes ==
  ASSUME AppInv, NEW h \in Handlers, Finished(h), UNCHANGED <<transaction, delivery, used>> PROVE AppInv'
BY IdleHandler, HandlerGoes DEF Finished

LEMMA HandlerFieldsKept ==
  ASSUME AppInv, NEW h \in Handlers, NEW pc, NEW x
  PROVE  /\ LET r == [handler[h] EXCEPT !.pc = pc] IN DOMAIN r = HandlerFields /\ r.d = handler[h].d
         /\ LET r == [handler[h] EXCEPT !.pc = pc, !.seen = x] IN DOMAIN r = HandlerFields /\ r.d = handler[h].d
         /\ LET r == [handler[h] EXCEPT !.pc = pc, !.repos = x] IN DOMAIN r = HandlerFields /\ r.d = handler[h].d
BY DEF AppInv, AppTypes, HandlerFields

LEMMA HandlerWillWrite ==
  ASSUME AppInv, NEW h \in Handlers, NEW status, NEW then
  PROVE  LET r == [handler[h] EXCEPT !.pc = "read", !.status = status, !.then = then]
         IN DOMAIN r = HandlerFields /\ r.d = handler[h].d
BY DEF AppInv, AppTypes, HandlerFields

LEMMA GitHubStep ==
  ASSUME AppInv, NEW d \in WebhookIds, NEW i \in Installations, RemoteChanges(d, i) PROVE AppInv'
<1>1. UNCHANGED <<handler, transaction, delivery, used>>
  BY DEF RemoteChanges
<1> QED
  BY <1>1 DEF AppInv, AppTypes, EffectsInv, HandsInv

LEMMA CreateStep ==
  ASSUME AppInv, NEW t \in Transactions, NEW u \in Accounts, CreateTransaction(t, u) PROVE AppInv'
<1> DEFINE row == [state |-> "open", user |-> u]
<1>1. /\ UNCHANGED <<handler, delivery, used>> /\ transaction[t].state = "none"
      /\ transaction' = [transaction EXCEPT ![t] = row]
  BY DEF CreateTransaction
<1>2. row \in [state : {"none", "open", "consumed"}, user : Accounts \cup {NoOwner}] /\ row.state = "open"
  OBVIOUS
<1> HIDE DEF row
<1>3. AppTypes'
  BY <1>1, <1>2 DEF AppInv, AppTypes
<1>4. EffectsInv' /\ HandsInv'
  BY <1>1, <1>2 DEF AppInv, AppTypes, EffectsInv, HandsInv
<1> QED
  BY <1>3, <1>4 DEF AppInv

LEMMA CallbackStep ==
  ASSUME AppInv, NEW h \in Handlers, NEW t \in Transactions, NEW i \in Installations, AppCallback(h, t, i)
  PROVE  AppInv'
<1> DEFINE row == [transaction[t] EXCEPT !.state = "consumed"]
           next == [Idle EXCEPT !.pc = "bind", !.i = i, !.user = transaction[t].user]
<1>1. /\ transaction \in [Transactions -> [state : {"none", "open", "consumed"}, user : Accounts \cup {NoOwner}]]
      /\ used \in [Transactions \cup WebhookIds -> Nat] /\ DOMAIN handler = Handlers
  BY DEF AppInv, AppTypes
<1>2. /\ transaction' = [transaction EXCEPT ![t] = row] /\ transaction[t].state = "open"
      /\ used' = [used EXCEPT ![t] = @ + 1] /\ handler' = [handler EXCEPT ![h] = next] /\ UNCHANGED delivery
  BY <1>1 DEF AppCallback, StateOpen, Goes
<1>3. row \in [state : {"none", "open", "consumed"}, user : Accounts \cup {NoOwner}] /\ row.state = "consumed"
  BY <1>1
<1>4. DOMAIN next = HandlerFields /\ next.d = "none"
  BY DEF Idle, HandlerFields
<1> HIDE DEF row, next
<1>5. /\ handler'[h] = next /\ DOMAIN handler' = Handlers /\ \A g \in Handlers \ {h} : handler'[g] = handler[g]
  BY <1>1, <1>2
<1>6. t \notin WebhookIds
  BY AppIdsDiffer
<1>7. /\ transaction'[t] = row /\ \A q \in Transactions \ {t} : transaction'[q] = transaction[q]
      /\ used'[t] = used[t] + 1 /\ \A x \in (Transactions \cup WebhookIds) \ {t} : used'[x] = used[x]
      /\ used' \in [Transactions \cup WebhookIds -> Nat]
  BY <1>1, <1>2
<1>8. AppTypes'
  BY <1>1, <1>2, <1>3, <1>4, <1>5, <1>7 DEF AppInv, AppTypes
<1>9. used[t] = 0
  BY <1>2 DEF AppInv, EffectsInv
<1>10. EffectsInv'
  BY <1>1, <1>2, <1>3, <1>6, <1>7, <1>9 DEF AppInv, EffectsInv
<1>11. HandsInv'
  BY <1>2, <1>4, <1>5, AppIdsDiffer DEF AppInv, HandsInv
<1> QED
  BY <1>8, <1>10, <1>11 DEF AppInv

LEMMA BeginDeliveryStep ==
  ASSUME AppInv, NEW h \in Handlers, NEW d \in WebhookIds, BeginDelivery(h, d) PROVE AppInv'
<1> DEFINE next == [Idle EXCEPT !.pc = "webhook", !.d = d, !.i = webhook[d].i]
<1>1. /\ delivery \in [WebhookIds -> DeliveryStates] /\ DOMAIN handler = Handlers
      /\ delivery[d] \in {"none", "failed"} /\ delivery' = [delivery EXCEPT ![d] = "processing"]
      /\ handler' = [handler EXCEPT ![h] = next] /\ UNCHANGED <<transaction, used>>
  BY DEF AppInv, AppTypes, BeginDelivery, MayProcess, Goes
<1>2. DOMAIN next = HandlerFields /\ next.d = d
  BY DEF Idle, HandlerFields
<1> HIDE DEF next
<1>3. /\ handler'[h] = next /\ DOMAIN handler' = Handlers /\ \A g \in Handlers \ {h} : handler'[g] = handler[g]
      /\ delivery'[d] = "processing" /\ \A e \in WebhookIds \ {d} : delivery'[e] = delivery[e]
      /\ delivery' \in [WebhookIds -> DeliveryStates]
  BY <1>1 DEF DeliveryStates
<1>4. \A g \in Handlers : handler[g].d # d
  BY <1>1 DEF AppInv, HandsInv
<1>5. AppTypes'
  BY <1>1, <1>2, <1>3 DEF AppInv, AppTypes
<1>6. EffectsInv'
  BY <1>1, <1>3 DEF AppInv, EffectsInv
<1>7. HandsInv'
  BY <1>1, <1>2, <1>3, <1>4 DEF AppInv, AppTypes, HandsInv
<1> QED
  BY <1>5, <1>6, <1>7 DEF AppInv

LEMMA FinishDeliveryStep == ASSUME AppInv, NEW h \in Handlers, FinishDelivery(h) PROVE AppInv'
<1> DEFINE d == handler[h].d
<1>1. d \in WebhookIds /\ delivery[d] = "processing" /\ used[d] = 0
  BY DEF AppInv, AppTypes, EffectsInv, HandsInv, FinishDelivery
<1>2. /\ delivery \in [WebhookIds -> DeliveryStates] /\ DOMAIN handler = Handlers
      /\ used \in [Transactions \cup WebhookIds -> Nat]
      /\ handler' = [handler EXCEPT ![h] = Idle] /\ UNCHANGED transaction
  BY DEF AppInv, AppTypes, FinishDelivery, Finished, Goes
<1>3. \/ delivery' = [delivery EXCEPT ![d] = "processed"] /\ used' = [used EXCEPT ![d] = @ + 1]
      \/ delivery' = [delivery EXCEPT ![d] = "failed"] /\ UNCHANGED used
  BY DEF FinishDelivery
<1>4. \A g \in Handlers \ {h} : handler[g].d # d
  BY <1>1, AppIdsDiffer DEF AppInv, HandsInv
<1> HIDE DEF d
<1>5. /\ handler'[h] = Idle /\ DOMAIN handler' = Handlers /\ \A g \in Handlers \ {h} : handler'[g] = handler[g]
  BY <1>2
<1>6. /\ \A e \in WebhookIds \ {d} : delivery'[e] = delivery[e]
      /\ delivery' \in [WebhookIds -> DeliveryStates] /\ used' \in [Transactions \cup WebhookIds -> Nat]
      /\ \A x \in (Transactions \cup WebhookIds) \ {d} : used'[x] = used[x]
      /\ used'[d] <= 1 /\ (delivery'[d] # "processed" => used'[d] = 0)
  BY <1>1, <1>2, <1>3 DEF DeliveryStates
<1>7. d \notin Transactions
  BY <1>1, AppIdsDiffer
<1>8. AppTypes'
  BY <1>2, <1>5, <1>6, IdleHandler DEF AppInv, AppTypes
<1>9. EffectsInv'
  BY <1>1, <1>2, <1>6, <1>7 DEF AppInv, EffectsInv
<1>10. HandsInv'
  BY <1>4, <1>5, <1>6, IdleHandler, AppIdsDiffer DEF AppInv, HandsInv
<1> QED
  BY <1>8, <1>9, <1>10 DEF AppInv

(* The steps between, all of which leave the bookkeeping alone.            *)
LEMMA WorkSteps ==
  ASSUME AppInv, NEW h \in Handlers,
         \/ BeginReconcile(h) \/ FetchInstallation(h) \/ UpsertRead(h) \/ UpsertWrite(h) \/ FetchRepositories(h)
         \/ ReplaceRepositories(h) \/ ProcessWebhook(h) \/ ApplyRepositories(h) \/ HandlerStops(h)
  PROVE  AppInv'
<1>1. CASE BeginReconcile(h)
  <2>1. UNCHANGED <<transaction, delivery, used>> /\ (Goes(h, [handler[h] EXCEPT !.pc = "fetch"]) \/ Finished(h))
    BY <1>1 DEF BeginReconcile
  <2> QED
    BY <2>1, HandlerFinishes, HandlerFieldsKept, HandlerGoes
<1>2. CASE FetchInstallation(h)
  <2>1. UNCHANGED <<transaction, delivery, used>> /\ (Finished(h) \/ \E then : Fetched(h, then))
    BY <1>2 DEF FetchInstallation
  <2> QED
    BY <2>1, HandlerFinishes, HandlerWillWrite, HandlerGoes DEF Fetched
<1>3. CASE UpsertRead(h)
  <2>1. /\ UNCHANGED <<transaction, delivery, used>>
        /\ Finished(h) \/ \E x : Goes(h, [handler[h] EXCEPT !.pc = "write", !.seen = x])
    BY <1>3 DEF UpsertRead
  <2>2. ASSUME NEW x, Goes(h, [handler[h] EXCEPT !.pc = "write", !.seen = x]) PROVE AppInv'
    <3> DEFINE r == [handler[h] EXCEPT !.pc = "write", !.seen = x]
    <3>1. DOMAIN r = HandlerFields /\ r.d = handler[h].d /\ Goes(h, r)
      BY <2>2, HandlerFieldsKept
    <3> HIDE DEF r
    <3> QED
      BY <2>1, <3>1, HandlerGoes
  <2> QED
    BY <2>1, <2>2, HandlerFinishes
<1>4. CASE UpsertWrite(h)
  <2>1. /\ UNCHANGED <<transaction, delivery, used>> /\ \E pc : Goes(h, [handler[h] EXCEPT !.pc = pc])
    BY <1>4 DEF UpsertWrite
  <2> QED
    BY <2>1, HandlerFieldsKept, HandlerGoes
<1>5. CASE FetchRepositories(h)
  <2>1. /\ UNCHANGED <<transaction, delivery, used>>
        /\ Finished(h) \/ \E x : Goes(h, [handler[h] EXCEPT !.pc = "activate", !.repos = x])
    BY <1>5 DEF FetchRepositories
  <2>2. ASSUME NEW x, Goes(h, [handler[h] EXCEPT !.pc = "activate", !.repos = x]) PROVE AppInv'
    <3> DEFINE r == [handler[h] EXCEPT !.pc = "activate", !.repos = x]
    <3>1. DOMAIN r = HandlerFields /\ r.d = handler[h].d /\ Goes(h, r)
      BY <2>2, HandlerFieldsKept
    <3> HIDE DEF r
    <3> QED
      BY <2>1, <3>1, HandlerGoes
  <2> QED
    BY <2>1, <2>2, HandlerFinishes
<1>6. CASE ReplaceRepositories(h)
  <2>1. /\ UNCHANGED <<transaction, delivery, used>>
        /\ Finished(h) \/ Goes(h, [handler[h] EXCEPT !.pc = "deactivate"])
    BY <1>6 DEF ReplaceRepositories
  <2> QED
    BY <2>1, HandlerFinishes, HandlerFieldsKept, HandlerGoes
<1>7. CASE ProcessWebhook(h)
  <2>1. UNCHANGED <<transaction, delivery, used>>
    BY <1>7 DEF ProcessWebhook
  <2>2. \/ \E pc : Goes(h, [handler[h] EXCEPT !.pc = pc])
        \/ \E status, then : Goes(h, [handler[h] EXCEPT !.pc = "read", !.status = status, !.then = then])
    <3>1. \/ Goes(h, [handler[h] EXCEPT !.pc = "read", !.status = "active", !.then = "finish"])
          \/ Goes(h, [handler[h] EXCEPT !.pc = "read", !.status = "as stored", !.then = "apply"])
          \/ Goes(h, [handler[h] EXCEPT !.pc = "finish"]) \/ Goes(h, [handler[h] EXCEPT !.pc = "apply"])
      BY <1>7 DEF ProcessWebhook
    <3> QED
      BY <3>1
  <2>3. CASE \E pc : Goes(h, [handler[h] EXCEPT !.pc = pc])
    BY <2>1, <2>3, HandlerFieldsKept, HandlerGoes
  <2>4. CASE \E status, then : Goes(h, [handler[h] EXCEPT !.pc = "read", !.status = status, !.then = then])
    BY <2>1, <2>4, HandlerWillWrite, HandlerGoes
  <2> QED
    BY <2>2, <2>3, <2>4
<1>8. CASE ApplyRepositories(h)
  <2>1. UNCHANGED <<transaction, delivery, used>> /\ Goes(h, [handler[h] EXCEPT !.pc = "finish"])
    BY <1>8 DEF ApplyRepositories
  <2> QED
    BY <2>1, HandlerFieldsKept, HandlerGoes
<1>9. CASE HandlerStops(h)
  <2>1. UNCHANGED <<transaction, delivery, used>> /\ Finished(h)
    BY <1>9 DEF HandlerStops
  <2> QED
    BY <2>1, HandlerFinishes
<1> QED
  BY <1>1, <1>2, <1>3, <1>4, <1>5, <1>6, <1>7, <1>8, <1>9

LEMMA AskStep ==
  ASSUME AppInv, NEW h \in Handlers, NEW i \in Installations, NEW u \in Accounts, AskReconcile(h, i, u)
  PROVE  AppInv'
<1> DEFINE next == [Idle EXCEPT !.pc = "reconcile", !.i = i, !.user = u]
<1>1. UNCHANGED <<transaction, delivery, used>> /\ Goes(h, next)
  BY DEF AskReconcile
<1>2. DOMAIN next = HandlerFields /\ next.d = "none"
  BY DEF Idle, HandlerFields
<1> HIDE DEF next
<1> QED
  BY <1>1, <1>2, HandlerGoes

LEMMA AppStep == AppInv /\ [AppNext]_appVars => AppInv'
<1> SUFFICES ASSUME AppInv, [AppNext]_appVars PROVE AppInv'
  OBVIOUS
<1>1. CASE UNCHANGED appVars
  BY <1>1 DEF appVars, AppInv, AppTypes, EffectsInv, HandsInv
<1>2. CASE AppNext
  BY <1>2, GitHubStep, CreateStep, CallbackStep, AskStep, BeginDeliveryStep, FinishDeliveryStep, WorkSteps DEF AppNext
<1> QED
  BY <1>1, <1>2

(* However handlers of several instances interleave, fail and stop, a      *)
(* delivery in hand is marked, and what took effect is marked for good.    *)
THEOREM AppInvariance == AppSpec => []AppInv
<1> QED
  BY AppStarts, AppStep, PTL DEF AppSpec

(* A callback state binds once and a processed delivery is not processed   *)
(* again (consume_transaction, begin_delivery and finish_delivery).        *)
THEOREM AppliedOnce == AppSpec => []DeliveriesApplyOnce
<1>1. AppInv => DeliveriesApplyOnce
  <2> SUFFICES ASSUME AppInv PROVE DeliveriesApplyOnce
    OBVIOUS
  <2>1. \A x \in Transactions \cup WebhookIds : used[x] <= 1
    BY DEF AppInv, EffectsInv
  <2>2. ASSUME NEW d \in WebhookIds PROVE Cardinality({h \in Handlers : handler[h].d = d}) <= 1
    <3> DEFINE S == {h \in Handlers : handler[h].d = d}
    <3>1. CASE S = {}
      BY <3>1, FS_EmptySet
    <3>2. CASE \E g \in Handlers : handler[g].d = d
      <4>1. PICK g \in Handlers : handler[g].d = d
        BY <3>2
      <4>2. S = {g}
        BY <4>1, AppIdsDiffer DEF AppInv, HandsInv
      <4>3. Cardinality({g}) = 1
        BY FS_Singleton
      <4> QED
        BY <4>2, <4>3
    <3> QED
      BY <3>1, <3>2
  <2> QED
    BY <2>1, <2>2 DEF DeliveriesApplyOnce
<1> QED
  BY <1>1, AppInvariance, PTL
-----------------------------------------------------------------------------
Ended == {"delivered", "failed", "expired"}
PushRows == [state : {"none", "sending", "retry", "pending"} \cup Ended, attempts : 0 .. MAX_SENDS,
             due : BOOLEAN, old : BOOLEAN]
DeviceRows == [token : PushTokens \cup {NoToken}, revoked : {"no", "owner", "provider"}, granted : BOOLEAN]
NoticeRows == [rev : 0 .. MaxRevisions, active : BOOLEAN,
               delivered : {"no", "retired", "handoff", "client"}, viewed : BOOLEAN]
PusherRows == [pc : {"idle", "reconcile", "claim", "post", "answer"}, rev : 0 .. MaxRevisions,
               token : PushTokens \cup {NoToken}, attempt : Nat]
ItemRows == [rev : Revisions, shown : BOOLEAN]

PushTypes ==
  /\ item \in ItemRows /\ notice \in NoticeRows /\ device \in DeviceRows
  /\ push \in [Deliveries -> PushRows]
  /\ pusher \in [Pushers -> PusherRows]
  /\ \A p \in Pushers : pusher[p].pc \in {"claim", "post", "answer"} => pusher[p].token # NoToken
  /\ polling \in [Pushers -> SUBSET Deliveries]

HandedOff == notice.delivered = "handoff" => \E t \in PushTokens : push[<<notice.rev, t>>].state = "delivered"
GoneDevices == device.revoked = "provider" => device.token \in dead

PushInv == PushTypes /\ HandedOff /\ GoneDevices

(* What a step may do to a delivery.                                       *)
RowAdvances(r, q) ==
  /\ q \in PushRows
  /\ r.state \notin {"none", "sending", "retry"} => q.state \notin {"sending", "retry"}
  /\ r.state \in Ended => q = r
DeliveriesAdvance == \A d \in Deliveries : RowAdvances(push[d], push'[d])
-----------------------------------------------------------------------------
LEMMA PushStarts == PushInit => PushInv
<1> SUFFICES ASSUME PushInit PROVE PushInv
  OBVIOUS
<1> USE NotificationConstants
<1>1. NoPush \in PushRows /\ NoDevice \in DeviceRows /\ NoNotice \in NoticeRows /\ NotSending \in PusherRows
  BY DEF NoPush, NoDevice, NoNotice, NotSending, PushRows, DeviceRows, NoticeRows, PusherRows
<1>2. item \in ItemRows
  BY DEF PushInit, ItemRows, Revisions
<1>3. PushTypes
  BY <1>1, <1>2 DEF PushInit, PushTypes, NotSending
<1>4. HandedOff /\ GoneDevices
  BY DEF PushInit, HandedOff, GoneDevices, NoNotice, NoDevice
<1> QED
  BY <1>3, <1>4 DEF PushInv

(* A row of the delivery that a pusher is sending.                         *)
LEMMA SendingDelivery ==
  ASSUME PushTypes, NEW p \in Pushers, pusher[p].pc \in {"claim", "post", "answer"}
  PROVE  <<pusher[p].rev, pusher[p].token>> \in Deliveries
<1>1. pusher[p] \in PusherRows /\ pusher[p].token # NoToken
  BY DEF PushTypes
<1>2. pusher[p].rev \in Revisions \cup {TestPush} /\ pusher[p].token \in PushTokens
  BY <1>1, NotificationConstants DEF PusherRows, Revisions, TestPush
<1> QED
  BY <1>2 DEF Deliveries

(* One delivery moves on.                                                  *)
LEMMA OneDelivery ==
  ASSUME PushTypes, NEW d \in Deliveries, NEW q, RowAdvances(push[d], q), push' = [push EXCEPT ![d] = q]
  PROVE  push' \in [Deliveries -> PushRows] /\ DeliveriesAdvance /\ push'[d] = q
<1>1. push \in [Deliveries -> PushRows] /\ q \in PushRows
  BY DEF PushTypes, RowAdvances
<1>2. \A e \in Deliveries : push[e] \in PushRows
  BY <1>1
<1>3. push' \in [Deliveries -> PushRows] /\ push'[d] = q /\ \A e \in Deliveries \ {d} : push'[e] = push[e]
  BY <1>1
<1>4. \A e \in Deliveries : RowAdvances(push[e], push[e])
  BY <1>2 DEF RowAdvances, PushRows, Ended
<1> QED
  BY <1>3, <1>4 DEF DeliveriesAdvance

LEMMA NoDelivery ==
  ASSUME PushTypes, UNCHANGED push
  PROVE  push' \in [Deliveries -> PushRows] /\ DeliveriesAdvance
BY DEF PushTypes, DeliveriesAdvance, RowAdvances, PushRows, Ended

(* Handed off stays true while the notice does not move.                   *)
LEMMA HandoffStays ==
  ASSUME PushInv, DeliveriesAdvance, notice'.delivered = "handoff" => notice' = notice
  PROVE  HandedOff'
<1> SUFFICES ASSUME notice'.delivered = "handoff"
             PROVE  \E t \in PushTokens : push'[<<notice'.rev, t>>].state = "delivered"
  BY DEF HandedOff
<1>1. notice' = notice /\ notice \in NoticeRows
  BY DEF PushInv, PushTypes
<1>2. PICK t \in PushTokens : push[<<notice.rev, t>>].state = "delivered"
  BY <1>1 DEF PushInv, HandedOff
<1>3. <<notice.rev, t>> \in Deliveries
  BY <1>1, NotificationConstants DEF NoticeRows, Deliveries, Revisions, TestPush
<1>4. push'[<<notice.rev, t>>] = push[<<notice.rev, t>>]
  BY <1>2, <1>3 DEF DeliveriesAdvance, RowAdvances, Ended
<1> QED
  BY <1>1, <1>2, <1>4

LEMMA PusherRow ==
  ASSUME PushTypes, NEW p \in Pushers, NEW s \in PusherRows,
         s.pc \in {"claim", "post", "answer"} => s.token # NoToken, Sends(p, s)
  PROVE  /\ pusher' \in [Pushers -> PusherRows]
         /\ \A x \in Pushers : pusher'[x].pc \in {"claim", "post", "answer"} => pusher'[x].token # NoToken
BY DEF PushTypes, Sends

LEMMA Rests == NotSending \in PusherRows /\ NotSending.pc = "idle"
BY NotificationConstants DEF NotSending, PusherRows
-----------------------------------------------------------------------------
PushKept == PushInv' /\ DeliveriesAdvance

LEMMA ReadStep == ASSUME PushInv, NEW p \in Pushers, ReadItem(p) PROVE PushKept
<1>0. PushTypes /\ HandedOff /\ GoneDevices /\ UNCHANGED <<item, dead, notice, device, push, polling>>
  BY DEF PushInv, ReadItem, ownerVars
<1>1. PICK rev \in {0} \cup (IF item.shown THEN {item.rev} ELSE {}) :
        Sends(p, [NotSending EXCEPT !.pc = "reconcile", !.rev = rev])
  BY DEF ReadItem
<1>2. rev \in 0 .. MaxRevisions
  BY <1>0, <1>1, NotificationConstants DEF PushTypes, ItemRows, Revisions
<1> DEFINE s == [NotSending EXCEPT !.pc = "reconcile", !.rev = rev]
<1>3. s \in PusherRows /\ s.pc = "reconcile"
  BY <1>2, Rests DEF PusherRows
<1> HIDE DEF s
<1>4. PushTypes'
  BY <1>0, <1>1, <1>3, PusherRow DEF PushTypes, s
<1>5. DeliveriesAdvance
  BY <1>0, NoDelivery
<1> QED
  BY <1>0, <1>4, <1>5 DEF PushKept, PushInv, HandedOff, GoneDevices

LEMMA ReconcileStep == ASSUME PushInv, NEW p \in Pushers, ReconcileEvents(p) PROVE PushKept
<1>0. /\ PushTypes /\ HandedOff /\ GoneDevices /\ UNCHANGED <<item, dead, device, push, polling>>
      /\ notice' = Reconciled(pusher[p].rev) /\ notice \in NoticeRows /\ pusher[p] \in PusherRows
      /\ device \in DeviceRows
  BY DEF PushInv, ReconcileEvents, ownerVars, PushTypes
<1>1. notice' \in NoticeRows /\ (notice'.delivered = "handoff" => notice' = notice)
  BY <1>0 DEF Reconciled, NoticeRows, PusherRows
<1>2. Registered \in PushTokens \cup {NoToken}
  BY <1>0 DEF Registered, DeviceRows
<1>3. PICK s \in PusherRows : Sends(p, s) /\ (s.pc \in {"claim", "post", "answer"} => s.token # NoToken)
  <2>1. CASE Registered # NoToken /\ Sends(p, [pusher[p] EXCEPT !.pc = "claim", !.token = Registered])
    <3> DEFINE s == [pusher[p] EXCEPT !.pc = "claim", !.token = Registered]
    <3>1. s \in PusherRows /\ s.token = Registered
      BY <1>0, <1>2 DEF PusherRows
    <3> QED
      BY <2>1, <3>1
  <2>2. CASE Sends(p, NotSending)
    BY <2>2, Rests
  <2> QED
    BY <2>1, <2>2 DEF ReconcileEvents
<1>4. PushTypes'
  BY <1>0, <1>1, <1>3, PusherRow DEF PushTypes
<1>5. DeliveriesAdvance
  BY <1>0, NoDelivery
<1>6. HandedOff'
  BY <1>1, <1>5, HandoffStays
<1> QED
  BY <1>0, <1>4, <1>5, <1>6 DEF PushKept, PushInv, GoneDevices

LEMMA TestStep == ASSUME PushInv, NEW p \in Pushers, SendTest(p) PROVE PushKept
<1>0. /\ PushTypes /\ HandedOff /\ GoneDevices /\ UNCHANGED <<item, dead, notice, device, push, polling>>
      /\ Registered # NoToken /\ device \in DeviceRows
      /\ Sends(p, [NotSending EXCEPT !.pc = "claim", !.rev = TestPush, !.token = Registered])
  BY DEF PushInv, SendTest, ownerVars, PushTypes
<1> DEFINE s == [NotSending EXCEPT !.pc = "claim", !.rev = TestPush, !.token = Registered]
<1>1. s \in PusherRows /\ s.token # NoToken
  <2>1. Registered \in PushTokens /\ TestPush \in 0 .. MaxRevisions
    BY <1>0, NotificationConstants DEF Registered, DeviceRows, TestPush
  <2> QED
    BY <1>0, <2>1, Rests DEF PusherRows
<1> HIDE DEF s
<1>2. PushTypes'
  BY <1>0, <1>1, PusherRow DEF PushTypes, s
<1>3. DeliveriesAdvance
  BY <1>0, NoDelivery
<1> QED
  BY <1>0, <1>2, <1>3 DEF PushKept, PushInv, HandedOff, GoneDevices

LEMMA ClaimSendStep == ASSUME PushInv, NEW p \in Pushers, ClaimSend(p) PROVE PushKept
<1> DEFINE d == <<pusher[p].rev, pusher[p].token>>
<1>0. /\ PushTypes /\ HandedOff /\ GoneDevices /\ UNCHANGED <<item, dead, notice, device, polling>>
      /\ pusher[p].pc = "claim" /\ pusher[p] \in PusherRows /\ pusher[p].token # NoToken
  BY DEF PushInv, ClaimSend, ownerVars, PushTypes
<1>1. d \in Deliveries /\ push[d] \in PushRows
  BY <1>0, SendingDelivery DEF PushTypes
<1>2. CASE /\ Claimable(push[d]) /\ push' = [push EXCEPT ![d] = Claimed(push[d])]
           /\ Sends(p, [pusher[p] EXCEPT !.pc = "post", !.attempt = push'[d].attempts])
  <2>1. RowAdvances(push[d], Claimed(push[d]))
    <3>1. CASE push[d].state = "none"
      BY <3>1, NotificationConstants DEF Claimed, RowAdvances, PushRows, Ended
    <3>2. CASE push[d].state # "none"
      <4>1. push[d].attempts + 1 \in 0 .. MAX_SENDS /\ push[d].state \in {"sending", "retry"}
        BY <1>1, <1>2, <3>2, NotificationConstants DEF Claimable, PushRows
      <4>2. ASSUME NEW v \in 0 .. MAX_SENDS
            PROVE  [push[d] EXCEPT !.state = "sending", !.attempts = v, !.due = FALSE] \in PushRows
        BY <1>1 DEF PushRows
      <4>3. Claimed(push[d]) \in PushRows
        BY <3>2, <4>1, <4>2 DEF Claimed
      <4> QED
        BY <4>1, <4>3 DEF RowAdvances, Ended
    <3> QED
      BY <3>1, <3>2
  <2>2. push' \in [Deliveries -> PushRows] /\ DeliveriesAdvance
    BY <1>0, <1>1, <1>2, <2>1, OneDelivery
  <2> DEFINE s == [pusher[p] EXCEPT !.pc = "post", !.attempt = push'[d].attempts]
  <2>3. s \in PusherRows /\ s.token # NoToken
    <3>1. push'[d].attempts \in Nat
      BY <1>1, <2>2, NotificationConstants DEF PushRows
    <3> HIDE DEF d
    <3> QED
      BY <1>0, <3>1 DEF PusherRows
  <2> HIDE DEF s
  <2>4. PushTypes'
    BY <1>0, <1>2, <2>2, <2>3, PusherRow DEF PushTypes, s
  <2>5. HandedOff'
    BY <1>0, <2>2, HandoffStays
  <2> QED
    BY <1>0, <2>2, <2>4, <2>5 DEF PushKept, PushInv, GoneDevices
<1>3. CASE push' = [push EXCEPT ![d] = Lapsed(push[d])] /\ Sends(p, NotSending)
  <2>1. RowAdvances(push[d], Lapsed(push[d]))
    <3> DEFINE r == push[d]
    <3>1. /\ [r EXCEPT !.state = "expired"] \in PushRows /\ [r EXCEPT !.state = "failed"] \in PushRows
          /\ [r EXCEPT !.state = "expired"].state = "expired" /\ [r EXCEPT !.state = "failed"].state = "failed"
      <4> HIDE DEF d
      <4> QED
        BY <1>1 DEF PushRows, Ended
    <3>2. CASE r.state \notin {"sending", "retry"}
      <4>1. Lapsed(r) = r
        BY <3>2 DEF Lapsed
      <4> HIDE DEF r
      <4>2. r \in PushRows
        BY <1>1 DEF r
      <4>3. RowAdvances(r, r)
        BY <3>2, <4>2 DEF RowAdvances
      <4> QED
        BY <4>1, <4>3 DEF r
    <3>3. CASE r.state \in {"sending", "retry"}
      <4>1. Lapsed(r) \in {r, [r EXCEPT !.state = "expired"], [r EXCEPT !.state = "failed"]}
        BY <3>3 DEF Lapsed
      <4> HIDE DEF r
      <4>2. r \in PushRows
        BY <1>1 DEF r
      <4>3. RowAdvances(r, Lapsed(r))
        BY <4>1, <4>2, <3>1, <3>3 DEF RowAdvances, Ended
      <4> QED
        BY <4>3 DEF r
    <3> QED
      BY <3>2, <3>3
  <2>2. push' \in [Deliveries -> PushRows] /\ DeliveriesAdvance
    BY <1>0, <1>1, <1>3, <2>1, OneDelivery
  <2>3. PushTypes'
    BY <1>0, <1>3, <2>2, Rests, PusherRow DEF PushTypes
  <2>4. HandedOff'
    BY <1>0, <2>2, HandoffStays
  <2> QED
    BY <1>0, <2>2, <2>3, <2>4 DEF PushKept, PushInv, GoneDevices
<1> QED
  BY <1>2, <1>3 DEF ClaimSend

(* The end of an attempt, whether or not it is still the delivery's own.   *)
LEMMA AttemptEnding ==
  ASSUME PushInv, NEW p \in Pushers, pusher[p].pc \in {"post", "answer"},
         NEW state \in {"retry", "pending", "failed"}, AttemptEnds(p, state)
  PROVE  /\ push' \in [Deliveries -> PushRows] /\ DeliveriesAdvance
         /\ pusher' \in [Pushers -> PusherRows]
         /\ \A x \in Pushers : pusher'[x].pc \in {"claim", "post", "answer"} => pusher'[x].token # NoToken
<1> DEFINE d == <<pusher[p].rev, pusher[p].token>>
<1>0. PushTypes /\ Sends(p, NotSending)
  BY DEF PushInv, AttemptEnds
<1>1. d \in Deliveries /\ push[d] \in PushRows
  BY <1>0, SendingDelivery DEF PushTypes
<1>2. push' \in [Deliveries -> PushRows] /\ DeliveriesAdvance
  <2>1. CASE push' = push
    BY <1>0, <2>1, NoDelivery
  <2>2. CASE push[d].state = "sending" /\ push' = [push EXCEPT ![d] = [push[d] EXCEPT !.state = state, !.due = FALSE]]
    <3> DEFINE q == [push[d] EXCEPT !.state = state, !.due = FALSE]
    <3>1. RowAdvances(push[d], q)
      <4> HIDE DEF d
      <4> QED
        BY <1>1, <2>2 DEF RowAdvances, PushRows, Ended
    <3> QED
      BY <1>0, <1>1, <2>2, <3>1, OneDelivery
  <2> QED
    BY <2>1, <2>2 DEF AttemptEnds, AttemptCurrent
<1> QED
  BY <1>0, <1>2, Rests, PusherRow

LEMMA PostStep == ASSUME PushInv, NEW p \in Pushers, Post(p) PROVE PushKept
<1>0. /\ PushTypes /\ HandedOff /\ GoneDevices /\ UNCHANGED <<item, dead, notice, device, polling>>
      /\ pusher[p].pc = "post" /\ pusher[p] \in PusherRows /\ pusher[p].token # NoToken
  BY DEF PushInv, Post, ownerVars, PushTypes
<1>1. CASE Sends(p, [pusher[p] EXCEPT !.pc = "answer"]) /\ UNCHANGED push
  <2> DEFINE s == [pusher[p] EXCEPT !.pc = "answer"]
  <2>1. s \in PusherRows /\ s.token # NoToken
    BY <1>0 DEF PusherRows
  <2> HIDE DEF s
  <2>2. PushTypes'
    BY <1>0, <1>1, <2>1, PusherRow DEF PushTypes, s
  <2>3. DeliveriesAdvance
    BY <1>0, <1>1, NoDelivery
  <2> QED
    BY <1>0, <1>1, <2>2, <2>3 DEF PushKept, PushInv, HandedOff, GoneDevices
<1>2. CASE AttemptEnds(p, Failure(p, FALSE))
  <2>1. Failure(p, FALSE) = "failed"
    BY DEF Failure
  <2>2. /\ push' \in [Deliveries -> PushRows] /\ DeliveriesAdvance
        /\ pusher' \in [Pushers -> PusherRows]
        /\ \A x \in Pushers : pusher'[x].pc \in {"claim", "post", "answer"} => pusher'[x].token # NoToken
    BY <1>0, <1>2, <2>1, AttemptEnding
  <2>3. PushTypes'
    BY <1>0, <2>2 DEF PushTypes
  <2>4. HandedOff'
    BY <1>0, <2>2, HandoffStays
  <2> QED
    BY <1>0, <2>2, <2>3, <2>4 DEF PushKept, PushInv, GoneDevices
<1> QED
  BY <1>1, <1>2 DEF Post

(* Revoking what the provider or the owner says is gone.                   *)
LEMMA Revoking ==
  ASSUME device \in DeviceRows, NEW by \in {"owner", "provider"}, Revoke(by),
         GoneDevices, by = "provider" => device.token \in dead, UNCHANGED dead
  PROVE  device' \in DeviceRows /\ GoneDevices'
<1> DEFINE v == IF device.revoked = "no" THEN by ELSE device.revoked
<1>1. device' = [device EXCEPT !.revoked = v] /\ v \in {"no", "owner", "provider"}
  BY DEF Revoke, DeviceRows
<1>2. v = "provider" => device.token \in dead
  BY DEF GoneDevices
<1> HIDE DEF v
<1>3. device' \in DeviceRows /\ device'.token = device.token /\ device'.revoked = v
  BY <1>1 DEF DeviceRows
<1> QED
  BY <1>2, <1>3 DEF GoneDevices

LEMMA AnswerStep == ASSUME PushInv, NEW p \in Pushers, PostAnswered(p) PROVE PushKept
<1>0. /\ PushTypes /\ HandedOff /\ GoneDevices /\ UNCHANGED <<item, dead, notice, polling>>
      /\ pusher[p].pc = "answer" /\ device \in DeviceRows
  BY DEF PushInv, PostAnswered, ownerVars, PushTypes
<1>1. \A r \in BOOLEAN : Failure(p, r) \in {"retry", "failed"}
  BY DEF Failure
<1>2. \E state \in {"retry", "pending", "failed"} : AttemptEnds(p, state)
  BY <1>1 DEF PostAnswered
<1>3. /\ push' \in [Deliveries -> PushRows] /\ DeliveriesAdvance
      /\ pusher' \in [Pushers -> PusherRows]
      /\ \A x \in Pushers : pusher'[x].pc \in {"claim", "post", "answer"} => pusher'[x].token # NoToken
  BY <1>0, <1>2, AttemptEnding
<1>4. device' \in DeviceRows /\ GoneDevices'
  <2>1. CASE UNCHANGED device
    BY <1>0, <2>1 DEF GoneDevices
  <2>2. CASE pusher[p].token \in dead /\ device.token = pusher[p].token /\ Revoke("provider")
    BY <1>0, <2>2, Revoking
  <2> QED
    BY <2>1, <2>2 DEF PostAnswered
<1>5. PushTypes'
  BY <1>0, <1>3, <1>4 DEF PushTypes
<1>6. HandedOff'
  BY <1>0, <1>3, HandoffStays
<1> QED
  BY <1>3, <1>4, <1>5, <1>6 DEF PushKept, PushInv

LEMMA StopStep == ASSUME PushInv, NEW p \in Pushers, PusherStops(p) PROVE PushKept
<1>0. /\ PushTypes /\ HandedOff /\ GoneDevices /\ UNCHANGED <<item, dead, notice, device, push>>
      /\ Sends(p, NotSending) /\ polling' = [polling EXCEPT ![p] = {}]
  BY DEF PushInv, PusherStops, ownerVars
<1>1. PushTypes'
  BY <1>0, Rests, PusherRow DEF PushTypes
<1>2. DeliveriesAdvance
  BY <1>0, NoDelivery
<1> QED
  BY <1>0, <1>1, <1>2 DEF PushKept, PushInv, HandedOff, GoneDevices

LEMMA PollStep == ASSUME PushInv, NEW p \in Pushers, ClaimReceipts(p) PROVE PushKept
<1> DEFINE claimed == {d \in Deliveries : push[d].state = "pending" /\ ~push[d].old /\ push[d].due}
<1>0. /\ PushTypes /\ HandedOff /\ GoneDevices /\ UNCHANGED <<item, dead, notice, device, pusher>>
      /\ polling' = [polling EXCEPT ![p] = claimed]
      /\ push' = [d \in Deliveries |->
           CASE push[d].state = "pending" /\ push[d].old -> [push[d] EXCEPT !.state = "expired"]
             [] d \in claimed                            -> [push[d] EXCEPT !.due = FALSE]
             [] OTHER                                    -> push[d]]
  BY DEF PushInv, ClaimReceipts, ownerVars
<1>1. ASSUME NEW d \in Deliveries PROVE RowAdvances(push[d], push'[d])
  <2> DEFINE r == push[d]
  <2>0. r \in PushRows
    BY <1>0 DEF PushTypes
  <2>1. CASE r.state = "pending" /\ r.old
    <3>1. push'[d] = [r EXCEPT !.state = "expired"]
      BY <1>0, <2>1
    <3> HIDE DEF r
    <3> QED
      BY <2>0, <2>1, <3>1 DEF RowAdvances, PushRows, Ended, r
  <2>2. CASE d \in claimed
    <3>1. push'[d] = [r EXCEPT !.due = FALSE] /\ r.state = "pending"
      BY <1>0, <2>2
    <3> HIDE DEF r
    <3> QED
      BY <2>0, <3>1 DEF RowAdvances, PushRows, Ended, r
  <2>3. CASE ~(r.state = "pending" /\ r.old) /\ d \notin claimed
    <3>1. push'[d] = r
      BY <1>0, <2>3
    <3> QED
      BY <2>0, <3>1 DEF RowAdvances, PushRows, Ended
  <2> QED
    BY <2>1, <2>2, <2>3
<1>2. DeliveriesAdvance /\ push' \in [Deliveries -> PushRows]
  BY <1>0, <1>1 DEF DeliveriesAdvance, RowAdvances
<1>3. polling' \in [Pushers -> SUBSET Deliveries]
  BY <1>0 DEF PushTypes
<1>4. PushTypes'
  BY <1>0, <1>2, <1>3 DEF PushTypes
<1>5. HandedOff'
  BY <1>0, <1>2, HandoffStays
<1> QED
  BY <1>0, <1>2, <1>4, <1>5 DEF PushKept, PushInv, GoneDevices

LEMMA ReceiptStep == ASSUME PushInv, NEW p \in Pushers, NEW d \in Deliveries, Receipt(p, d) PROVE PushKept
<1>0. /\ PushTypes /\ HandedOff /\ GoneDevices /\ UNCHANGED <<item, dead, pusher>>
      /\ polling' = [polling EXCEPT ![p] = @ \ {d}]
      /\ notice \in NoticeRows /\ device \in DeviceRows /\ push[d] \in PushRows
  BY DEF PushInv, Receipt, ownerVars, PushTypes
<1>1. polling' \in [Pushers -> SUBSET Deliveries]
  BY <1>0 DEF PushTypes
<1>2. ASSUME NEW state \in Ended, push[d].state = "pending", push' = [push EXCEPT ![d].state = state]
      PROVE  push' \in [Deliveries -> PushRows] /\ DeliveriesAdvance /\ push'[d].state = state
  <2> DEFINE q == [push[d] EXCEPT !.state = state]
  <2>1. RowAdvances(push[d], q) /\ q.state = state
    BY <1>0, <1>2 DEF RowAdvances, PushRows, Ended
  <2>2. push' = [push EXCEPT ![d] = q]
    BY <1>2
  <2> HIDE DEF q
  <2> QED
    BY <1>0, <2>1, <2>2, OneDelivery
<1>3. CASE UNCHANGED <<push, notice, device>>
  <2>1. DeliveriesAdvance
    BY <1>0, <1>3, NoDelivery
  <2>2. PushTypes'
    BY <1>0, <1>1, <1>3 DEF PushTypes
  <2> QED
    BY <1>0, <1>3, <2>1, <2>2 DEF PushKept, PushInv, HandedOff, GoneDevices
<1>4. CASE /\ push[d].state = "pending" /\ push' = [push EXCEPT ![d].state = "delivered"]
           /\ notice' = IF /\ device.token = d[2] /\ device.revoked = "no"
                           /\ ReceiptApplies(d) /\ notice.active
                        THEN [notice EXCEPT !.delivered = IF @ = "no" THEN "handoff" ELSE @] ELSE notice
           /\ UNCHANGED device
  <2>1. push' \in [Deliveries -> PushRows] /\ DeliveriesAdvance /\ push'[d].state = "delivered"
    BY <1>2, <1>4 DEF Ended
  <2>2. notice' \in NoticeRows /\ (notice' = notice \/ (notice'.rev = d[1]))
    BY <1>0, <1>4 DEF NoticeRows, ReceiptApplies
  <2>3. HandedOff'
    <3>1. CASE notice' = notice
      BY <2>1, <3>1, HandoffStays
    <3>2. CASE notice'.rev = d[1]
      <4>1. d[2] \in PushTokens /\ <<d[1], d[2]>> = d
        BY DEF Deliveries
      <4> QED
        BY <2>1, <3>2, <4>1 DEF HandedOff
    <3> QED
      BY <2>2, <3>1, <3>2
  <2>4. PushTypes'
    BY <1>0, <1>1, <1>4, <2>1, <2>2 DEF PushTypes
  <2> QED
    BY <1>0, <1>4, <2>1, <2>3, <2>4 DEF PushKept, PushInv, GoneDevices
<1>5. CASE /\ push[d].state = "pending" /\ push' = [push EXCEPT ![d].state = "failed"]
           /\ IF d[2] \in dead /\ device.token = d[2] THEN Revoke("provider") ELSE UNCHANGED device
           /\ UNCHANGED notice
  <2>1. push' \in [Deliveries -> PushRows] /\ DeliveriesAdvance
    BY <1>2, <1>5 DEF Ended
  <2>2. device' \in DeviceRows /\ GoneDevices'
    <3>1. CASE UNCHANGED device
      BY <1>0, <3>1 DEF GoneDevices
    <3>2. CASE d[2] \in dead /\ device.token = d[2] /\ Revoke("provider")
      BY <1>0, <3>2, Revoking
    <3> QED
      BY <1>5, <3>1, <3>2
  <2>3. HandedOff'
    BY <1>5, <2>1, HandoffStays
  <2>4. PushTypes'
    BY <1>0, <1>1, <1>5, <2>1, <2>2 DEF PushTypes
  <2> QED
    BY <2>1, <2>2, <2>3, <2>4 DEF PushKept, PushInv
<1> QED
  BY <1>3, <1>4, <1>5 DEF Receipt

LEMMA OwnerStep == ASSUME PushInv, OwnerMoves PROVE PushKept
<1>0. /\ PushTypes /\ HandedOff /\ GoneDevices /\ UNCHANGED <<push, pusher, polling>>
      /\ notice \in NoticeRows /\ device \in DeviceRows /\ item \in ItemRows
  BY DEF PushInv, OwnerMoves, PushTypes
<1>1. DeliveriesAdvance
  BY <1>0, NoDelivery
<1>2. CASE /\ (\E t \in PushTokens : Register(t)) \/ RevokeToken \/ CloseGrant \/ ReissueGrant
           /\ UNCHANGED <<item, dead, notice>>
  <2>1. device' \in DeviceRows /\ GoneDevices'
    <3>1. CASE \E t \in PushTokens : Register(t)
      BY <1>0, <3>1 DEF Register, DeviceRows, GoneDevices
    <3>2. CASE RevokeToken
      BY <1>0, <1>2, <3>2, Revoking DEF RevokeToken
    <3>3. CASE CloseGrant
      BY <1>0, <1>2, <3>3 DEF CloseGrant, DeviceRows, GoneDevices
    <3>4. CASE ReissueGrant
      <4> DEFINE v == IF device.revoked = "no" THEN "owner" ELSE device.revoked
      <4>1. device' = [device EXCEPT !.granted = TRUE, !.revoked = v] /\ v \in {"owner", "provider"}
        BY <1>0, <3>4 DEF ReissueGrant, DeviceRows
      <4>2. v = "provider" => device.token \in dead
        BY <1>0 DEF GoneDevices
      <4> HIDE DEF v
      <4> QED
        BY <1>0, <1>2, <4>1, <4>2 DEF DeviceRows, GoneDevices
    <3> QED
      BY <1>2, <3>1, <3>2, <3>3, <3>4
  <2>2. PushTypes'
    BY <1>0, <1>2, <2>1 DEF PushTypes
  <2> QED
    BY <1>0, <1>1, <1>2, <2>1, <2>2 DEF PushKept, PushInv, HandedOff
<1>3. CASE UNCHANGED <<item, dead, notice, device>>
  BY <1>0, <1>1, <1>3 DEF PushKept, PushInv, PushTypes, HandedOff, GoneDevices
<1>4. CASE (MarkDelivered \/ Acknowledge) /\ UNCHANGED <<item, dead, device>>
  <2>1. notice' \in NoticeRows /\ notice'.delivered = "client"
    BY <1>0, <1>4 DEF MarkDelivered, Acknowledge, NoticeRows
  <2> QED
    BY <1>0, <1>1, <1>4, <2>1 DEF PushKept, PushInv, PushTypes, HandedOff, GoneDevices
<1>5. CASE /\ item' \in {[item EXCEPT !.shown = ~@], [rev |-> item.rev + 1, shown |-> TRUE]}
           /\ item'.rev <= MaxRevisions /\ UNCHANGED <<dead, notice, device>>
  <2>1. item' \in ItemRows
    <3>1. [item EXCEPT !.shown = ~@] \in ItemRows
      BY <1>0 DEF ItemRows
    <3>2. CASE item' = [rev |-> item.rev + 1, shown |-> TRUE]
      <4>1. item.rev + 1 \in Revisions
        BY <1>0, <1>5, <3>2, NotificationConstants DEF ItemRows, Revisions
      <4> QED
        BY <3>2, <4>1 DEF ItemRows
    <3> QED
      BY <1>5, <3>1, <3>2
  <2> QED
    BY <1>0, <1>1, <1>5, <2>1 DEF PushKept, PushInv, PushTypes, HandedOff, GoneDevices
<1>6. CASE /\ \E t \in PushTokens \ dead : dead' = dead \cup {t}
           /\ UNCHANGED <<item, notice, device>>
  BY <1>0, <1>1, <1>6 DEF PushKept, PushInv, PushTypes, HandedOff, GoneDevices
<1> QED
  BY <1>2, <1>3, <1>4, <1>5, <1>6 DEF OwnerMoves, ownerVars

LEMMA TimeStep == ASSUME PushInv, TimePasses PROVE PushKept
<1>0. /\ PushTypes /\ HandedOff /\ GoneDevices
      /\ UNCHANGED <<item, dead, notice, device, pusher, polling>>
  BY DEF PushInv, TimePasses, ownerVars
<1>1. PICK d \in Deliveries :
        /\ push[d].state \in {"sending", "retry", "pending"}
        /\ \/ ~push[d].due /\ push' = [push EXCEPT ![d].due = TRUE]
           \/ ~push[d].old /\ push' = [push EXCEPT ![d].old = TRUE, ![d].due = TRUE]
  BY DEF TimePasses
<1>2. push[d] \in PushRows
  BY <1>0 DEF PushTypes
<1>3. PICK q : RowAdvances(push[d], q) /\ push' = [push EXCEPT ![d] = q]
  <2>1. CASE push' = [push EXCEPT ![d].due = TRUE]
    <3>1. RowAdvances(push[d], [push[d] EXCEPT !.due = TRUE])
      BY <1>1, <1>2 DEF RowAdvances, PushRows, Ended
    <3> QED
      BY <2>1, <3>1
  <2>2. CASE push' = [push EXCEPT ![d].old = TRUE, ![d].due = TRUE]
    <3>1. RowAdvances(push[d], [push[d] EXCEPT !.old = TRUE, !.due = TRUE])
      BY <1>1, <1>2 DEF RowAdvances, PushRows, Ended
    <3>2. push' = [push EXCEPT ![d] = [push[d] EXCEPT !.old = TRUE, !.due = TRUE]]
      BY <1>0, <2>2 DEF PushTypes
    <3> QED
      BY <3>1, <3>2
  <2> QED
    BY <1>1, <2>1, <2>2
<1>4. push' \in [Deliveries -> PushRows] /\ DeliveriesAdvance
  BY <1>0, <1>3, OneDelivery
<1>5. HandedOff'
  BY <1>0, <1>4, HandoffStays
<1> QED
  BY <1>0, <1>4, <1>5 DEF PushKept, PushInv, PushTypes, GoneDevices
-----------------------------------------------------------------------------
LEMMA PushStep == PushInv /\ [PushNext]_pushVars => PushInv' /\ DeliveriesAdvance
<1> SUFFICES ASSUME PushInv, [PushNext]_pushVars PROVE PushInv' /\ DeliveriesAdvance
  OBVIOUS
<1>1. CASE UNCHANGED pushVars
  <2>1. DeliveriesAdvance
    BY <1>1, NoDelivery DEF pushVars, PushInv
  <2> QED
    BY <1>1, <2>1 DEF pushVars, PushInv, PushTypes, HandedOff, GoneDevices
<1>2. CASE PushNext
  BY <1>2, ReadStep, ReconcileStep, TestStep, ClaimSendStep, PostStep, AnswerStep, StopStep, PollStep,
     ReceiptStep, OwnerStep, TimeStep DEF PushNext, PushKept
<1> QED
  BY <1>1, <1>2

(* The rows stay well formed, the sender's rows name real deliveries, and  *)
(* a notice or a device is changed by the provider for its own reason only.*)
THEOREM PushInvariance == PushSpec => []PushInv
<1>1. PushInv /\ [PushNext]_pushVars => PushInv'
  BY PushStep
<1> QED
  BY <1>1, PushStarts, PTL DEF PushSpec

(* push_receipts: a late ticket or receipt neither acknowledges a newer    *)
(* revision nor revokes a replacement device.                              *)
THEOREM LateAnswersAreHarmless == PushSpec => []LateReceiptsAreHarmless
<1>1. PushInv => LateReceiptsAreHarmless
  BY DEF PushInv, HandedOff, GoneDevices, LateReceiptsAreHarmless
<1> QED
  BY <1>1, PushInvariance, PTL

(* claim_send, accepted, send_failed and claim_receipts: a recorded push   *)
(* is not started again, an ended one does not change, and none is started *)
(* more than MAX_SENDS times, by any number of instances.                  *)
THEOREM PushesAreFinal == PushSpec => RecordedPushIsFinal
<1> DEFINE Body == \A d \in Deliveries :
                     /\ push[d].state \notin {"none", "sending", "retry"} => push'[d].state \notin {"sending", "retry"}
                     /\ push[d].state \in {"delivered", "failed", "expired"} => push'[d] = push[d]
                     /\ push'[d].attempts <= MAX_SENDS
<1>1. DeliveriesAdvance => Body
  BY NotificationConstants DEF DeliveriesAdvance, RowAdvances, PushRows, Ended
<1>2. PushInv /\ [PushNext]_pushVars => [Body]_push
  BY <1>1, PushStep
<1> QED
  BY <1>2, PushInvariance, PTL DEF PushSpec, RecordedPushIsFinal
=============================================================================
