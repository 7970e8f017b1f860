--------------------------- MODULE ProjectContext ---------------------------
(***************************************************************************)
(* The projects of one owner, their memory, and the context an objective   *)
(* is given (projects.py, project_memory.py, project_memory_api.py and the *)
(* claim of magi_firstmate_tools.py).                                      *)
(*                                                                         *)
(* A write of memory, a search and a claim first resolve the project in a  *)
(* transaction of their own; what follows is a second one.  In between the *)
(* project may be archived or deleted, the repository unbound, the memory  *)
(* rewritten, and the same objective claimed by somebody else.             *)
(***************************************************************************)
EXTENDS Integers, Sequences, FiniteSets

CONSTANTS
  ProjectIds, Repositories,   \* ids the gateway may draw
  MemoryKeys, Contents,
  Searchable,                 \* the contents with a word the index keeps
  Objectives,                 \* invocation keys
  Actors,                     \* requests under way
  MAX_MEMORY_REVISIONS_PER_ENTRY,
  MAX_MEMORY_ENTRIES_PER_SCOPE,
  MAX_PROJECT_REPOSITORIES,
  MaxAttempts                 \* bound on the dispatches of an objective

ASSUME ProjectConstants ==
  /\ MAX_MEMORY_REVISIONS_PER_ENTRY \in Nat \ {0, 1} /\ MAX_MEMORY_ENTRIES_PER_SCOPE \in Nat
  /\ MAX_PROJECT_REPOSITORIES \in Nat /\ MaxAttempts \in Nat
  /\ Searchable \subseteq Contents

NoProject == "no project"
NoRepository == "no repository"
NoContent == "no content"
Tombstone == "tombstone"

(* The snapshot of a deletion is not that of any content.                  *)
ASSUME SnapshotAssumption == Tombstone \notin Contents

Scopes == ProjectIds \X (Repositories \cup {NoRepository})
Entries == Scopes \X MemoryKeys
EntriesOf(s) == {s} \X MemoryKeys

VARIABLES
  project,     \* projects: status and kind
  repository,  \* project_repositories: the project each is bound to
  entry,       \* project_memory_entries
  revisions,   \* project_memory_revisions
  terms,       \* project_memory_terms: entries a search can find
  audit,       \* project_memory_audit, one chain a scope
  retrievals,  \* project_memory_retrievals: what was selected for what
  work,        \* what each request has read so far
  submission,  \* magi_objective_submissions
  dispatched   \* ghost: contexts each objective was dispatched with

memoryVars == <<entry, revisions, terms, audit>>
projectVars == <<project, repository>>
contextVars == <<project, repository, entry, revisions, terms, audit, retrievals, work, submission, dispatched>>

NoEntry == [state |-> "none", rev |-> 0, content |-> NoContent]
NoSubmission == [state |-> "none", project |-> NoProject, context |-> {}, attempts |-> 0]
NoWork == [pc |-> "idle", scope |-> <<NoProject, NoRepository>>, o |-> "none", context |-> {}]

ContextInit ==
  /\ project = [p \in ProjectIds |-> [status |-> "none", kind |-> "standalone"]]
  /\ repository = [r \in Repositories |-> NoProject]
  /\ entry = [e \in Entries |-> NoEntry] /\ revisions = [e \in Entries |-> <<>>]
  /\ terms = {} /\ audit = [s \in Scopes |-> <<>>] /\ retrievals = {}
  /\ work = [a \in Actors |-> NoWork]
  /\ submission = [o \in Objectives |-> NoSubmission] /\ dispatched = [o \in Objectives |-> {}]
-----------------------------------------------------------------------------
Owned(p) == project[p].status \in {"active", "archived"}
Active(p) == project[p].status = "active"
Bound(p) == {r \in Repositories : repository[r] = p}

(* create_project, update_project, delete_project.  History keeps a        *)
(* project; its memory ledger is left in place.                            *)
CreateProject(p) ==
  /\ project[p].status = "none"
  /\ project' = [project EXCEPT ![p].status = "active"]
  /\ UNCHANGED <<repository, memoryVars, retrievals, work, submission, dispatched>>

UpdateProject(p, status) ==
  /\ Owned(p)
  /\ project' = [project EXCEPT ![p].status = status]
  /\ UNCHANGED <<repository, memoryVars, retrievals, work, submission, dispatched>>

DeleteProject(p) ==
  /\ Owned(p) /\ \A o \in Objectives : submission[o].project # p
  /\ project' = [project EXCEPT ![p].status = "deleted"]
  /\ repository' = [r \in Repositories |-> IF repository[r] = p THEN "gone" ELSE repository[r]]
  /\ UNCHANGED <<memoryVars, retrievals, work, submission, dispatched>>

BindRepository(p, r) ==
  /\ Active(p) /\ repository[r] = NoProject /\ Cardinality(Bound(p)) < MAX_PROJECT_REPOSITORIES
  /\ repository' = [repository EXCEPT ![r] = p]
  /\ project' = [project EXCEPT ![p].kind = "github"]
  /\ UNCHANGED <<memoryVars, retrievals, work, submission, dispatched>>

UnbindRepository(p, r) ==
  /\ Owned(p) /\ repository[r] = p
  /\ repository' = [repository EXCEPT ![r] = "gone"]
  /\ project' = [project EXCEPT ![p].kind = IF Bound(p) = {r} THEN "standalone" ELSE @]
  /\ UNCHANGED <<memoryVars, retrievals, work, submission, dispatched>>
-----------------------------------------------------------------------------
(* MemoryScope.for_project: an active project and, if one is named, a      *)
(* repository bound to it.                                                 *)
ScopeExists(s) == Active(s[1]) /\ (s[2] # NoRepository => repository[s[2]] = s[1])

ResolveScope(a, s) ==
  /\ work[a].pc = "idle" /\ ScopeExists(s)
  /\ work' = [work EXCEPT ![a] = [NoWork EXCEPT !.pc = "memory", !.scope = s]]
  /\ UNCHANGED <<projectVars, memoryVars, retrievals, submission, dispatched>>

WorkEnds(a) == work' = [work EXCEPT ![a] = NoWork]

(* _append_audit and the revision row: every change leaves both.           *)
Recorded(e, rev, content, operation) ==
  /\ revisions' = [revisions EXCEPT ![e] = Append(@, content)]
  /\ audit' = [audit EXCEPT ![e[1]] = Append(@, [key |-> e[2], rev |-> rev, operation |-> operation])]

(* The last revision is reserved for the tombstone.                        *)
(* Mutant: off by one. *)
AllRevisions(rev) == rev <= MAX_MEMORY_REVISIONS_PER_ENTRY
RevisionLeft(rev) == rev < MAX_MEMORY_REVISIONS_PER_ENTRY

ScopeFull(s) ==
  Cardinality({e \in EntriesOf(s) : entry[e].state = "live"}) >= MAX_MEMORY_ENTRIES_PER_SCOPE

Conflicts(e, content, immutable) ==
  CASE entry[e].state = "none"    -> ScopeFull(e[1])
    [] entry[e].state = "deleted" -> TRUE
    [] OTHER -> entry[e].content # content /\ (immutable \/ ~RevisionLeft(entry[e].rev + 1))

(* put, by its owner or by magi.remember, whose entries are immutable.  A  *)
(* text of stop words and single letters leaves no term.                   *)
Put(a, k, content, immutable) ==
  LET e   == <<work[a].scope, k>>
      rev == entry[e].rev + 1
  IN /\ work[a].pc = "memory" /\ WorkEnds(a)
     /\ IF Conflicts(e, content, immutable) \/ (entry[e].state = "live" /\ entry[e].content = content)
        THEN UNCHANGED memoryVars
        ELSE /\ entry' = [entry EXCEPT ![e] = [state |-> "live", rev |-> rev, content |-> content]]
             /\ Recorded(e, rev, content, IF rev = 1 THEN "created" ELSE "updated")
             /\ terms' = IF content \in Searchable THEN terms \cup {e} ELSE terms \ {e}
     /\ UNCHANGED <<projectVars, retrievals, submission, dispatched>>

DeleteEntry(a, k) ==
  LET e   == <<work[a].scope, k>>
      rev == entry[e].rev + 1
  IN /\ work[a].pc = "memory" /\ WorkEnds(a)
     /\ IF entry[e].state # "live" THEN UNCHANGED memoryVars
        ELSE /\ entry' = [entry EXCEPT ![e].state = "deleted", ![e].rev = rev]
             /\ Recorded(e, rev, Tombstone, "deleted")
             /\ terms' = terms \ {e}
     /\ UNCHANGED <<projectVars, retrievals, submission, dispatched>>

(* search: the live entries of the project and of the named repository     *)
(* that the index finds; the query is one that matches all of them.        *)
Selected(s) ==
  {<<e, entry[e].rev>> : e \in {e \in terms : /\ e[1][1] = s[1] /\ e[1][2] \in {NoRepository, s[2]}
                                              /\ entry[e].state = "live"}}

Search(a) ==
  /\ work[a].pc = "memory" /\ WorkEnds(a)
  /\ retrievals' = retrievals \cup {<<"interactive", Selected(work[a].scope)>>}
  /\ UNCHANGED <<projectVars, memoryVars, submission, dispatched>>
(* assemble_chat: the same selection, for the model; the rest of its       *)
(* context is read only.                                                   *)
AssembleChat(a) ==
  /\ work[a].pc = "memory" /\ WorkEnds(a)
  /\ retrievals' = retrievals \cup {<<"provider-chat", Selected(work[a].scope)>>}
  /\ UNCHANGED <<projectVars, memoryVars, submission, dispatched>>
-----------------------------------------------------------------------------
(* claim, first part: an invocation that is new resolves its project; one  *)
(* that names no active project takes its name for a scope of the owner,   *)
(* a workspace ("default") of which no writer resolves a scope.            *)
BeginClaim(a, o) ==
  /\ work[a].pc = "idle"
  /\ \/ /\ submission[o].state # "none"
        /\ work' = [work EXCEPT ![a] = [NoWork EXCEPT !.pc = "claim", !.o = o]]
     \/ /\ submission[o].state = "none"
        /\ \E p \in {p \in ProjectIds : Active(p)} \cup {NoProject} :
             work' = [work EXCEPT ![a] = [NoWork EXCEPT !.pc = "assemble", !.o = o,
                                                !.scope = <<p, NoRepository>>]]
  /\ UNCHANGED <<projectVars, memoryVars, retrievals, submission, dispatched>>

(* assemble_worker, on its own connection: the scope is resolved again.    *)
AssembleWorker(a) ==
  LET s == work[a].scope
      found == Selected(s)
  IN /\ work[a].pc = "assemble"
     /\ IF s[1] # NoProject /\ ~Active(s[1])
        THEN WorkEnds(a) /\ UNCHANGED retrievals
        ELSE /\ work' = [work EXCEPT ![a].pc = "claim", ![a].context = found]
             /\ retrievals' = retrievals \cup {<<"objective", found>>}
     /\ UNCHANGED <<projectVars, memoryVars, submission, dispatched>>

(* The context a dispatch carries: the one that was stored.                *)
(* Mutant: the one just assembled. *)
ContextAssembled(a, o) == work[a].context
ContextStored(a, o) == IF submission[o].state = "none" THEN work[a].context ELSE submission[o].context

Dispatches(o, row, context) ==
  /\ submission' = [submission EXCEPT ![o] = row]
  /\ dispatched' = [dispatched EXCEPT ![o] = @ \cup {context}]

(* claim, its transaction: a first claim freezes project and context; an   *)
(* accepted one answers, a leased one is refused, another one dispatches   *)
(* again.                                                                  *)
CommitClaim(a) ==
  LET o   == work[a].o
      row == submission[o]
  IN /\ work[a].pc = "claim" /\ WorkEnds(a)
     /\ CASE row.state = "none" ->
               Dispatches(o, [state |-> "submitting", project |-> work[a].scope[1],
                              context |-> work[a].context, attempts |-> 1], ContextStored(a, o))
          [] row.state \in {"lapsed", "failed"} /\ row.attempts < MaxAttempts ->
               Dispatches(o, [row EXCEPT !.state = "submitting", !.attempts = @ + 1], ContextStored(a, o))
          [] OTHER -> UNCHANGED <<submission, dispatched>>
     /\ UNCHANGED <<projectVars, memoryVars, retrievals>>

(* accept and fail of a dispatch, late ones included, and the lease.       *)
SettleDispatch(o) ==
  /\ submission[o].state \in {"submitting", "lapsed", "failed"}
  /\ \E state \in {"accepted", "failed"} \cup (IF submission[o].state = "submitting" THEN {"lapsed"} ELSE {}) :
       submission' = [submission EXCEPT ![o].state = state]
  /\ UNCHANGED <<projectVars, memoryVars, retrievals, work, dispatched>>

ActorStops(a) ==
  /\ work[a].pc # "idle" /\ WorkEnds(a)
  /\ UNCHANGED <<projectVars, memoryVars, retrievals, submission, dispatched>>

(* The routes of projects and of their memory.                             *)
ProjectRequest(p) ==
  \/ CreateProject(p) \/ DeleteProject(p) \/ \E status \in {"active", "archived"} : UpdateProject(p, status)
  \/ \E r \in Repositories : BindRepository(p, r) \/ UnbindRepository(p, r)

MemoryRequest(a) ==
  \/ \E s \in Scopes : ResolveScope(a, s)
  \/ \E k \in MemoryKeys : DeleteEntry(a, k) \/ \E c \in Contents, immutable \in BOOLEAN : Put(a, k, c, immutable)
  \/ Search(a) \/ AssembleChat(a)

ContextNext ==
  \/ \E p \in ProjectIds : ProjectRequest(p)
  \/ \E a \in Actors :
       \/ MemoryRequest(a) \/ AssembleWorker(a) \/ CommitClaim(a) \/ ActorStops(a)
       \/ \E o \in Objectives : BeginClaim(a, o)
  \/ \E o \in Objectives : SettleDispatch(o)

ContextSpec == ContextInit /\ [][ContextNext]_contextVars
-----------------------------------------------------------------------------
(* What a search should find.                                              *)
Indexed(row) == row.state = "live" /\ row.content \in Searchable

(* Where the audit chain of its scope tells of an entry.                   *)
TrailOf(e) == {i \in 1 .. Len(audit[e[1]]) : audit[e[1]][i].key = e[2]}

(* The ledger of an entry is complete and its entry can always be deleted: *)
(* one revision and one audit event for every change, in order, nothing    *)
(* after the tombstone, the index in step with it, and a revision left for *)
(* the tombstone of every live entry, at the limit too.                    *)
MemoryKeepsItsTrail ==
  \A e \in Entries :
    /\ Len(revisions[e]) = entry[e].rev /\ entry[e].rev <= MAX_MEMORY_REVISIONS_PER_ENTRY
    /\ {audit[e[1]][i].rev : i \in TrailOf(e)} = 1 .. entry[e].rev
    /\ \A i, j \in TrailOf(e) : i < j => audit[e[1]][i].rev < audit[e[1]][j].rev
    /\ entry[e].state = "live" =>
         /\ entry[e].rev < MAX_MEMORY_REVISIONS_PER_ENTRY
         /\ revisions[e][entry[e].rev] = entry[e].content
    /\ \A i \in 1 .. entry[e].rev : revisions[e][i] = Tombstone <=> entry[e].state = "deleted" /\ i = entry[e].rev
    /\ e \in terms <=> Indexed(entry[e])

(* An objective is dispatched with one context only, however often it is   *)
(* retried, whoever claims it first and however its memory changes between *)
(* the assembly and the claim ("accepted objectives must reuse the exact   *)
(* frozen bytes", magi_firstmate_tools.py).                                *)
ContextStaysFrozen ==
  \A o \in Objectives : Cardinality(dispatched[o]) <= 1
=============================================================================
