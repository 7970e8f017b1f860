---------------------------- MODULE PiOwnership -----------------------------
(***************************************************************************)
(* Ownership of canonical turns by exact entries of one Pi session         *)
(* (pi_ownership.py).  The session is an append-only chain of entries that *)
(* is written as time goes by; an envelope of the adapter cites a          *)
(* contiguous part of it by position.  The adapter may send any envelope   *)
(* at any time and any number of times, so that loss, duplication and      *)
(* reordering need no channel.  All prompts are the same text, which is    *)
(* the hard case for telling the turns apart.                              *)
(***************************************************************************)
EXTENDS Integers, Sequences

CONSTANTS
  PiTurns,       \* canonical turns, each with its dispatch
  Sessions       \* what the Pi session may come to hold

(* late: the bind marker was written after the capability expired.         *)
Entry(kind, late) == [kind |-> kind, late |-> late]
EntryKinds == {"prepare", "user", "other-user", "bind", "assistant", "tool", "finalize"}
UserEntries == {"user", "other-user"}

ASSUME PiConstants == \A s \in Sessions : s \in Seq([kind : EntryKinds, late : BOOLEAN])

VARIABLES
  piLog,        \* the entries the Pi session will hold
  piSeen,       \* how many of them are written
  dispatch,     \* pi_semantic_dispatches: the row of each turn
  piTurn,       \* the lifecycle of each turn
  piAnswer      \* the position whose text the primary message of a turn holds

piVars == <<piLog, piSeen, dispatch, piTurn, piAnswer>>

NoBinding == [from |-> 0, user |-> 0, bind |-> 0]
NoEnvelope == [type |-> "none", binding |-> NoBinding, asst |-> 0, to |-> 0, code |-> "none"]
NoDispatch == [state |-> "none", binding |-> NoBinding, asst |-> 0,
               accepted |-> NoEnvelope, acked |-> FALSE, secret |-> FALSE]
Frozen == {"failed", "cancelled"}
-----------------------------------------------------------------------------
PiInit ==
  /\ piLog \in Sessions
  /\ piSeen = 0
  /\ dispatch = [t \in PiTurns |-> NoDispatch]
  /\ piTurn = [t \in PiTurns |-> "open"]
  /\ piAnswer = [t \in PiTurns |-> 0]

(* The Pi session grows by the adapter's markers and by what the model and *)
(* the operator write.                                                     *)
PiAppend ==
  /\ piSeen < Len(piLog)
  /\ piSeen' = piSeen + 1
  /\ UNCHANGED <<piLog, dispatch, piTurn, piAnswer>>

(* A turn is cancelled by the operator.                                    *)
CancelTurn(t) ==
  /\ piTurn[t] = "open"
  /\ piTurn' = [piTurn EXCEPT ![t] = "cancelled"]
  /\ UNCHANGED <<piLog, piSeen, dispatch, piAnswer>>

(* prepare_pi_dispatch: a replay of the same prompt finds the row.         *)
PreparePiDispatch(t) ==
  /\ dispatch[t].state = "none" /\ piAnswer[t] = 0
  /\ dispatch' = [dispatch EXCEPT ![t].state = "prepared", ![t].secret = TRUE]
  /\ UNCHANGED <<piLog, piSeen, piTurn, piAnswer>>
-----------------------------------------------------------------------------
(* _validate_sequence on the part from .. to of the session.               *)
(* Mutant: other user boundaries are not looked for. *)
BoundaryLoose(b, to) == piLog[b.user].kind \in UserEntries

Boundary(b, to) ==
  /\ piLog[b.user].kind \in UserEntries
  /\ \A n \in b.from .. to : piLog[n].kind \in UserEntries => n = b.user

ValidBinding(b, to) ==
  /\ b.from < b.user /\ b.user < b.bind /\ b.bind <= to
  /\ piLog[b.from].kind = "prepare" /\ piLog[b.bind].kind = "bind"
  /\ Boundary(b, to)

ValidFinal(b, asst, to) ==
  /\ ValidBinding(b, to)
  /\ b.bind < asst /\ asst < to
  /\ piLog[asst].kind = "assistant" /\ piLog[to].kind = "finalize"
  /\ \A n \in asst + 1 .. to : piLog[n].kind # "assistant"

Bindings == {b \in [from : 1 .. piSeen, user : 1 .. piSeen, bind : 1 .. piSeen] :
               b.from < b.user /\ b.user < b.bind}

(* Unique indexes on the user entry and the assistant entry.               *)
UserEntryFree(t, b) == \A s \in PiTurns \ {t} : dispatch[s].binding.user # b.user
AsstEntryFree(t, a) == \A s \in PiTurns \ {t} : dispatch[s].asst # a

(* _apply_binding of a prepared dispatch.                                  *)
Bindable(t, b) ==
  /\ dispatch[t].state = "prepared"
  /\ ~piLog[b.bind].late /\ piLog[b.user].kind = "user"
  /\ UserEntryFree(t, b)

ApplyBound(t, b) ==
  /\ ValidBinding(b, b.bind) /\ Bindable(t, b)
  /\ dispatch' = [dispatch EXCEPT ![t].state = "bound", ![t].binding = b]
  /\ UNCHANGED <<piLog, piSeen, piTurn, piAnswer>>

(* dispatch.failed of a dispatch that is still open.                       *)
ApplyFailed(t, code) ==
  /\ dispatch[t].state \in {"prepared", "bound"}
  /\ dispatch' = [dispatch EXCEPT ![t].state = "failed",
                    ![t].accepted = [NoEnvelope EXCEPT !.type = "failed", !.code = code]]
  /\ piTurn' = [piTurn EXCEPT ![t] = IF @ \in Frozen \cup {"completed"} THEN @ ELSE "failed"]
  /\ UNCHANGED <<piLog, piSeen, piAnswer>>

(* dispatch.finalized carries its whole binding prefix, so that a gateway  *)
(* that missed dispatch.bound binds and finalizes in one transaction.      *)
Final(b, asst, to) == [type |-> "finalized", binding |-> b, asst |-> asst, to |-> to, code |-> "none"]

BoundTo(t, b) == Bindable(t, b) \/ (dispatch[t].state = "bound" /\ dispatch[t].binding = b)

(* _upsert_final_message: the text of the primary message of the turn.     *)
UpsertFinalMessage(t, asst) == piAnswer' = [piAnswer EXCEPT ![t] = asst]

ApplyFinal(t, b, asst, to) ==
  /\ ValidFinal(b, asst, to) /\ BoundTo(t, b)
  /\ \/ /\ piTurn[t] \in Frozen    \* accepted as a discard receipt only
        /\ dispatch' = [dispatch EXCEPT ![t].state = "failed", ![t].binding = b,
                          ![t].accepted = [Final(b, asst, to) EXCEPT !.code = "canonical-turn-frozen"]]
        /\ UNCHANGED <<piTurn, piAnswer>>
     \/ /\ piTurn[t] \notin Frozen /\ AsstEntryFree(t, asst)
        /\ dispatch' = [dispatch EXCEPT ![t].state = "finalized", ![t].binding = b, ![t].asst = asst,
                          ![t].accepted = Final(b, asst, to)]
        /\ UpsertFinalMessage(t, asst)
        /\ piTurn' = [piTurn EXCEPT ![t] = "completed"]
  /\ UNCHANGED <<piLog, piSeen>>

(* mark_pi_adapter_acknowledged: the receipt must name what was accepted,  *)
(* and destroys the capability and the prompt.                             *)
Acknowledged(t) ==
  /\ dispatch[t].state \in {"finalized", "failed"} /\ ~dispatch[t].acked
  /\ dispatch' = [dispatch EXCEPT ![t].acked = TRUE, ![t].secret = FALSE]
  /\ UNCHANGED <<piLog, piSeen, piTurn, piAnswer>>

PiNext ==
  \/ PiAppend
  \/ \E t \in PiTurns : CancelTurn(t) \/ PreparePiDispatch(t) \/ Acknowledged(t)
  \/ \E b \in Bindings :
       /\ ValidBinding(b, b.bind)    \* a final envelope needs it too
       /\ \E t \in PiTurns : \/ ApplyBound(t, b)
                             \/ \E asst, to \in b.bind + 1 .. piSeen : ApplyFinal(t, b, asst, to)
  \/ \E t \in PiTurns, code \in {"timeout", "refused"} : ApplyFailed(t, code)

PiSpec == PiInit /\ [][PiNext]_piVars
-----------------------------------------------------------------------------
(* Answers never cross: with identical prompts in one session, the text a  *)
(* turn shows was written after the user entry the turn owns and before    *)
(* the next entry any other turn owns, and a turn that was cancelled or    *)
(* has failed shows none, whatever envelopes arrive and however late.      *)
AnswersDoNotCross ==
  /\ \A s, t \in PiTurns :
       (s # t /\ piAnswer[s] # 0 /\ dispatch[t].binding.user # 0) =>
         /\ dispatch[s].binding.user # dispatch[t].binding.user
         /\ dispatch[t].binding.user \notin dispatch[s].binding.user .. piAnswer[s]
  /\ \A t \in PiTurns : piTurn[t] \in {"cancelled", "failed"} => piAnswer[t] = 0
=============================================================================
