----------------------------- MODULE TimeboxSubmit -----------------------------
(***************************************************************************)
(* Stage 5 of a timeboxing session (agents/timeboxing/agent.py): a plan is *)
(* confirmed, written to the calendar, undone or cancelled.                *)
(*                                                                         *)
(* Handlers are messages to the agent being handled.  They share the       *)
(* session and interleave at their awaits, so an action is the code        *)
(* between two calls of the calendar server.  The lock that orders replies *)
(* in the thread does not cover the buttons; a submit by reply is one of   *)
(* the submits by button here.  A turn of the conversation (RefineTurn,    *)
(* ReviewTurn) is one action.                                              *)
(***************************************************************************)
EXTENDS SyncEngine

CONSTANTS
  Handlers,     \* messages that can be in the making at a time
  Plans,        \* plans the patcher can produce
  Day,          \* the calendar when the session starts
  UserSlots,    \* where the user may move an entry: pairs of start and end
  Unreadable,   \* what a malformed list-events answer is read as
  MaxRequests,  \* bound: submits and undos started
  MaxEdits      \* bound: changes the user makes in the calendar itself

ASSUME SubmitAssumption ==
  /\ "" \in Details
  /\ None \notin Event /\ None \notin Seq(Remote)
  /\ Times \subseteq Int
  /\ Plans \subseteq Seq(Event)
  /\ Day \subseteq Entries /\ IsFiniteSet(Day)
  /\ \A e, f \in Day : e.id = f.id => e = f
  /\ UserSlots \subseteq Times \X Times
  /\ Unreadable \subseteq Seq(Remote)
  /\ MaxRequests \in Nat /\ MaxEdits \in Nat

VARIABLES
  cal,      \* the calendar's day: what the server holds
  stage,    \* session.stage, "refine" or "review"
  pending,  \* session.pending_submit
  plan,     \* session.tb_plan
  base,     \* session.base_snapshot
  cache,    \* session.prefetched_remote_snapshots_by_date[planned_date]
  anchors,  \* session.frame_facts["immovables"]
  tx,       \* session.last_sync_transaction
  pc,       \* what each handler waits for
  resubmit, \* submit_attempt_kind of each submit
  answer,   \* the list-events answer a handler resumes with, None on failure
  todo,     \* the operations a handler has still to issue
  done,     \* those that succeeded
  failed,   \* whether one did not
  requests, edits,  \* counters
  origin,   \* history: what each submit set out from
  txOrigin, \* history: the same for tx
  submitted \* history: the plans submitted

session == <<stage, pending, plan, base, cache, anchors, tx>>
writing == <<todo, done, failed>>
handling == <<pc, resubmit, answer, writing, origin>>
history == <<txOrigin, submitted>>
vars == <<cal, session, handling, requests, edits, history>>

\* The day a submit was planned for, whether the snapshot showed it, and what.
Origin == [cal: SUBSET Entries, fresh: BOOLEAN, edits: Nat, plan: Seq(Event)]
----------------------------------------------------------------------------
(* The conversation *)

\* StageRefine: the calendar is fetched unless it is cached, what it shows
\* joins the anchors, the patcher rewrites the plan.
RefineTurn(p) ==
  /\ stage = "refine"
  /\ plan' = p
  /\ pending' = FALSE
  /\ cache' \in IF cache = None THEN {None, Snapshot(cal)} ELSE {cache}
  /\ anchors' = IF cache' = None THEN anchors ELSE anchors \cup Range(AsPlan(cache'))
  /\ UNCHANGED <<cal, stage, base, tx, handling, requests, edits, history>>

\* StageReviewCommit, then _attach_presenter_blocks shows the submit buttons.
ReviewTurn ==
  /\ stage' = "review"
  /\ pending' = TRUE
  /\ UNCHANGED <<cal, plan, base, cache, anchors, tx, handling, requests, edits,
                 history>>

\* on_cancel_submit, or "back" in the conversation.
CancelSubmit ==
  /\ stage' = "refine"
  /\ pending' = FALSE
  /\ UNCHANGED <<cal, plan, base, cache, anchors, tx, handling, requests, edits,
                 history>>

\* The user deletes an entry, or moves it.
UserEdit(e, moved) ==
  /\ edits < MaxEdits
  /\ edits' = edits + 1
  /\ cal' = (cal \ {e}) \cup moved
  /\ UNCHANGED <<session, handling, requests, history>>
----------------------------------------------------------------------------
(* _submit_pending_plan *)

NoOrigin == [cal |-> {}, fresh |-> FALSE, edits |-> 0, plan |-> <<>>]

\* The handler returns, and its locals are gone.
Return(h) ==
  /\ pc' = [pc EXCEPT ![h] = "idle"]
  /\ resubmit' = [resubmit EXCEPT ![h] = FALSE]
  /\ answer' = [answer EXCEPT ![h] = None]
  /\ todo' = [todo EXCEPT ![h] = {}]
  /\ done' = [done EXCEPT ![h] = {}]
  /\ failed' = [failed EXCEPT ![h] = FALSE]
  /\ origin' = [origin EXCEPT ![h] = NoOrigin]

\* The guard and the forced refresh up to its await: the cache is dropped.
StartSubmit(h) ==
  /\ pc[h] = "idle"
  /\ pending
  /\ requests < MaxRequests
  /\ requests' = requests + 1
  /\ resubmit' = [resubmit EXCEPT ![h] = (tx # None)]
  /\ cache' = None
  /\ pc' = [pc EXCEPT ![h] = "list"]
  /\ UNCHANGED <<cal, stage, pending, plan, base, anchors, tx, answer, writing,
                 edits, origin, history>>

\* The server reads the day; the call may fail instead, or its answer be
\* malformed, which the client reads as a day without events.
ListEvents(h) ==
  /\ pc[h] \in {"list", "relist"}
  /\ pc' = [pc EXCEPT ![h] = IF @ = "list" THEN "listed" ELSE "relisted"]
  /\ \E a \in {Snapshot(cal), None} \cup Unreadable :
       answer' = [answer EXCEPT ![h] = a]
  /\ UNCHANGED <<cal, session, resubmit, writing, requests, edits, origin, history>>

\* _prefetch_calendar_immovables swallows the failure of its call: what is in
\* the cache now may be what another handler put there.
Prefetched(h) == IF answer[h] = None THEN cache ELSE answer[h]

\* Mutant: the baseline keeps the snapshot's records.
RefreshedRaw(h) ==
  /\ cache' = Prefetched(h)
  /\ base' = IF cache' = None THEN base ELSE cache'

\* The rest of the guard: the baseline becomes what was fetched.
Refreshed(h) ==
  /\ cache' = Prefetched(h)
  /\ base' = IF cache' = None THEN base ELSE AsPlan(cache')

\* Nothing to submit to: the refresh failed, or resolve_times raises.
RefuseSubmit(h) ==
  /\ pc[h] = "listed"
  /\ Refreshed(h)
  /\ cache' # None => Overlapping(plan)
  /\ Return(h)
  /\ UNCHANGED <<cal, stage, pending, plan, anchors, tx, requests, edits, history>>

UpToDate(h) ==
  /\ resubmit[h]
  /\ PlannedMutations(Prefetched(h), plan) = 0

\* "Calendar already up to date."
SkipSubmit(h) ==
  /\ pc[h] = "listed"
  /\ Refreshed(h)
  /\ cache' # None /\ ~Overlapping(plan)
  /\ UpToDate(h)
  /\ pending' = FALSE
  /\ Return(h)
  /\ UNCHANGED <<cal, stage, plan, anchors, tx, requests, edits, history>>

\* submit_plan up to its first calendar call.
PlanSubmit(h) ==
  /\ pc[h] = "listed"
  /\ Refreshed(h)
  /\ cache' # None /\ ~Overlapping(plan)
  /\ ~UpToDate(h)
  /\ pc' = [pc EXCEPT ![h] = "write"]
  /\ todo' = [todo EXCEPT ![h] = PlanSync(cache', plan)]
  /\ origin' = [origin EXCEPT ![h] =
       [cal |-> cal, fresh |-> cache' = Snapshot(cal), edits |-> edits, plan |-> plan]]
  /\ submitted' = submitted \cup {plan}
  /\ UNCHANGED <<cal, stage, pending, plan, anchors, tx, resubmit, answer, done,
                 failed, requests, edits, txOrigin>>

\* One calendar call: it succeeds; or it is refused or fails, or takes effect
\* without its answer being heard.
Call(h, op, rest) ==
  \/ /\ Accepts(cal, op)
     /\ cal' = Applied(cal, op)
     /\ done' = [done EXCEPT ![h] = @ \cup {op}]
     /\ todo' = [todo EXCEPT ![h] = @ \ {op}]
     /\ UNCHANGED failed
  \/ /\ cal' \in {cal} \cup (IF Accepts(cal, op) THEN {Applied(cal, op)} ELSE {})
     /\ failed' = [failed EXCEPT ![h] = TRUE]
     /\ todo' = [todo EXCEPT ![h] = rest]
     /\ UNCHANGED done

\* execute_sync with halt_on_error.
Write(h) ==
  /\ pc[h] = "write"
  /\ \E op \in todo[h] :
       /\ \A o \in todo[h] : o = op \/ Precedes(op, o)
       /\ Call(h, op, {})
  /\ UNCHANGED <<session, pc, resubmit, answer, requests, edits, origin, history>>

\* The transaction is recorded and the cache dropped for the second refresh.
\* (Without operations the code has no await before this.)
RecordTransaction(h) ==
  /\ pc[h] = "write"
  /\ todo[h] = {}
  /\ pending' = FALSE
  /\ tx' = [status |-> IF failed[h] THEN "partial_halted" ELSE "committed",
            done |-> done[h]]
  /\ txOrigin' = origin[h]
  /\ cache' = None
  /\ pc' = [pc EXCEPT ![h] = "relist"]
  /\ UNCHANGED <<cal, stage, plan, base, anchors, resubmit, answer, writing,
                 requests, edits, origin, submitted>>

\* _refresh_remote_baseline_after_sync: without a snapshot the anchors serve.
Rebase(h) ==
  /\ pc[h] = "relisted"
  /\ cache' = Prefetched(h)
  /\ base' = IF cache' = None THEN InOrder(anchors) ELSE AsPlan(cache')
  /\ Return(h)
  /\ UNCHANGED <<cal, stage, pending, plan, anchors, tx, requests, edits, history>>
----------------------------------------------------------------------------
(* on_undo_submit *)

Undoable(t) == t.status = "committed"

StartUndo(h) ==
  /\ pc[h] = "idle"
  /\ tx # None /\ Undoable(tx)
  /\ requests < MaxRequests
  /\ requests' = requests + 1
  /\ pc' = [pc EXCEPT ![h] = "undo"]
  /\ todo' = [todo EXCEPT ![h] = {Undoing(op) : op \in tx.done}]
  /\ origin' = [origin EXCEPT ![h] = txOrigin]
  /\ UNCHANGED <<cal, session, resubmit, answer, done, failed, edits, history>>

\* undo_sync: the reverse order, and a failure does not stop it.
UndoWrite(h) ==
  /\ pc[h] = "undo"
  /\ \E op \in todo[h] :
       /\ \A o \in todo[h] : o = op \/ Precedes(Undoing(o), Undoing(op))
       /\ Call(h, op, todo[h] \ {op})
  /\ UNCHANGED <<session, pc, resubmit, answer, requests, edits, origin, history>>

\* The plan becomes the baseline, whatever the session has by now.
FinishUndo(h) ==
  /\ pc[h] = "undo"
  /\ todo[h] = {}
  /\ pending' = FALSE
  /\ tx' = None
  /\ stage' = "refine"
  /\ plan' = base
  /\ Return(h)
  /\ UNCHANGED <<cal, base, cache, anchors, requests, edits, history>>
----------------------------------------------------------------------------
\* A session that reached Refine with a fetched calendar and a first plan.
Init ==
  /\ cal = Day
  /\ stage = "refine"
  /\ pending = FALSE
  /\ plan \in Plans
  /\ cache = Snapshot(Day)
  /\ base = AsPlan(cache)
  /\ anchors = Range(base)
  /\ tx = None
  /\ pc = [h \in Handlers |-> "idle"]
  /\ resubmit = [h \in Handlers |-> FALSE]
  /\ answer = [h \in Handlers |-> None]
  /\ todo = [h \in Handlers |-> {}]
  /\ done = [h \in Handlers |-> {}]
  /\ failed = [h \in Handlers |-> FALSE]
  /\ requests = 0
  /\ edits = 0
  /\ origin = [h \in Handlers |-> NoOrigin]
  /\ txOrigin = NoOrigin
  /\ submitted = {}

Turn == (\E p \in Plans \cup {plan} : RefineTurn(p)) \/ ReviewTurn \/ CancelSubmit

Edit == \E e \in cal :
  \/ UserEdit(e, {})
  \/ \E slot \in UserSlots :
       UserEdit(e, {[e EXCEPT !.st = slot[1], !.et = slot[2]]})

Submit(h) ==
  StartSubmit(h) \/ ListEvents(h) \/ RefuseSubmit(h) \/ SkipSubmit(h)
  \/ PlanSubmit(h) \/ Write(h) \/ RecordTransaction(h) \/ Rebase(h)

Undo(h) == StartUndo(h) \/ UndoWrite(h) \/ FinishUndo(h)

Next == Turn \/ Edit \/ \E h \in Handlers : Submit(h) \/ Undo(h)

Spec == Init /\ [][Next]_vars
----------------------------------------------------------------------------
(* Properties *)

\* Every variable keeps the shape the session gives it.
TypeOK ==
  /\ cal \subseteq Entries
  /\ stage \in {"refine", "review"} /\ pending \in BOOLEAN
  /\ plan \in Seq(Event) /\ base \in Seq(Event) /\ anchors \subseteq Event
  /\ cache \in Seq(Remote) \cup {None}
  /\ tx = None \/ (tx.status \in {"committed", "partial_halted"} /\ tx.done \subseteq Op)
  /\ pc \in [Handlers -> {"idle", "list", "listed", "write", "relist", "relisted", "undo"}]
  /\ resubmit \in [Handlers -> BOOLEAN] /\ failed \in [Handlers -> BOOLEAN]
  /\ answer \in [Handlers -> Seq(Remote) \cup {None}]
  /\ todo \in [Handlers -> SUBSET Op] /\ done \in [Handlers -> SUBSET Op]
  /\ requests \in 0..MaxRequests /\ edits \in 0..MaxEdits
  /\ origin \in [Handlers -> Origin] /\ txOrigin \in Origin /\ submitted \subseteq Seq(Event)

ForeignEntries(c) == {e \in c : ~IsOwned(e.id)}

\* Submits, undos, failed calls and stale snapshots: nothing the agent does
\* creates, changes or deletes an entry that is not its own.
ForeignUntouched ==
  [][ForeignEntries(cal') # ForeignEntries(cal) => edits' > edits]_vars

\* An event the user has in the calendar already that serves for a planned one.
StandsIn(e, d) ==
  /\ ~IsOwned(e.id)
  /\ \/ e.n = d.n /\ (OverlapMinutes(e, d) > 0 \/ Distance(e.st, d.st) <= StartTolerance)
     \/ OverlapMinutes(e, d) * 100 >= OverlapPercent * Smaller(Duration(e), Duration(d))

\* The entry says what is planned.  (A description that was cleared stays: the
\* snapshot shows none, so there seems to be nothing to update.)
AsPlanned(e, d) == e = Entry(e.id, IF d.d = "" THEN [d EXCEPT !.d = e.d] ELSE d)

\* Each planned event is one entry, and each entry of the agent's is planned.
Realises(c, p) ==
  \E f \in [DOMAIN p -> c] :
    /\ \A i, j \in DOMAIN p : f[i] = f[j] => i = j
    /\ \A i \in DOMAIN p : AsPlanned(f[i], p[i]) \/ StandsIn(f[i], p[i])
    /\ \A e \in c : IsOwned(e.id) => \E i \in DOMAIN p : f[i] = e

\* The last submit is through, and the user left the calendar alone since the
\* snapshot it went by.
Settled ==
  /\ tx # None /\ Undoable(tx)
  /\ txOrigin.fresh /\ txOrigin.edits = edits
  /\ \A h \in Handlers : pc[h] \notin {"write", "undo"}

\* A submit that reports "committed" leaves the planned day on the calendar:
\* no event twice, none missing, no left-over of an earlier plan.
CommittedIsRealised == Settled => Realises(cal, txOrigin.plan)

\* Submitting the same plan again would create and delete nothing, and update
\* no event but those with a description (a snapshot never shows one).
ResubmitConverges ==
  Settled => \A op \in PlanSync(Snapshot(cal), txOrigin.plan) :
               op.kind = "update" /\ op.after.d # ""

Undescribed(c) == {[e EXCEPT !.d = ""] : e \in c}

\* An undo that reports "undone" gives back the day as it was before the
\* submit, but for descriptions: a snapshot, all that is kept, has none.
UndoRestores ==
  [][\A h \in Handlers :
       FinishUndo(h) /\ ~failed[h] /\ origin[h].fresh /\ origin[h].edits = edits
         => Undescribed(cal) = Undescribed(origin[h].cal)]_vars

\* Submits of one and the same plan never book an event twice, however they
\* race with one another and with undos, whatever calls fail unheard, and
\* however old or empty the snapshots they go by.
NoDoubleBooking ==
  (Cardinality(submitted) <= 1 /\ \A e \in Day : ~IsOwned(e.id)) =>
    \A e, f \in cal : (IsOwned(e.id) /\ IsOwned(f.id) /\ OverlapMinutes(e, f) > 0) => e = f

\* Submit buttons belong to the review stage, whoever resets what meanwhile.
PendingInReview == pending => stage = "review"

\* A submission that changed the calendar can be undone.
EverySubmissionUndoable == tx # None /\ tx.done # {} => Undoable(tx)

\* A re-submit without a material delta is a no-op: it leaves the submission
\* that can be undone in place.
ResubmitWithoutDeltaIsNoop ==
  [][\A h \in Handlers :
       RecordTransaction(h) /\ resubmit[h] => done[h] # {} \/ failed[h]]_vars
=============================================================================
