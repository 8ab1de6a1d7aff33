----------------------------- MODULE StageMachine -----------------------------
(***************************************************************************)
(* One timeboxing session and the handlers that work on it: the replies,   *)
(* buttons and date commits of agents/timeboxing/agent.py, the graph of    *)
(* nodes each turn runs through (flow_graph.py, nodes/nodes.py), and the   *)
(* skeleton drafted ahead in the background.                               *)
(*                                                                         *)
(* The runtime starts a task for every message, so handlers of a session   *)
(* interleave at their awaits.  A lock orders replies, another one the     *)
(* graph turns; the buttons change the session before they wait for the    *)
(* second.  What a submission does to the calendar is TimeboxSubmit's.     *)
(*                                                                         *)
(* A plan is a number: the draft of the facts of that number, or a patch.  *)
(* A timebox is the number of the plan it was made from.                   *)
(***************************************************************************)
EXTENDS Naturals, FiniteSets

CONSTANTS
  Handlers,    \* messages handled at once
  MaxFacts,    \* bound: versions of the facts the skeleton is drafted from
  Patches,     \* plans a patch can result in
  Overlapping, \* drafts that do not convert to a timebox
  MaxMessages  \* bound: messages in all

Collect == 1
Capture == 2
Skeleton == 3
Refine == 4
Review == 5
Stages == Collect..Review

None == 0
Drafts == 1..MaxFacts
Plans == Drafts \cup Patches
Valid == Plans \ Overlapping     \* tb_plan_to_timebox does not raise

ASSUME StageAssumption ==
  /\ IsFiniteSet(Handlers)
  /\ MaxFacts \in Nat \ {0} /\ MaxMessages \in Nat
  /\ Patches \subseteq Nat \ (0..MaxFacts)
  /\ Overlapping \subseteq Drafts

VARIABLES
  stage, ready,     \* session.stage, stage_ready
  plan, timebox,    \* tb_plan, and the timebox made from it
  base,             \* whether there is a base_snapshot
  undo,             \* last_refine_undo_tb_plan and last_refine_undo_timebox
  pending, queued,  \* pending_submit, queued_submit_intent
  force,            \* force_stage_rerun
  ended,            \* completed
  sent,             \* whether there is a last_sync_transaction
  facts,            \* version of what the skeleton fingerprint hashes
  pre,              \* the draft made ahead: its fingerprint, plan and task
  task,             \* the handlers
  spent,            \* counter for MaxMessages
  reviewed,         \* history: the plan of the last timebox the review showed
  alone,            \* history: one handler at a time since a review of the plan
  unshown           \* history: an undo brought back a plan that does not convert,
                    \* and plan and timebox are as it left them

session == <<stage, ready, plan, timebox, base, undo, pending, queued, force,
             ended, sent, facts, pre>>
vars == <<session, task, spent, reviewed, alone, unshown>>
----------------------------------------------------------------------------
\* A handler's locals: the decision of its turn (`does', `target'), whether the
\* stage gets a user message, the reply's own decision `first', and what it read
\* before an await: a fingerprint, a plan, a timebox.
Pcs == {"idle", "queue", "first", "memory", "lock", "init", "decide", "transit",
        "route", "collect", "capture", "draft", "await", "llm", "ground", "tools",
        "patch", "summary", "review", "attach", "undo", "refresh", "write", "revert"}

Task == [pc : Pcs,
         reply : BOOLEAN,
         text : BOOLEAN,
         first : {"none", "other", "submit"},
         does : {"none", "proceed", "back", "provide_info", "redo", "cancel",
                 "assist"},
         target : Stages \cup {None},
         message : BOOLEAN,
         node : Stages \cup {None},
         print : 0..MaxFacts,
         plan : Plans \cup {None},
         timebox : Valid \cup {None}]

Idle == [pc |-> "idle", reply |-> FALSE, text |-> FALSE, first |-> "none",
         does |-> "none", target |-> None, message |-> FALSE, node |-> None,
         print |-> 0, plan |-> None, timebox |-> None]

NoUndo == [plan |-> None, timebox |-> None]
Nothing == [print |-> 0, plan |-> None, running |-> FALSE]

\* The holders of reply_turn_lock and of graph_turn_lock.
Replying == {h \in Handlers : task[h].reply /\ task[h].pc # "queue"}
Turning == {h \in Handlers : task[h].pc \in
              {"init", "decide", "transit", "route", "collect", "capture", "draft",
               "await", "llm", "ground", "tools", "patch", "summary", "review"}}
Active == {h \in Handlers : task[h].pc # "idle"}

Goto(h, pc) == task' = [task EXCEPT ![h].pc = pc]
Stop(h) == task' = [task EXCEPT ![h] = Idle]

Previous(s) == IF s = Collect THEN Collect ELSE s - 1
Following(s) == IF s = Review THEN Review ELSE s + 1
NewFacts == facts' \in {facts, facts + 1} \cap 1..MaxFacts

\* Mutant: a stage is entered as ready as the last one was left.
AdvanceReady(next) ==
  /\ stage' = next
  /\ pending' = (pending /\ next = Review)
  /\ IF next \in {Collect, Capture}
     THEN /\ timebox' = None
          /\ pre' = [pre EXCEPT !.print = 0, !.running = FALSE]
     ELSE UNCHANGED <<timebox, pre>>
  /\ UNCHANGED ready

\* _advance_stage.
AdvanceStage(next) ==
  /\ stage' = next
  /\ ready' = FALSE
  /\ pending' = (pending /\ next = Review)
  /\ IF next \in {Collect, Capture}
     THEN /\ timebox' = None
          /\ pre' = [pre EXCEPT !.print = 0, !.running = FALSE]
     ELSE UNCHANGED <<timebox, pre>>

\* _attach_presenter_blocks.
Offered == stage = Review /\ ready /\ plan # None /\ base
----------------------------------------------------------------------------
(* The messages *)

Arrives(h) == task[h].pc = "idle" /\ spent < MaxMessages /\ spent' = spent + 1

\* on_user_reply, on_user_text.
UserReply(h) ==
  /\ Arrives(h)
  /\ task' = [task EXCEPT ![h] = [Idle EXCEPT !.pc = "queue", !.reply = TRUE, !.text = TRUE]]
  /\ UNCHANGED session

UserText(h) ==
  /\ Arrives(h)
  /\ task' = [task EXCEPT ![h] = [Idle EXCEPT !.pc = "lock", !.text = TRUE]]
  /\ UNCHANGED session

\* on_commit_date: a new date is a new fact.
CommitDate(h) ==
  /\ Arrives(h)
  /\ NewFacts
  /\ Goto(h, "lock")
  /\ UNCHANGED <<stage, ready, plan, timebox, base, undo, pending, queued, force,
                 ended, sent, pre>>

\* on_stage_action, one action per button.
ClickCancel(h) ==
  /\ Arrives(h)
  /\ ended' = TRUE
  /\ UNCHANGED <<stage, ready, plan, timebox, base, undo, pending, queued, force,
                 sent, facts, pre, task>>

ClickBack(h) ==
  /\ Arrives(h)
  /\ AdvanceStage(Previous(stage))
  /\ force' = TRUE
  /\ Goto(h, "lock")
  /\ UNCHANGED <<plan, base, undo, queued, ended, sent, facts>>

ClickProceed(h) ==
  /\ Arrives(h)
  /\ IF ready
     THEN AdvanceStage(Following(stage)) /\ force' = TRUE /\ Goto(h, "lock")
     ELSE pending' = Offered /\ UNCHANGED <<stage, ready, timebox, pre, force, task>>
  /\ UNCHANGED <<plan, base, undo, queued, ended, sent, facts>>

ClickRedo(h) ==
  /\ Arrives(h)
  /\ stage # Refine \/ undo.plan = None
  /\ force' = TRUE
  /\ Goto(h, "lock")
  /\ UNCHANGED <<stage, ready, plan, timebox, base, undo, pending, queued, ended,
                 sent, facts, pre>>

\* Mutant: only the plan is restored.
RestorePlanOnly(h) ==
  /\ plan' = undo.plan
  /\ undo' = NoUndo
  /\ Goto(h, "undo")
  /\ UNCHANGED timebox

\* _undo_last_refine_update up to its await; a plan without a timebox of its own
\* that does not convert raises with the plan already restored.
Restore(h) ==
  /\ plan' = undo.plan
  /\ IF undo.timebox # None \/ undo.plan \in Valid
     THEN /\ timebox' = IF undo.timebox # None THEN undo.timebox ELSE undo.plan
          /\ undo' = NoUndo
          /\ Goto(h, "undo")
     ELSE UNCHANGED <<timebox, undo, task>>

ClickUndo(h) ==
  /\ Arrives(h)
  /\ stage = Refine /\ undo.plan # None
  /\ Restore(h)
  /\ UNCHANGED <<stage, ready, base, pending, queued, force, ended, sent, facts, pre>>

\* The summary of the restored draft is there, or failed.
Undone(h) ==
  /\ task[h].pc = "undo"
  /\ Stop(h)
  /\ UNCHANGED <<stage, plan, timebox, base, undo, queued, force, ended, sent,
                 facts, pre, spent>>
  /\ \/ ready' = TRUE /\ pending' = Offered'
     \/ UNCHANGED <<ready, pending>>

\* on_cancel_submit.
CancelSubmit(h) ==
  /\ Arrives(h)
  /\ AdvanceStage(Refine)
  /\ UNCHANGED <<plan, base, undo, queued, force, ended, sent, facts, task>>
----------------------------------------------------------------------------
(* A reply before its turn *)

\* The lock, then a decision of its own in the later stages.
StartReply(h) ==
  /\ task[h].pc = "queue"
  /\ Replying = {}
  /\ Goto(h, IF stage >= Skeleton THEN "first" ELSE "memory")
  /\ UNCHANGED <<session, spent>>

\* _submit_pending_plan up to its first await.
StartSubmit(h) ==
  IF pending /\ plan # None
  THEN Goto(h, "refresh") /\ UNCHANGED pending
  ELSE Stop(h) /\ pending' = (pending /\ plan # None)

\* The first decision: a wish to submit is remembered, and carried out when the
\* user agrees to what is pending.
FirstDecision(h) ==
  /\ task[h].pc = "first"
  /\ \E does \in {"proceed", "provide_info", "back"}, submit \in BOOLEAN :
       LET wish == submit \/ (queued /\ does # "back")
       IN IF stage = Review /\ pending /\ does = "proceed" /\ wish
          THEN StartSubmit(h) /\ queued' = pending'
          ELSE /\ queued' = wish
               /\ task' = [task EXCEPT ![h].pc = "memory",
                                      ![h].first = IF submit THEN "submit" ELSE "other"]
               /\ UNCHANGED pending
  /\ UNCHANGED <<stage, ready, plan, timebox, base, undo, force, ended, sent, facts,
                 pre, spent>>

\* _maybe_handle_memory_review_turn: a question about memory has no turn.
MemoryReview(h) ==
  /\ task[h].pc = "memory"
  /\ \/ Stop(h) /\ pending' = Offered
     \/ Goto(h, "lock") /\ UNCHANGED pending
  /\ UNCHANGED <<stage, ready, plan, timebox, base, undo, queued, force, ended, sent,
                 facts, pre, spent>>
----------------------------------------------------------------------------
(* The nodes of a turn before the stage's own *)

\* Mutant: turns do not wait for each other.
StartTurnAtOnce(h) ==
  /\ task[h].pc = "lock"
  /\ Goto(h, "init")
  /\ UNCHANGED <<session, spent>>

\* _run_graph_turn.
StartTurn(h) ==
  /\ task[h].pc = "lock"
  /\ Turning = {}
  /\ Goto(h, "init")
  /\ UNCHANGED <<session, spent>>

\* TurnInitNode; the calendar it waits for is part of the facts.
TurnInit(h) ==
  /\ task[h].pc = "init"
  /\ NewFacts
  /\ Goto(h, "decide")
  /\ UNCHANGED <<stage, ready, plan, timebox, base, undo, pending, queued, force,
                 ended, sent, pre, spent>>

Decided(h, does, target) ==
  task' = [task EXCEPT ![h].pc = "transit", ![h].does = does, ![h].target = target,
                       ![h].message = task[h].text, ![h].text = FALSE]

\* DecisionNode.
Decide(h) ==
  /\ task[h].pc = "decide"
  /\ force' = FALSE
  /\ IF force THEN Decided(h, "redo", None)
     ELSE IF ~task[h].text THEN Decided(h, "provide_info", None)
     ELSE \/ ready /\ Decided(h, "proceed", None)
          \/ \E target \in Stages \cup {None} :
               \/ Decided(h, "provide_info", target)
               \/ target # Review /\ Decided(h, "back", target)
          \/ \E does \in {"redo", "cancel", "assist"} : Decided(h, does, None)
  /\ UNCHANGED <<stage, ready, plan, timebox, base, undo, pending, queued, ended,
                 sent, facts, pre, spent>>

\* Where the decision takes the session; the stage itself to stay.
Destination(h) ==
  LET target == task[h].target IN
  CASE task[h].does = "back" -> IF target # None THEN target ELSE Previous(stage)
    [] task[h].does = "proceed" -> Following(stage)
    [] task[h].does = "provide_info" ->
         IF target \notin {None, stage} THEN target
         ELSE IF stage \in {Review, Skeleton} THEN Refine ELSE stage
    [] OTHER -> stage

Moves(h) ==
  \/ task[h].does \in {"back", "proceed"}
  \/ task[h].does = "provide_info" /\ Destination(h) # stage

\* TransitionNode; an answered request for help leaves no message to the stage.
Transition(h) ==
  /\ task[h].pc = "transit"
  /\ IF Moves(h) THEN AdvanceStage(Destination(h))
     ELSE UNCHANGED <<stage, ready, pending, timebox, pre>>
  /\ ended' = (ended \/ task[h].does = "cancel")
  /\ \E message \in BOOLEAN :
       /\ message => task[h].message /\ task[h].does # "proceed"
       /\ task[h].does # "assist" => (message = (task[h].message /\ task[h].does # "proceed"))
       /\ task' = [task EXCEPT ![h].pc = "route", ![h].does = "none",
                               ![h].target = None, ![h].message = message]
  /\ UNCHANGED <<plan, base, undo, queued, force, sent, facts, spent>>

\* The presenter and the end of run_stream.
Presented(h) ==
  task' = [task EXCEPT ![h] = [Idle EXCEPT !.pc = "attach", !.reply = task[h].reply,
                                           !.first = task[h].first]]

Node == <<"collect", "capture", "draft", "draft", "review">>

\* Mutant: no edge to the presenter for a session that is over.
RouteLive(h) ==
  /\ task[h].pc = "route"
  /\ ~ended
  /\ task' = [task EXCEPT ![h].pc = Node[stage], ![h].node = stage, ![h].timebox = timebox]
  /\ UNCHANGED <<session, spent>>

\* The edges of the graph, evaluated after the transition; the review of a
\* missing timebox is over at once.
Route(h) ==
  /\ task[h].pc = "route"
  /\ IF ended \/ (stage = Review /\ timebox = None)
     THEN Presented(h)
     ELSE task' = [task EXCEPT ![h].pc = Node[stage],
                               ![h].node = IF Node[stage] = "draft" THEN stage ELSE None,
                               ![h].message = task[h].message /\ stage = Refine,
                               ![h].timebox = IF stage = Review THEN timebox ELSE None]
  /\ UNCHANGED <<session, spent>>
----------------------------------------------------------------------------
(* The stage nodes *)

\* StageCollectConstraintsNode after its gate.
CollectConstraints(h) ==
  /\ task[h].pc = "collect"
  /\ NewFacts
  /\ ready' \in BOOLEAN
  /\ Presented(h)
  /\ UNCHANGED <<stage, plan, timebox, base, undo, pending, queued, force, ended,
                 sent, pre, spent>>

\* _queue_skeleton_pre_generation, for the facts the gate has left.
PreGenerate ==
  IF pre.print = facts' /\ (pre.plan # None \/ pre.running) THEN UNCHANGED pre
  ELSE pre' = [print |-> facts', plan |-> None, running |-> TRUE]

\* StageCaptureInputsNode after its gate; without calendar or constraints
\* nothing is drafted ahead.
CaptureInputs(h) ==
  /\ task[h].pc = "capture"
  /\ NewFacts
  /\ ready' \in BOOLEAN
  /\ PreGenerate \/ UNCHANGED pre
  /\ Presented(h)
  /\ UNCHANGED <<stage, plan, timebox, base, undo, pending, queued, force, ended,
                 sent, spent>>

\* The background task ends, with a draft of the facts as they are by then.
PreGenerated ==
  /\ pre.running
  /\ \/ pre' = [pre EXCEPT !.plan = facts, !.running = FALSE]
     \/ pre' = [pre EXCEPT !.running = FALSE]
  /\ UNCHANGED <<stage, ready, plan, timebox, base, undo, pending, queued, force,
                 ended, sent, facts, task, spent>>

\* Refine goes on to its calendar.
Ground(h) ==
  task' = [task EXCEPT ![h].pc = "ground", ![h].node = None, ![h].print = 0]

\* Mutant: the timebox of an earlier draft stays.
TakeDraftOnly(h, draft) ==
  /\ plan' = draft
  /\ base' = FALSE
  /\ IF task[h].node = Skeleton
     THEN ready' = TRUE /\ Presented(h)
     ELSE Ground(h) /\ UNCHANGED ready
  /\ UNCHANGED timebox

\* What the two nodes do with a draft.
TakeDraft(h, draft) ==
  /\ plan' = draft
  /\ timebox' = None
  /\ base' = FALSE
  /\ IF task[h].node = Skeleton
     THEN ready' = TRUE /\ Presented(h)
     ELSE Ground(h) /\ UNCHANGED ready

\* Mutant: whatever has been drafted ahead is used.
UsableAny(print) == pre.plan # None

\* Whether the draft made ahead is for these facts.
Usable(print) == pre.plan # None /\ pre.print = print

\* The node's start and _consume_pre_generated_skeleton up to its first await.
\* Refine asks for a draft only when there is nothing to refine.
AskDraft(h) ==
  /\ task[h].pc = "draft"
  /\ IF task[h].node = Refine /\ ~(timebox = None /\ plan = None)
     THEN Ground(h) /\ UNCHANGED <<plan, timebox, base, ready, pre>>
     ELSE IF pre.running /\ pre.print = facts
     THEN /\ task' = [task EXCEPT ![h].pc = "await", ![h].print = facts]
          /\ UNCHANGED <<plan, timebox, base, ready, pre>>
     ELSE IF Usable(facts)
     THEN /\ TakeDraft(h, pre.plan)
          /\ pre' = [pre EXCEPT !.plan = None]
     ELSE /\ task' = [task EXCEPT ![h].pc = "llm", ![h].print = facts]
          /\ UNCHANGED <<plan, timebox, base, ready, pre>>
  /\ UNCHANGED <<stage, undo, pending, queued, force, ended, sent, facts, spent>>

\* The task awaited is done, cancelled or too slow.
AwaitDraft(h) ==
  /\ task[h].pc = "await"
  /\ IF Usable(task[h].print)
     THEN /\ TakeDraft(h, pre.plan)
          /\ pre' = [pre EXCEPT !.plan = None, !.running = FALSE]
     ELSE /\ Goto(h, "llm")
          /\ UNCHANGED <<plan, timebox, base, ready, pre>>
  /\ UNCHANGED <<stage, undo, pending, queued, force, ended, sent, facts, spent>>

\* _run_skeleton_draft; an error is not ready in one node and final in the other.
Draft(h) ==
  /\ task[h].pc = "llm"
  /\ \/ TakeDraft(h, facts)
     \/ /\ Presented(h)
        /\ ready' = (ready /\ task[h].node = Refine)
        /\ UNCHANGED <<plan, timebox, base>>
  /\ UNCHANGED <<stage, undo, pending, queued, force, ended, sent, facts, pre, spent>>

\* StageRefineNode after the calendar: the baseline if it is missing and can be
\* built, the timebox if it is missing, converts and nothing was asked.
Prepare(h) ==
  /\ task[h].pc = "ground"
  /\ base' \in {base, TRUE}
  /\ timebox' = IF timebox = None /\ ~task[h].message /\ plan \in Valid
                THEN plan ELSE timebox
  /\ task' = [task EXCEPT ![h].pc = "tools", ![h].message = FALSE]
  /\ UNCHANGED <<stage, ready, plan, undo, pending, queued, force, ended, sent,
                 facts, pre, spent>>

\* The tools were chosen: a patch, for which the draft is remembered, or none;
\* or the choice failed.
ChooseTools(h) ==
  /\ task[h].pc = "tools"
  /\ \/ /\ task' = [task EXCEPT ![h].pc = "patch", ![h].plan = plan, ![h].timebox = timebox]
        /\ UNCHANGED ready
     \/ Goto(h, "summary") /\ UNCHANGED ready
     \/ Presented(h) /\ ready' = FALSE
  /\ UNCHANGED <<stage, plan, timebox, base, undo, pending, queued, force, ended,
                 sent, facts, pre, spent>>

\* The end of _execute_refine_patch_and_sync: plan and timebox change together.
ApplyPatch(h) ==
  /\ task[h].pc = "patch"
  /\ \/ /\ \E p \in Patches :
             /\ plan' = p /\ timebox' = p
             /\ undo' = IF p = task[h].plan THEN NoUndo
                        ELSE [plan |-> task[h].plan, timebox |-> task[h].timebox]
        /\ task' = [task EXCEPT ![h].pc = "summary", ![h].plan = None, ![h].timebox = None]
        /\ UNCHANGED ready
     \/ /\ Presented(h) /\ ready' = FALSE
        /\ UNCHANGED <<plan, timebox, undo>>
  /\ UNCHANGED <<stage, base, pending, queued, force, ended, sent, facts, pre, spent>>

\* The rest of StageRefineNode.
Summarise(h) ==
  /\ task[h].pc = "summary"
  /\ ready' = TRUE
  /\ Presented(h)
  /\ UNCHANGED <<stage, plan, timebox, base, undo, pending, queued, force, ended,
                 sent, facts, pre, spent>>

\* StageReviewCommitNode after its summary of the timebox.
ReviewCommit(h) ==
  /\ task[h].pc = "review"
  /\ pending' = FALSE
  /\ ready' = TRUE
  /\ reviewed' = task[h].timebox
  /\ Presented(h)
  /\ UNCHANGED <<stage, plan, timebox, base, undo, queued, force, ended, sent, facts,
                 pre, spent>>

\* A node raises, which ends the handler, or the turn times out.
Abort(h) ==
  /\ h \in Turning
  /\ Stop(h) \/ Presented(h)
  /\ UNCHANGED <<session, spent>>
----------------------------------------------------------------------------
(* After the turn *)

\* The answer gets its blocks; a reply that wants to submit does.
Attach(h) ==
  /\ task[h].pc = "attach"
  /\ IF /\ Offered
        /\ task[h].first = "submit" \/ (task[h].first = "other" /\ queued)
     THEN Goto(h, "refresh") /\ pending' = TRUE
     ELSE Stop(h) /\ pending' = Offered
  /\ UNCHANGED <<stage, ready, plan, timebox, base, undo, queued, force, ended, sent,
                 facts, pre, spent>>

\* on_confirm_submit.
ConfirmSubmit(h) ==
  /\ Arrives(h)
  /\ ~ended
  /\ StartSubmit(h)
  /\ UNCHANGED <<stage, ready, plan, timebox, base, undo, queued, force, ended, sent,
                 facts, pre>>

\* The calendar was read again, or not; what is written is the plan by then.
Refresh(h) ==
  /\ task[h].pc = "refresh"
  /\ \/ /\ base' = TRUE
        /\ task' = [task EXCEPT ![h].pc = "write", ![h].plan = plan]
        /\ UNCHANGED <<pending, queued>>
     \/ Stop(h) /\ UNCHANGED <<base, pending, queued>>
     \/ /\ ~base /\ Stop(h) /\ pending' = FALSE
        /\ queued' = (queued /\ ~task[h].reply)
        /\ UNCHANGED base
  /\ UNCHANGED <<stage, ready, plan, timebox, undo, force, ended, sent, facts, pre,
                 spent>>

\* The submission is over, or raised.
Written(h) ==
  /\ task[h].pc = "write"
  /\ \/ /\ pending' = FALSE /\ sent' = TRUE
        /\ queued' = (queued /\ ~task[h].reply)
     \/ UNCHANGED <<pending, sent, queued>>
  /\ Stop(h)
  /\ UNCHANGED <<stage, ready, plan, timebox, base, undo, force, ended, facts, pre,
                 spent>>

\* on_undo_submit; the plan becomes the baseline.
UndoSubmit(h) ==
  /\ Arrives(h)
  /\ ~ended /\ sent
  /\ Goto(h, "revert")
  /\ UNCHANGED session

Reverted(h) ==
  /\ task[h].pc = "revert"
  /\ \/ UNCHANGED <<stage, ready, plan, timebox, pending, pre, sent>>
     \/ /\ sent' = FALSE
        /\ IF ~base THEN AdvanceStage(Refine) /\ UNCHANGED plan
           ELSE /\ plan' \in Plans
                /\ stage' = Refine /\ ready' = FALSE /\ pending' = FALSE
                /\ timebox' = IF plan' \in Valid THEN plan' ELSE timebox
                /\ UNCHANGED pre
  /\ Stop(h)
  /\ UNCHANGED <<base, undo, queued, force, ended, facts, spent>>

\* Calendar and preferences load in the background.
FactsChange ==
  /\ facts < MaxFacts
  /\ facts' = facts + 1
  /\ UNCHANGED <<stage, ready, plan, timebox, base, undo, pending, queued, force,
                 ended, sent, pre, task, spent>>
----------------------------------------------------------------------------
Receive(h) ==
  \/ UserReply(h) \/ UserText(h) \/ CommitDate(h)
  \/ ClickCancel(h) \/ ClickBack(h) \/ ClickProceed(h) \/ ClickRedo(h) \/ ClickUndo(h)
  \/ ConfirmSubmit(h) \/ CancelSubmit(h) \/ UndoSubmit(h)

Step(h) ==
  \/ StartReply(h) \/ FirstDecision(h) \/ MemoryReview(h)
  \/ StartTurn(h) \/ TurnInit(h) \/ Decide(h) \/ Transition(h) \/ Route(h)
  \/ CollectConstraints(h) \/ CaptureInputs(h)
  \/ AskDraft(h) \/ AwaitDraft(h) \/ Draft(h)
  \/ Prepare(h) \/ ChooseTools(h) \/ ApplyPatch(h) \/ Summarise(h)
  \/ Attach(h) \/ Undone(h) \/ Refresh(h) \/ Written(h) \/ Reverted(h)

Progress(h) == (Step(h) /\ UNCHANGED reviewed) \/ ReviewCommit(h)

Undoes == \E h \in Handlers : ClickUndo(h) \/ Reverted(h)

\* History.
Track ==
  /\ alone' = (/\ Cardinality(Active') <= 1
               /\ alone \/ \E h \in Handlers : ReviewCommit(h) /\ task[h].timebox = plan)
  /\ unshown' = (/\ plan' \notin Valid
                 /\ Undoes \/ (unshown /\ UNCHANGED <<plan, timebox>>))

Init ==
  /\ stage = Collect /\ ready = FALSE
  /\ plan = None /\ timebox = None /\ base = FALSE /\ undo = NoUndo
  /\ pending = FALSE /\ queued = FALSE /\ force = FALSE /\ ended = FALSE
  /\ sent = FALSE
  /\ facts = 1 /\ pre = Nothing
  /\ task = [h \in Handlers |-> Idle]
  /\ spent = 0
  /\ reviewed = None /\ alone = TRUE /\ unshown = FALSE

Next ==
  /\ \/ \E h \in Handlers : Progress(h)
     \/ /\ \/ \E h \in Handlers : Receive(h) \/ Abort(h)
           \/ PreGenerated
           \/ FactsChange
        /\ UNCHANGED reviewed
  /\ Track

\* The loop runs every handler, and each call of a model has its own timeout.
Spec == Init /\ [][Next]_vars /\ \A h \in Handlers : WF_vars(Progress(h) /\ Track)
----------------------------------------------------------------------------
TypeOK ==
  /\ stage \in Stages /\ ready \in BOOLEAN
  /\ plan \in Plans \cup {None} /\ timebox \in Valid \cup {None}
  /\ base \in BOOLEAN
  /\ undo \in [plan : Plans \cup {None}, timebox : Valid \cup {None}]
  /\ pending \in BOOLEAN /\ queued \in BOOLEAN /\ force \in BOOLEAN
  /\ ended \in BOOLEAN /\ sent \in BOOLEAN
  /\ facts \in 1..MaxFacts
  /\ pre \in [print : 0..MaxFacts, plan : Drafts \cup {None}, running : BOOLEAN]
  /\ task \in [Handlers -> Task]
  /\ spent \in 0..MaxMessages
  /\ reviewed \in Valid \cup {None} /\ alone \in BOOLEAN /\ unshown \in BOOLEAN
  /\ Cardinality(Replying) <= 1 /\ Cardinality(Turning) <= 1

\* Whatever buttons are pressed while turns run, the timebox that the review
\* shows is the plan that a submission writes, unless that plan does not convert
\* to a timebox at all (nodes.py:448-477, agent.py:4459-4462, 4490-4496).
PlanIsMaterialised == timebox # None /\ plan \in Valid => timebox = plan

\* A draft taken from the background, or made for want of one, is of facts no
\* older than those the stage's node found (agent.py:3817, 3843-3858).
DraftNotOlder ==
  [][\A h \in Handlers :
       /\ task[h].pc \in {"draft", "await", "llm"}
       /\ plan' # plan \/ (task[h].node = Refine /\ task'[h].pc = "ground" /\ plan = None)
       /\ task'[h] # task[h]
       => plan' >= IF task[h].pc = "draft" THEN facts ELSE task[h].print]_vars

\* With one message handled at a time, in whatever order they come, what is
\* written to the calendar is the plan the review showed last
\* (nodes.py:719-738, agent.py:6951-6970, 7236-7254); but for a plan that an undo,
\* of a refinement or of a submission, brought back and that does not convert to
\* a timebox: the review then goes on showing the timebox of the plan undone
\* (agent.py:4490-4496, 7880-7890).
SubmitsTheReviewed ==
  [][\A h \in Handlers :
       /\ task[h].pc = "refresh" /\ task'[h].pc = "write"
       /\ alone /\ ~unshown
       => reviewed = plan]_vars

\* Every message is answered, however the locks are contended, stages move under
\* a turn or the session ends meanwhile.
EveryTurnEnds == \A h \in Handlers : []<>(task[h].pc = "idle")

\* Said of a session that was cancelled (agent.py:7570): no submission begins.
EndedTakesNoSubmission ==
  [][\A h \in Handlers :
       task[h].pc # "refresh" /\ task'[h].pc = "refresh" => ~ended]_vars
=============================================================================
