------------------------- MODULE StageMachineProofs -------------------------
(* What holds of a timeboxing session for any number of handlers and         *)
(* messages, any drafts and patches, and any of them that do not convert.    *)
EXTENDS StageMachine, FiniteSetTheorems, TLAPS

\* The types of the session's variables, and of the handlers' locals.
Data ==
  /\ stage \in Stages /\ ready \in BOOLEAN
  /\ plan \in Plans \cup {None} /\ timebox \in Valid \cup {None}
  /\ base \in BOOLEAN
  /\ undo \in [plan : Plans \cup {None}, timebox : Valid \cup {None}]
  /\ pending \in BOOLEAN /\ queued \in BOOLEAN /\ force \in BOOLEAN
  /\ ended \in BOOLEAN /\ sent \in BOOLEAN
  /\ facts \in Drafts
  /\ pre \in [print : 0..MaxFacts, plan : Drafts \cup {None}, running : BOOLEAN]
  /\ spent \in 0..MaxMessages

Tasks == task \in [Handlers -> Task]

\* Which sets of plans and stages contain which.
LEMMA SetFacts ==
  /\ Patches \subseteq Valid /\ Valid \subseteq Plans /\ Drafts \subseteq Plans
  /\ Drafts \subseteq 0..MaxFacts /\ 0 \in 0..MaxFacts
  /\ None \notin Plans
  /\ {Collect, Capture, Skeleton, Refine, Review} \subseteq Stages
BY StageAssumption DEF Valid, Plans, Drafts, None, Stages, Collect, Capture,
   Skeleton, Refine, Review

\* An idle handler has locals.
LEMMA IdleTask == Idle \in Task
BY SetFacts DEF Idle, Task, Pcs

\* The stages, and that there is no way out of them.
LEMMA StageFacts ==
  /\ \A s \in Stages : Previous(s) \in Stages /\ Following(s) \in Stages
  /\ Stages = {Collect, Capture, Skeleton, Refine, Review}
BY DEF Stages, Collect, Capture, Skeleton, Refine, Review, Previous, Following

\* A move to another stage keeps the types.
LEMMA AdvanceType ==
  ASSUME Data, NEW next \in Stages, AdvanceStage(next)
  PROVE  /\ stage' \in Stages /\ ready' \in BOOLEAN /\ timebox' \in Valid \cup {None}
         /\ pending' \in BOOLEAN
         /\ pre' \in [print : 0..MaxFacts, plan : Drafts \cup {None}, running : BOOLEAN]
BY SetFacts DEF Data, AdvanceStage

\* Facts only become newer.
LEMMA FactsType ==
  ASSUME Data, NewFacts
  PROVE  facts' \in Drafts /\ facts' >= facts
BY StageAssumption DEF Data, NewFacts, Drafts

\* A message is counted.
LEMMA ArrivesType ==
  ASSUME Data, NEW h \in Handlers, Arrives(h)
  PROVE  spent' \in 0..MaxMessages
BY StageAssumption DEF Data, Arrives

\* What may be written into a handler's locals.
LEMMA TaskFields ==
  ASSUME NEW t \in Task
  PROVE  /\ \A x \in Pcs : [t EXCEPT !.pc = x] \in Task
         /\ \A x \in BOOLEAN : [t EXCEPT !.reply = x] \in Task
         /\ \A x \in BOOLEAN : [t EXCEPT !.text = x] \in Task
         /\ \A x \in {"none", "other", "submit"} : [t EXCEPT !.first = x] \in Task
         /\ \A x \in {"none", "proceed", "back", "provide_info", "redo", "cancel", "assist"} :
              [t EXCEPT !.does = x] \in Task
         /\ \A x \in Stages \cup {None} : [t EXCEPT !.target = x] \in Task
         /\ \A x \in BOOLEAN : [t EXCEPT !.message = x] \in Task
         /\ \A x \in Stages \cup {None} : [t EXCEPT !.node = x] \in Task
         /\ \A x \in 0..MaxFacts : [t EXCEPT !.print = x] \in Task
         /\ \A x \in Plans \cup {None} : [t EXCEPT !.plan = x] \in Task
         /\ \A x \in Valid \cup {None} : [t EXCEPT !.timebox = x] \in Task
BY DEF Task

\* A handler goes on to another step.
LEMMA GotoType ==
  ASSUME Tasks, NEW h \in Handlers, NEW pc \in Pcs, Goto(h, pc)
  PROVE  Tasks'
BY TaskFields DEF Tasks, Goto

\* A handler stops.
LEMMA StopType ==
  ASSUME Tasks, NEW h \in Handlers, Stop(h)
  PROVE  Tasks'
BY IdleTask DEF Tasks, Stop

\* A turn is over.
LEMMA PresentedType ==
  ASSUME Tasks, NEW h \in Handlers, Presented(h)
  PROVE  Tasks'
<1>1. task[h].reply \in BOOLEAN /\ task[h].first \in {"none", "other", "submit"}
  BY DEF Tasks, Task
<1>2. [Idle EXCEPT !.pc = "attach", !.reply = task[h].reply, !.first = task[h].first] \in Task
  BY <1>1, IdleTask, TaskFields DEF Pcs
<1>. QED  BY <1>2 DEF Tasks, Presented

Shape == Data /\ Tasks

\* The refinement goes on to its calendar.
LEMMA GroundType ==
  ASSUME Tasks, NEW h \in Handlers, Ground(h)
  PROVE  Tasks'
<1>1. [task[h] EXCEPT !.pc = "ground", !.node = None, !.print = 0] \in Task
  BY SetFacts, TaskFields DEF Tasks, Pcs
<1>. QED  BY <1>1 DEF Tasks, Ground

\* What the two nodes do with a draft.
LEMMA TakeDraftType ==
  ASSUME Data, Tasks, NEW h \in Handlers, NEW draft \in Drafts, TakeDraft(h, draft)
  PROVE  /\ plan' \in Plans /\ timebox' = None /\ base' = FALSE /\ ready' \in BOOLEAN
         /\ Tasks'
<1>1. plan' \in Plans /\ timebox' = None /\ base' = FALSE
  BY SetFacts DEF TakeDraft
<1>2. ready' \in BOOLEAN
  BY DEF TakeDraft, Data
<1>3. Tasks'
  <2>1. CASE Presented(h)
    BY <2>1, PresentedType
  <2>2. CASE Ground(h)
    BY <2>2, GroundType
  <2>. QED  BY <2>1, <2>2 DEF TakeDraft
<1>. QED  BY <1>1, <1>2, <1>3

\* A plan is restored for the undo button.
LEMMA RestoreType ==
  ASSUME Data, Tasks, NEW h \in Handlers, undo.plan # None, Restore(h)
  PROVE  /\ plan' \in Plans /\ timebox' \in Valid \cup {None}
         /\ undo' \in [plan : Plans \cup {None}, timebox : Valid \cup {None}]
         /\ Tasks'
<1>1. plan' \in Plans /\ timebox' \in Valid \cup {None}
  BY SetFacts DEF Data, Restore
<1>2. undo' \in [plan : Plans \cup {None}, timebox : Valid \cup {None}]
  BY DEF Data, Restore, NoUndo
<1>3. Tasks'
  BY GotoType DEF Tasks, Restore, Pcs
<1>. QED  BY <1>1, <1>2, <1>3

\* A submission begins, or does not.
LEMMA StartSubmitType ==
  ASSUME Data, Tasks, NEW h \in Handlers, StartSubmit(h)
  PROVE  pending' \in BOOLEAN /\ Tasks'
<1>1. pending' \in BOOLEAN
  BY DEF Data, StartSubmit
<1>2. Tasks'
  BY GotoType, StopType DEF StartSubmit, Pcs
<1>. QED  BY <1>1, <1>2

\* Messages keep the shape of the session and of the handlers.
LEMMA ReceiveType ==
  ASSUME Shape, NEW h \in Handlers, Receive(h)
  PROVE  Shape'
<1>1. CASE UserReply(h)
  <2>1. [Idle EXCEPT !.pc = "queue", !.reply = TRUE, !.text = TRUE] \in Task
    BY IdleTask, TaskFields DEF Pcs
  <2>. QED  BY <1>1, <2>1, ArrivesType DEF Shape, Data, Tasks, UserReply, session
<1>2. CASE UserText(h)
  <2>1. [Idle EXCEPT !.pc = "lock", !.text = TRUE] \in Task
    BY IdleTask, TaskFields DEF Pcs
  <2>. QED  BY <1>2, <2>1, ArrivesType DEF Shape, Data, Tasks, UserText, session
<1>3. CASE CommitDate(h)
  BY <1>3, FactsType, ArrivesType, GotoType DEF Shape, Data, Pcs, CommitDate
<1>4. CASE ClickCancel(h)
  BY <1>4, ArrivesType DEF Shape, Data, Pcs, ClickCancel, Tasks
<1>5. CASE ClickBack(h)
  BY <1>5, SetFacts, StageFacts, AdvanceType, ArrivesType, GotoType DEF Shape, Data,
       Pcs, ClickBack
<1>6. CASE ClickProceed(h)
  BY <1>6, SetFacts, StageFacts, AdvanceType, ArrivesType, GotoType DEF Shape, Data,
       Pcs, ClickProceed, Offered, Tasks
<1>7. CASE ClickRedo(h)
  BY <1>7, ArrivesType, GotoType DEF Shape, Data, Pcs, ClickRedo
<1>8. CASE ClickUndo(h)
  <2>1. undo.plan # None /\ Restore(h)
    BY <1>8 DEF ClickUndo
  <2>. QED  BY <1>8, <2>1, RestoreType, ArrivesType DEF Shape, Data, ClickUndo
<1>9. CASE ConfirmSubmit(h)
  <2>1. StartSubmit(h)
    BY <1>9 DEF ConfirmSubmit
  <2>. QED  BY <1>9, <2>1, StartSubmitType, ArrivesType DEF Shape, Data, ConfirmSubmit
<1>10. CASE CancelSubmit(h)
  BY <1>10, SetFacts, StageFacts, AdvanceType, ArrivesType DEF Shape, Data, Pcs,
       CancelSubmit, Tasks
<1>11. CASE UndoSubmit(h)
  BY <1>11, ArrivesType, GotoType DEF Shape, Data, Pcs, UndoSubmit, session
<1>. QED  BY <1>1, <1>2, <1>3, <1>4, <1>5, <1>6, <1>7, <1>8, <1>9, <1>10, <1>11
       DEF Receive

\* So do the steps of a handler.
LEMMA StepType ==
  ASSUME Shape, NEW h \in Handlers, Step(h)
  PROVE  Shape'
<1>1. CASE StartReply(h)
  BY <1>1, GotoType DEF Shape, Data, Pcs, StartReply, session
<1>2. CASE FirstDecision(h)
  <2> DEFINE First(submit) == IF submit THEN "submit" ELSE "other"
  <2>1. PICK does \in {"proceed", "provide_info", "back"}, submit \in BOOLEAN :
          \/ StartSubmit(h) /\ queued' = pending'
          \/ /\ queued' = (submit \/ (queued /\ does # "back"))
             /\ task' = [task EXCEPT ![h].pc = "memory", ![h].first = First(submit)]
             /\ UNCHANGED pending
    BY <1>2 DEF FirstDecision
  <2>2. CASE StartSubmit(h) /\ queued' = pending'
    <3>1. pending' \in BOOLEAN /\ Tasks'
      BY <2>2, StartSubmitType DEF Shape
    <3>2. queued' \in BOOLEAN
      BY <2>2, <3>1
    <3>. QED  BY <1>2, <3>1, <3>2 DEF Shape, Data, FirstDecision
  <2>3. CASE /\ queued' = (submit \/ (queued /\ does # "back"))
             /\ task' = [task EXCEPT ![h].pc = "memory", ![h].first = First(submit)]
             /\ UNCHANGED pending
    <3>1. First(submit) \in {"none", "other", "submit"}
      OBVIOUS
    <3>2. [task[h] EXCEPT !.pc = "memory", !.first = First(submit)] \in Task
      BY <3>1, SetFacts, TaskFields DEF Shape, Tasks, Pcs
    <3>3. Tasks'
      BY <2>3, <3>2 DEF Shape, Tasks
    <3>4. queued' \in BOOLEAN
      BY <2>3
    <3>. QED  BY <1>2, <2>3, <3>3, <3>4 DEF Shape, Data, FirstDecision
  <2>. QED  BY <2>1, <2>2, <2>3
<1>3. CASE MemoryReview(h)
  <2>1. pending' \in BOOLEAN
    BY <1>3 DEF Shape, Data, MemoryReview, Offered
  <2>2. Tasks'
    BY <1>3, StopType, GotoType DEF Shape, MemoryReview, Pcs
  <2>. QED  BY <1>3, <2>1, <2>2 DEF Shape, Data, MemoryReview
<1>4. CASE StartTurn(h)
  BY <1>4, GotoType DEF Shape, Data, Pcs, StartTurn, session
<1>5. CASE TurnInit(h)
  BY <1>5, FactsType, GotoType DEF Shape, Data, Pcs, TurnInit
<1>6. CASE Decide(h)
  <2>1. ASSUME NEW does \in {"proceed", "back", "provide_info", "redo", "cancel", "assist"},
               NEW target \in Stages \cup {None}, Decided(h, does, target)
        PROVE  Tasks'
    <3>0. task[h].text \in BOOLEAN
      BY DEF Shape, Tasks, Task
    <3>1. [task[h] EXCEPT !.pc = "transit", !.does = does, !.target = target,
                          !.message = task[h].text, !.text = FALSE] \in Task
      BY <3>0, SetFacts, TaskFields DEF Shape, Tasks, Pcs
    <3>. QED  BY <2>1, <3>1 DEF Shape, Tasks, Decided
  <2>2. Tasks'
    BY <1>6, <2>1 DEF Decide
  <2>3. force' \in BOOLEAN
    BY <1>6 DEF Decide
  <2>. QED  BY <1>6, <2>2, <2>3 DEF Shape, Data, Decide
<1>7. CASE Transition(h)
  <2>1. Destination(h) \in Stages
    BY StageFacts, SetFacts DEF Shape, Data, Tasks, Task, Destination
  <2>2. /\ stage' \in Stages /\ ready' \in BOOLEAN /\ timebox' \in Valid \cup {None}
        /\ pending' \in BOOLEAN
        /\ pre' \in [print : 0..MaxFacts, plan : Drafts \cup {None}, running : BOOLEAN]
    <3>1. CASE AdvanceStage(Destination(h))
      BY <2>1, <3>1, AdvanceType DEF Shape
    <3>2. CASE UNCHANGED <<stage, ready, pending, timebox, pre>>
      BY <3>2 DEF Shape, Data
    <3>. QED  BY <1>7, <3>1, <3>2 DEF Transition
  <2>3. ended' \in BOOLEAN
    BY <1>7 DEF Shape, Data, Transition
  <2>4. Tasks'
    <3>1. PICK message \in BOOLEAN :
            task' = [task EXCEPT ![h].pc = "route", ![h].does = "none",
                                 ![h].target = None, ![h].message = message]
      BY <1>7 DEF Transition
    <3>2. [task[h] EXCEPT !.pc = "route", !.does = "none", !.target = None,
                          !.message = message] \in Task
      BY SetFacts, TaskFields DEF Shape, Tasks, Pcs
    <3>. QED  BY <3>1, <3>2 DEF Shape, Tasks
  <2>. QED  BY <1>7, <2>2, <2>3, <2>4 DEF Shape, Data, Transition
<1>8. CASE Route(h)
  <2>1. Tasks'
    <3>1. CASE Presented(h)
      BY <3>1, PresentedType DEF Shape
    <3>2. CASE ~Presented(h)
      <4>1. Node[stage] \in {"collect", "capture", "draft", "review"}
        BY StageFacts DEF Shape, Data, Node, Collect, Capture, Skeleton, Refine, Review
      <4>2. task[h].message \in BOOLEAN /\ (task[h].message /\ stage = Refine) \in BOOLEAN
        BY DEF Shape, Tasks, Task
      <4> DEFINE t == [task[h] EXCEPT
                         !.pc = Node[stage],
                         !.node = IF Node[stage] = "draft" THEN stage ELSE None,
                         !.message = task[h].message /\ stage = Refine,
                         !.timebox = IF stage = Review THEN timebox ELSE None]
      <4>3. t \in Task
        BY <4>1, <4>2, TaskFields DEF Shape, Data, Tasks, Pcs
      <4>4. task' = [task EXCEPT ![h] = t]
        BY <1>8, <3>2 DEF Route
      <4>. QED  BY <4>3, <4>4 DEF Shape, Tasks
    <3>. QED  BY <3>1, <3>2
  <2>. QED  BY <1>8, <2>1 DEF Shape, Data, Route, session
<1>9. CASE CollectConstraints(h)
  BY <1>9, FactsType, PresentedType DEF Shape, Data, Pcs, CollectConstraints
<1>10. CASE CaptureInputs(h)
  <2>1. facts' \in Drafts /\ Tasks'
    BY <1>10, FactsType, PresentedType DEF Shape, CaptureInputs
  <2>2. pre' \in [print : 0..MaxFacts, plan : Drafts \cup {None}, running : BOOLEAN]
    <3>1. facts' \in 0..MaxFacts
      BY <2>1, SetFacts
    <3>2. CASE pre' = [print |-> facts', plan |-> None, running |-> TRUE]
      BY <3>1, <3>2
    <3>3. CASE UNCHANGED pre
      BY <3>3 DEF Shape, Data
    <3>. QED  BY <1>10, <3>2, <3>3 DEF CaptureInputs, PreGenerate
  <2>3. ready' \in BOOLEAN
    BY <1>10 DEF CaptureInputs
  <2>. QED  BY <1>10, <2>1, <2>2, <2>3 DEF Shape, Data, CaptureInputs
<1>11. CASE AskDraft(h)
  <2>1. CASE Ground(h) /\ UNCHANGED <<plan, timebox, base, ready, pre>>
    BY <1>11, <2>1, GroundType DEF Shape, Data, AskDraft
  <2>2. ASSUME NEW pc \in {"await", "llm"},
               task' = [task EXCEPT ![h].pc = pc, ![h].print = facts],
               UNCHANGED <<plan, timebox, base, ready, pre>>
        PROVE  Shape'
    <3>1. [task[h] EXCEPT !.pc = pc, !.print = facts] \in Task
      BY SetFacts, TaskFields DEF Shape, Data, Tasks, Pcs
    <3>. QED  BY <1>11, <2>2, <3>1 DEF Shape, Data, Tasks, AskDraft
  <2>3. ASSUME Usable(facts), TakeDraft(h, pre.plan), pre' = [pre EXCEPT !.plan = None]
        PROVE  Shape'
    <3>1. pre.plan \in Drafts
      BY <2>3 DEF Shape, Data, Usable
    <3>2. pre' \in [print : 0..MaxFacts, plan : Drafts \cup {None}, running : BOOLEAN]
      BY <2>3 DEF Shape, Data
    <3>. QED  BY <1>11, <2>3, <3>1, <3>2, TakeDraftType DEF Shape, Data, AskDraft
  <2>. QED  BY <1>11, <2>1, <2>2, <2>3 DEF AskDraft
<1>12. CASE AwaitDraft(h)
  <2>1. ASSUME Usable(task[h].print), TakeDraft(h, pre.plan),
               pre' = [pre EXCEPT !.plan = None, !.running = FALSE]
        PROVE  Shape'
    <3>1. pre.plan \in Drafts
      BY <2>1 DEF Shape, Data, Usable
    <3>2. pre' \in [print : 0..MaxFacts, plan : Drafts \cup {None}, running : BOOLEAN]
      BY <2>1 DEF Shape, Data
    <3>. QED  BY <1>12, <2>1, <3>1, <3>2, TakeDraftType DEF Shape, Data, AwaitDraft
  <2>2. CASE Goto(h, "llm") /\ UNCHANGED <<plan, timebox, base, ready, pre>>
    BY <1>12, <2>2, GotoType DEF Shape, Data, AwaitDraft, Pcs
  <2>. QED  BY <1>12, <2>1, <2>2 DEF AwaitDraft
<1>13. CASE Draft(h)
  <2>1. CASE TakeDraft(h, facts)
    <3>1. facts \in Drafts
      BY DEF Shape, Data
    <3>. QED  BY <1>13, <2>1, <3>1, TakeDraftType DEF Shape, Data, Draft
  <2>2. CASE /\ Presented(h)
             /\ ready' = (ready /\ task[h].node = Refine)
             /\ UNCHANGED <<plan, timebox, base>>
    <3>1. ready' \in BOOLEAN
      BY <2>2 DEF Shape, Data
    <3>. QED  BY <1>13, <2>2, <3>1, PresentedType DEF Shape, Data, Draft
  <2>. QED  BY <1>13, <2>1, <2>2 DEF Draft
<1>14. CASE Prepare(h)
  <2>1. base' \in BOOLEAN
    BY <1>14 DEF Shape, Data, Prepare
  <2>2. timebox' \in Valid \cup {None}
    BY <1>14 DEF Shape, Data, Prepare
  <2>3. [task[h] EXCEPT !.pc = "tools", !.message = FALSE] \in Task
    BY SetFacts, TaskFields DEF Shape, Tasks, Pcs
  <2>4. Tasks'
    BY <1>14, <2>3 DEF Shape, Tasks, Prepare
  <2>. QED  BY <1>14, <2>1, <2>2, <2>4 DEF Shape, Data, Prepare
<1>15. CASE ChooseTools(h)
  <2>1. ready' \in BOOLEAN
    BY <1>15 DEF Shape, Data, ChooseTools
  <2>2. [task[h] EXCEPT !.pc = "patch", !.plan = plan, !.timebox = timebox] \in Task
    BY SetFacts, TaskFields DEF Shape, Data, Tasks, Pcs
  <2>3. CASE task' = [task EXCEPT ![h].pc = "patch", ![h].plan = plan, ![h].timebox = timebox]
    <3>1. Tasks'
      BY <2>2, <2>3 DEF Shape, Tasks
    <3>. QED  BY <1>15, <2>1, <3>1 DEF Shape, Data, ChooseTools
  <2>4. CASE Goto(h, "summary") \/ Presented(h)
    <3>1. Tasks'
      BY <2>4, GotoType, PresentedType DEF Shape, Pcs
    <3>. QED  BY <1>15, <2>1, <3>1 DEF Shape, Data, ChooseTools
  <2>. QED  BY <1>15, <2>3, <2>4 DEF ChooseTools
<1>16. CASE ApplyPatch(h)
  <2>1. ready' \in BOOLEAN
    BY <1>16 DEF Shape, Data, ApplyPatch
  <2>2. /\ plan' \in Plans \cup {None} /\ timebox' \in Valid \cup {None}
        /\ undo' \in [plan : Plans \cup {None}, timebox : Valid \cup {None}]
    BY <1>16, SetFacts DEF Shape, Data, Tasks, Task, ApplyPatch, NoUndo
  <2>3. [task[h] EXCEPT !.pc = "summary", !.plan = None, !.timebox = None] \in Task
    BY SetFacts, TaskFields DEF Shape, Tasks, Pcs
  <2>4. Tasks'
    <3>1. CASE task' = [task EXCEPT ![h].pc = "summary", ![h].plan = None,
                                    ![h].timebox = None]
      BY <2>3, <3>1 DEF Shape, Tasks
    <3>2. CASE Presented(h)
      BY <3>2, PresentedType DEF Shape
    <3>. QED  BY <1>16, <3>1, <3>2 DEF ApplyPatch
  <2>. QED  BY <1>16, <2>1, <2>2, <2>4 DEF Shape, Data, ApplyPatch
<1>17. CASE Summarise(h)
  BY <1>17, PresentedType DEF Shape, Data, Pcs, Summarise
<1>18. CASE Attach(h)
  <2>1. pending' \in BOOLEAN
    BY <1>18 DEF Shape, Data, Attach, Offered
  <2>2. Tasks'
    BY <1>18, StopType, GotoType DEF Shape, Attach, Pcs
  <2>. QED  BY <1>18, <2>1, <2>2 DEF Shape, Data, Attach
<1>19. CASE Undone(h)
  <2>1. ready' \in BOOLEAN
    BY <1>19 DEF Shape, Data, Undone
  <2>2. pending' \in BOOLEAN
    BY <1>19 DEF Shape, Data, Undone, Offered
  <2>. QED  BY <1>19, <2>1, <2>2, StopType DEF Shape, Data, Undone
<1>20. CASE Refresh(h)
  <2>1. pending' \in BOOLEAN
    BY <1>20 DEF Shape, Data, Refresh
  <2>2. base' \in BOOLEAN
    BY <1>20 DEF Shape, Data, Refresh
  <2>3. [task[h] EXCEPT !.pc = "write", !.plan = plan] \in Task
    BY SetFacts, TaskFields DEF Shape, Data, Tasks, Pcs
  <2>4. Tasks'
    <3>1. CASE task' = [task EXCEPT ![h].pc = "write", ![h].plan = plan]
      BY <2>3, <3>1 DEF Shape, Tasks
    <3>2. CASE Stop(h)
      BY <3>2, StopType DEF Shape
    <3>. QED  BY <1>20, <3>1, <3>2 DEF Refresh
  <2>. QED  BY <1>20, <2>1, <2>2, <2>4 DEF Shape, Data, Refresh
<1>21. CASE Written(h)
  <2>1. pending' \in BOOLEAN
    BY <1>21 DEF Shape, Data, Written
  <2>2. sent' \in BOOLEAN
    BY <1>21 DEF Shape, Data, Written
  <2>3. queued' \in BOOLEAN
    BY <1>21 DEF Shape, Data, Written
  <2>. QED  BY <1>21, <2>1, <2>2, <2>3, StopType DEF Shape, Data, Written
<1>22. CASE Reverted(h)
  <2>1. /\ stage' \in Stages /\ ready' \in BOOLEAN /\ timebox' \in Valid \cup {None}
        /\ pending' \in BOOLEAN /\ plan' \in Plans \cup {None} /\ sent' \in BOOLEAN
        /\ pre' \in [print : 0..MaxFacts, plan : Drafts \cup {None}, running : BOOLEAN]
    BY <1>22, SetFacts, AdvanceType DEF Shape, Data, Reverted
  <2>. QED  BY <1>22, <2>1, StopType DEF Shape, Data, Reverted
<1>. QED  BY <1>1, <1>2, <1>3, <1>4, <1>5, <1>6, <1>7, <1>8, <1>9, <1>10, <1>11,
       <1>12, <1>13, <1>14, <1>15, <1>16, <1>17, <1>18, <1>19, <1>20, <1>21, <1>22
       DEF Step

----------------------------------------------------------------------------
(* The two locks, and the type invariant *)

\* The steps at which a handler holds the turn lock.
TurnPcs == {"init", "decide", "transit", "route", "collect", "capture", "draft",
            "await", "llm", "ground", "tools", "patch", "summary", "review"}

InTurn(t) == t.pc \in TurnPcs
InReply(t) == t.reply /\ t.pc # "queue"

Locks ==
  /\ \A g, h \in Handlers : InTurn(task[g]) /\ InTurn(task[h]) => g = h
  /\ \A g, h \in Handlers : InReply(task[g]) /\ InReply(task[h]) => g = h

\* A handler takes a lock only when nobody holds it, and changes no other
\* handler.
Enters(h) ==
  /\ \A g \in Handlers \ {h} : task'[g] = task[g]
  /\ InTurn(task[h])' => InTurn(task[h]) \/ Turning = {}
  /\ InReply(task[h])' => InReply(task[h]) \/ Replying = {}

\* What a handler writes into its locals, by kind of step.
LEMMA GotoFields ==
  ASSUME Tasks, NEW h \in Handlers, NEW pc, Goto(h, pc)
  PROVE  /\ \A g \in Handlers \ {h} : task'[g] = task[g]
         /\ task'[h].pc = pc
         /\ task'[h].reply = task[h].reply
         /\ task'[h].node = task[h].node /\ task'[h].print = task[h].print
         /\ task'[h].plan = task[h].plan /\ task'[h].timebox = task[h].timebox
BY DEF Tasks, Task, Goto

\* ... when it stops,
LEMMA StopFields ==
  ASSUME Tasks, NEW h \in Handlers, Stop(h)
  PROVE  /\ \A g \in Handlers \ {h} : task'[g] = task[g]
         /\ task'[h] = Idle /\ task'[h].pc = "idle" /\ task'[h].reply = FALSE
BY DEF Tasks, Stop, Idle

\* ... when its turn is decided,
LEMMA DecidedFields ==
  ASSUME Tasks, NEW h \in Handlers, NEW does, NEW target, Decided(h, does, target)
  PROVE  /\ \A g \in Handlers \ {h} : task'[g] = task[g]
         /\ task'[h].pc = "transit"
         /\ task'[h].reply = task[h].reply
BY DEF Tasks, Task, Decided

\* ... when its turn is over,
LEMMA PresentedFields ==
  ASSUME Tasks, NEW h \in Handlers, Presented(h)
  PROVE  /\ \A g \in Handlers \ {h} : task'[g] = task[g]
         /\ task'[h].pc = "attach"
         /\ task'[h].reply = task[h].reply
BY DEF Tasks, Presented, Idle

\* ... and when the refinement goes on.
LEMMA GroundFields ==
  ASSUME Tasks, NEW h \in Handlers, Ground(h)
  PROVE  /\ \A g \in Handlers \ {h} : task'[g] = task[g]
         /\ task'[h].pc = "ground"
         /\ task'[h].reply = task[h].reply
BY DEF Tasks, Task, Ground

\* A handler that stops takes no lock, nor does one that goes on to a step
\* under no lock.
LEMMA StopEnters ==
  ASSUME Tasks, NEW h \in Handlers, Stop(h) \/ Presented(h), task[h].pc # "queue"
  PROVE  Enters(h)
<1>1. CASE Stop(h)
  BY <1>1, StopFields DEF Enters, InTurn, InReply, TurnPcs
<1>2. CASE Presented(h)
  BY <1>2, PresentedFields DEF Enters, InTurn, InReply, TurnPcs
<1>. QED  BY <1>1, <1>2

\* Going on takes the turn lock only when the step is under it.
LEMMA GotoEnters ==
  ASSUME Tasks, NEW h \in Handlers, NEW pc, Goto(h, pc), task[h].pc # "queue",
         pc \in TurnPcs => InTurn(task[h]) \/ Turning = {}
  PROVE  Enters(h)
BY GotoFields DEF Enters, InTurn, InReply

\* No message takes the turn lock, or the other one before it waits.
LEMMA ReceiveEnters ==
  ASSUME Shape, NEW h \in Handlers, Receive(h)
  PROVE  Enters(h)
<1>1. CASE UserReply(h)
  BY <1>1 DEF Shape, Enters, InTurn, InReply, TurnPcs, UserReply, Arrives, session,
       Tasks, Idle
<1>2. CASE UserText(h)
  BY <1>2 DEF Shape, Enters, InTurn, InReply, TurnPcs, UserText, Arrives, session,
       Tasks, Idle
<1>3. CASE CommitDate(h)
  BY <1>3, GotoFields DEF Shape, Enters, InTurn, InReply, TurnPcs, CommitDate,
       Arrives
<1>4. CASE ClickCancel(h)
  BY <1>4 DEF Shape, Enters, InTurn, InReply, TurnPcs, ClickCancel, Arrives
<1>5. CASE ClickBack(h)
  BY <1>5, GotoFields DEF Shape, Enters, InTurn, InReply, TurnPcs, ClickBack,
       Arrives
<1>6. CASE ClickProceed(h)
  BY <1>6, GotoFields DEF Shape, Enters, InTurn, InReply, TurnPcs, ClickProceed,
       Arrives
<1>7. CASE ClickRedo(h)
  BY <1>7, GotoFields DEF Shape, Enters, InTurn, InReply, TurnPcs, ClickRedo,
       Arrives
<1>8. CASE ClickUndo(h)
  BY <1>8, GotoFields DEF Shape, Enters, InTurn, InReply, TurnPcs, ClickUndo,
       Arrives, Restore
<1>9. CASE ConfirmSubmit(h)
  <2>1. CASE Stop(h)
    BY <1>9, <2>1, StopEnters DEF Shape, ConfirmSubmit, Arrives
  <2>2. CASE Goto(h, "refresh")
    BY <1>9, <2>2, GotoEnters DEF Shape, ConfirmSubmit, Arrives, TurnPcs
  <2>. QED  BY <1>9, <2>1, <2>2 DEF ConfirmSubmit, StartSubmit
<1>10. CASE CancelSubmit(h)
  BY <1>10 DEF Shape, Enters, InTurn, InReply, TurnPcs, CancelSubmit, Arrives
<1>11. CASE UndoSubmit(h)
  BY <1>11, GotoFields DEF Shape, Enters, InTurn, InReply, TurnPcs, UndoSubmit,
       Arrives, session
<1>. QED  BY <1>1, <1>2, <1>3, <1>4, <1>5, <1>6, <1>7, <1>8, <1>9, <1>10, <1>11
       DEF Receive

\* Each step keeps the locks.
LEMMA StepEnters ==
  ASSUME Shape, NEW h \in Handlers, Step(h)
  PROVE  Enters(h)
<1>1. CASE StartReply(h)
  BY <1>1, GotoFields DEF Shape, Enters, InTurn, InReply, TurnPcs, StartReply,
       session
<1>2. CASE FirstDecision(h)
  <2>1. CASE Stop(h)
    BY <1>2, <2>1, StopEnters DEF Shape, FirstDecision
  <2>2. CASE Goto(h, "refresh")
    BY <1>2, <2>2, GotoEnters DEF Shape, FirstDecision, TurnPcs
  <2>3. ASSUME NEW first, task' = [task EXCEPT ![h].pc = "memory", ![h].first = first]
        PROVE  Enters(h)
    BY <1>2, <2>3 DEF Shape, Tasks, Task, FirstDecision, Enters, InTurn, InReply, TurnPcs
  <2>. QED  BY <1>2, <2>1, <2>2, <2>3 DEF FirstDecision, StartSubmit
<1>3. CASE MemoryReview(h)
  <2>1. CASE Stop(h)
    BY <1>3, <2>1, StopEnters DEF Shape, MemoryReview
  <2>2. CASE Goto(h, "lock")
    BY <1>3, <2>2, GotoEnters DEF Shape, MemoryReview, TurnPcs
  <2>. QED  BY <1>3, <2>1, <2>2 DEF MemoryReview
<1>4. CASE StartTurn(h)
  BY <1>4, GotoFields DEF Shape, Enters, InTurn, InReply, TurnPcs, StartTurn,
       session
<1>5. CASE TurnInit(h)
  BY <1>5, GotoFields DEF Shape, Enters, InTurn, InReply, TurnPcs, TurnInit
<1>6. CASE Decide(h)
  BY <1>6, DecidedFields DEF Shape, Enters, InTurn, InReply, TurnPcs, Decide, Idle
<1>7. CASE Transition(h)
  BY <1>7 DEF Shape, Enters, InTurn, InReply, TurnPcs, Transition, Tasks, Task, Idle
<1>8. CASE Route(h)
  BY <1>8, PresentedFields DEF Shape, Enters, InTurn, InReply, TurnPcs, Route,
       session, Tasks, Task, Idle, Node
<1>9. CASE CollectConstraints(h)
  BY <1>9, PresentedFields DEF Shape, Enters, InTurn, InReply, TurnPcs,
       CollectConstraints
<1>10. CASE CaptureInputs(h)
  BY <1>10, PresentedFields DEF Shape, Enters, InTurn, InReply, TurnPcs,
       CaptureInputs
<1>11. CASE AskDraft(h)
  BY <1>11, PresentedFields, GroundFields DEF Shape, Enters, InTurn, InReply,
       TurnPcs, AskDraft, TakeDraft, Tasks, Task, Idle
<1>12. CASE AwaitDraft(h)
  BY <1>12, GotoFields, PresentedFields, GroundFields DEF Shape, Enters, InTurn,
       InReply, TurnPcs, AwaitDraft, TakeDraft
<1>13. CASE Draft(h)
  BY <1>13, PresentedFields, GroundFields DEF Shape, Enters, InTurn, InReply,
       TurnPcs, Draft, TakeDraft
<1>14. CASE Prepare(h)
  BY <1>14 DEF Shape, Enters, InTurn, InReply, TurnPcs, Prepare, Tasks, Task, Idle
<1>15. CASE ChooseTools(h)
  BY <1>15, GotoFields, PresentedFields DEF Shape, Enters, InTurn, InReply, TurnPcs,
       ChooseTools, Tasks, Task, Idle
<1>16. CASE ApplyPatch(h)
  BY <1>16, PresentedFields DEF Shape, Enters, InTurn, InReply, TurnPcs, ApplyPatch,
       Tasks, Task, Idle
<1>17. CASE Summarise(h)
  BY <1>17, PresentedFields DEF Shape, Enters, InTurn, InReply, TurnPcs, Summarise
<1>18. CASE Attach(h)
  <2>1. CASE Stop(h)
    BY <1>18, <2>1, StopEnters DEF Shape, Attach
  <2>2. CASE Goto(h, "refresh")
    BY <1>18, <2>2, GotoEnters DEF Shape, Attach, TurnPcs
  <2>. QED  BY <1>18, <2>1, <2>2 DEF Attach
<1>19. CASE Undone(h)
  BY <1>19, StopEnters DEF Shape, Undone
<1>20. CASE Refresh(h)
  <2>1. CASE Stop(h)
    BY <1>20, <2>1, StopEnters DEF Shape, Refresh
  <2>2. CASE task' = [task EXCEPT ![h].pc = "write", ![h].plan = plan]
    BY <1>20, <2>2 DEF Shape, Tasks, Task, Refresh, Enters, InTurn, InReply, TurnPcs
  <2>. QED  BY <1>20, <2>1, <2>2 DEF Refresh
<1>21. CASE Written(h)
  BY <1>21, StopEnters DEF Shape, Written
<1>22. CASE Reverted(h)
  BY <1>22, StopEnters DEF Shape, Reverted
<1>. QED  BY <1>1, <1>2, <1>3, <1>4, <1>5, <1>6, <1>7, <1>8, <1>9, <1>10, <1>11,
       <1>12, <1>13, <1>14, <1>15, <1>16, <1>17, <1>18, <1>19, <1>20, <1>21, <1>22
       DEF Step

TypeInv ==
  /\ Shape /\ Locks
  /\ reviewed \in Valid \cup {None} /\ alone \in BOOLEAN /\ unshown \in BOOLEAN

\* A step is one of a handler, of the background draft, or of the facts.
LEMMA Kinds ==
  ASSUME Next
  PROVE  \/ \E h \in Handlers : /\ Receive(h) \/ Step(h) \/ Abort(h)
                                /\ UNCHANGED reviewed
         \/ \E h \in Handlers : ReviewCommit(h)
         \/ (PreGenerated \/ FactsChange) /\ UNCHANGED reviewed
BY DEF Next, Progress

\* What happens in the background keeps the shape.
LEMMA OthersType ==
  ASSUME Shape, PreGenerated \/ FactsChange
  PROVE  Shape' /\ UNCHANGED task
<1>1. CASE PreGenerated
  <2>1. pre' \in [print : 0..MaxFacts, plan : Drafts \cup {None}, running : BOOLEAN]
    BY <1>1 DEF Shape, Data, PreGenerated
  <2>. QED  BY <1>1, <2>1 DEF Shape, Data, Tasks, PreGenerated
<1>2. CASE FactsChange
  <2>1. facts' \in Drafts
    BY <1>2, StageAssumption DEF Shape, Data, FactsChange, Drafts
  <2>. QED  BY <1>2, <2>1 DEF Shape, Data, Tasks, FactsChange
<1>. QED  BY <1>1, <1>2

\* Who takes a lock only when it is free keeps it exclusive.
LEMMA LocksKept ==
  ASSUME Locks, NEW h \in Handlers, Enters(h)
  PROVE  Locks'
BY DEF Locks, Enters, Turning, Replying, InTurn, InReply, TurnPcs

\* So do the end of a review and the failure of a turn.
LEMMA TurnEnds ==
  ASSUME Shape, NEW h \in Handlers, ReviewCommit(h) \/ Abort(h)
  PROVE  Shape' /\ Enters(h)
<1>0. task[h].pc # "queue"
  BY DEF ReviewCommit, Abort, Turning
<1>1. CASE Presented(h)
  <2>1. Shape'
    BY <1>1, PresentedType DEF Shape, Data, ReviewCommit, Abort, session
  <2>. QED  BY <1>0, <1>1, <2>1, StopEnters DEF Shape
<1>2. CASE Stop(h) /\ Abort(h)
  <2>1. Shape'
    BY <1>2, StopType DEF Shape, Data, Abort, session
  <2>. QED  BY <1>0, <1>2, <2>1, StopEnters DEF Shape
<1>. QED  BY <1>1, <1>2 DEF ReviewCommit, Abort

\* Every step keeps types and locks.
LEMMA TypeStep ==
  ASSUME TypeInv, [Next]_vars
  PROVE  TypeInv'
<1>1. CASE UNCHANGED vars
  BY <1>1 DEF vars, session, TypeInv, Shape, Data, Tasks, Locks, InTurn, InReply
<1>2. CASE Next
  <2>1. alone' \in BOOLEAN /\ unshown' \in BOOLEAN
    BY <1>2 DEF Next, Track
  <2>2. ASSUME NEW h \in Handlers, Receive(h) \/ Step(h) \/ Abort(h), UNCHANGED reviewed
        PROVE  TypeInv'
    <3>1. Shape' /\ Enters(h)
      BY <2>2, ReceiveType, ReceiveEnters, StepType, StepEnters, TurnEnds DEF TypeInv
    <3>. QED  BY <2>1, <2>2, <3>1, LocksKept DEF TypeInv
  <2>3. ASSUME NEW h \in Handlers, ReviewCommit(h)
        PROVE  TypeInv'
    <3>1. Shape' /\ Enters(h)
      BY <2>3, TurnEnds DEF TypeInv
    <3>2. reviewed' \in Valid \cup {None}
      BY <2>3 DEF ReviewCommit, TypeInv, Shape, Tasks, Task
    <3>. QED  BY <2>1, <3>1, <3>2, LocksKept DEF TypeInv
  <2>4. ASSUME PreGenerated \/ FactsChange, UNCHANGED reviewed
        PROVE  TypeInv'
    BY <2>1, <2>4, OthersType DEF TypeInv, Locks, InTurn, InReply
  <2>. QED  BY <1>2, <2>2, <2>3, <2>4, Kinds
<1>. QED  BY <1>1, <1>2

\* They hold at the start.
LEMMA TypeInit == Init => TypeInv
<1>. SUFFICES ASSUME Init PROVE TypeInv
  OBVIOUS
<1>1. \A h \in Handlers : task[h] = Idle
  BY DEF Init
<1>2. Locks
  BY <1>1 DEF Locks, InTurn, InReply, TurnPcs, Idle
<1>3. facts \in Drafts /\ spent \in 0..MaxMessages
  BY StageAssumption DEF Init, Drafts
<1>4. pre \in [print : 0..MaxFacts, plan : Drafts \cup {None}, running : BOOLEAN]
  BY SetFacts DEF Init, Nothing
<1>5. undo \in [plan : Plans \cup {None}, timebox : Valid \cup {None}]
  BY DEF Init, NoUndo
<1>. QED  BY <1>2, <1>3, <1>4, <1>5, SetFacts, IdleTask
          DEF Init, TypeInv, Shape, Data, Tasks

\* A set without two elements has at most one.
LEMMA AtMostOne ==
  ASSUME NEW S, \A g, h \in S : g = h
  PROVE  Cardinality(S) <= 1
<1>1. CASE S = {}
  BY <1>1, FS_EmptySet
<1>2. ASSUME NEW h \in S PROVE Cardinality(S) <= 1
  <2>1. S = {h}
    OBVIOUS
  <2>. QED  BY <2>1, FS_Singleton
<1>. QED  BY <1>1, <1>2

\* They imply the type invariant that the runs check.
LEMMA TypeImplied == TypeInv => TypeOK
<1>. SUFFICES ASSUME TypeInv PROVE TypeOK
  OBVIOUS
<1>1. Cardinality(Turning) <= 1
  BY AtMostOne DEF TypeInv, Locks, InTurn, TurnPcs, Turning
<1>2. Cardinality(Replying) <= 1
  BY AtMostOne DEF TypeInv, Locks, InReply, Replying
<1>. QED  BY <1>1, <1>2 DEF TypeOK, TypeInv, Shape, Data, Tasks, Drafts

\* In every reachable state the session has its shape, one reply at most is past
\* the reply lock and one handler at most is in a turn, whatever the number of
\* handlers and messages.
THEOREM TypeCorrect == Spec => []TypeOK
<1>1. Init => TypeInv
  BY TypeInit
<1>2. TypeInv /\ [Next]_vars => TypeInv'
  BY TypeStep
<1>3. TypeInv => TypeOK
  BY TypeImplied
<1>. QED  BY <1>1, <1>2, <1>3, PTL DEF Spec

----------------------------------------------------------------------------
(* Plan and timebox *)

\* What fits a plan as its timebox.
Fits(p, t) == t # None /\ p \in Valid => t = p

\* The timebox of the session, of what undo would restore, and of what a patch
\* under way will make undo restore.
Materialised ==
  /\ Fits(plan, timebox) /\ Fits(undo.plan, undo.timebox)
  /\ plan = None => timebox = None
  /\ \A h \in Handlers : task[h].pc = "patch" => Fits(task[h].plan, task[h].timebox)

\* A step that changes no plan and at most drops the timebox.
Quiet(h) ==
  /\ UNCHANGED <<plan, undo>> /\ timebox' \in {timebox, None}
  /\ \A g \in Handlers \ {h} : task'[g] = task[g]
  /\ task'[h].pc # "patch"

\* It keeps plan and timebox together.
LEMMA QuietKeeps ==
  ASSUME Materialised, NEW h \in Handlers, Quiet(h)
  PROVE  Materialised'
BY DEF Materialised, Quiet, Fits

\* A move to another stage at most drops the timebox.
LEMMA AdvanceQuiet ==
  ASSUME NEW next, AdvanceStage(next)
  PROVE  timebox' \in {timebox, None}
BY DEF AdvanceStage

\* A draft has no timebox yet.
LEMMA TakeDraftKeeps ==
  ASSUME Shape, Materialised, NEW h \in Handlers, NEW draft \in Drafts, TakeDraft(h, draft),
         UNCHANGED undo
  PROVE  Materialised'
<1>1. task'[h].pc \in {"attach", "ground"} /\ \A g \in Handlers \ {h} : task'[g] = task[g]
  BY PresentedFields, GroundFields DEF Shape, TakeDraft
<1>. QED  BY <1>1, SetFacts DEF Materialised, Fits, TakeDraft

\* Messages leave plan and timebox together.
LEMMA ReceiveMaterialised ==
  ASSUME Shape, Materialised, NEW h \in Handlers, Receive(h)
  PROVE  Materialised'
<1>1. CASE UserReply(h)
  BY <1>1, QuietKeeps DEF Shape, Quiet, UserReply, Arrives, session, Tasks, Idle
<1>2. CASE UserText(h)
  BY <1>2, QuietKeeps DEF Shape, Quiet, UserText, Arrives, session, Tasks, Idle
<1>3. CASE CommitDate(h)
  BY <1>3, QuietKeeps, GotoFields DEF Shape, Quiet, CommitDate, Arrives
<1>4. CASE ClickCancel(h)
  BY <1>4 DEF Materialised, ClickCancel
<1>5. CASE ClickBack(h)
  BY <1>5, QuietKeeps, AdvanceQuiet, GotoFields DEF Shape, Quiet, ClickBack, Arrives
<1>6. CASE ClickProceed(h)
  <2>1. UNCHANGED task \/ Goto(h, "lock")
    BY <1>6 DEF ClickProceed
  <2>2. UNCHANGED <<plan, undo>> /\ timebox' \in {timebox, None}
    BY <1>6, AdvanceQuiet DEF ClickProceed
  <2>3. task[h].pc # "patch"
    BY <1>6 DEF ClickProceed, Arrives
  <2>. QED  BY <2>1, <2>2, <2>3, GotoFields, QuietKeeps DEF Shape, Quiet
<1>7. CASE ClickRedo(h)
  BY <1>7, QuietKeeps, GotoFields DEF Shape, Quiet, ClickRedo, Arrives
<1>8. CASE ClickUndo(h)
  <2>1. undo.plan # None /\ Restore(h)
    BY <1>8 DEF ClickUndo
  <2>2. \A g \in Handlers : task'[g].pc = "patch" => task'[g] = task[g]
    BY <1>8, <2>1, GotoFields DEF Shape, Restore
  <2>3. /\ Fits(plan', timebox') /\ Fits(undo'.plan, undo'.timebox)
        /\ plan' # None
    BY <2>1, SetFacts DEF Materialised, Fits, Restore, NoUndo
  <2>. QED  BY <2>2, <2>3 DEF Materialised
<1>9. CASE ConfirmSubmit(h)
  BY <1>9, QuietKeeps, GotoFields, StopFields DEF Shape, Quiet, ConfirmSubmit,
       Arrives, StartSubmit
<1>10. CASE CancelSubmit(h)
  BY <1>10, QuietKeeps, AdvanceQuiet DEF Quiet, CancelSubmit, Arrives
<1>11. CASE UndoSubmit(h)
  BY <1>11, QuietKeeps, GotoFields DEF Shape, Quiet, UndoSubmit, Arrives, session
<1>. QED  BY <1>1, <1>2, <1>3, <1>4, <1>5, <1>6, <1>7, <1>8, <1>9, <1>10, <1>11
       DEF Receive

\* So do the steps of a handler.
LEMMA StepMaterialised ==
  ASSUME Shape, Materialised, NEW h \in Handlers, Step(h)
  PROVE  Materialised'
<1>1. CASE StartReply(h)
  BY <1>1, QuietKeeps, GotoFields DEF Shape, Quiet, StartReply, session
<1>2. CASE FirstDecision(h)
  <2>0. UNCHANGED <<plan, undo, timebox>>
    BY <1>2 DEF FirstDecision
  <2>1. CASE Stop(h) \/ Goto(h, "refresh")
    <3>1. task'[h].pc # "patch" /\ \A g \in Handlers \ {h} : task'[g] = task[g]
      <4>1. CASE Stop(h)
        BY <4>1, StopFields DEF Shape
      <4>2. CASE Goto(h, "refresh")
        BY <4>2, GotoFields DEF Shape
      <4>. QED  BY <2>1, <4>1, <4>2
    <3>. QED  BY <2>0, <3>1, QuietKeeps DEF Quiet
  <2>2. ASSUME NEW first, task' = [task EXCEPT ![h].pc = "memory", ![h].first = first]
        PROVE  Materialised'
    BY <1>2, <2>2, QuietKeeps DEF Shape, Tasks, Task, Quiet, FirstDecision
  <2>. QED  BY <1>2, <2>1, <2>2 DEF FirstDecision, StartSubmit
<1>3. CASE MemoryReview(h)
  BY <1>3, QuietKeeps, GotoFields, StopFields DEF Shape, Quiet, MemoryReview
<1>4. CASE StartTurn(h)
  BY <1>4, QuietKeeps, GotoFields DEF Shape, Quiet, StartTurn, session
<1>5. CASE TurnInit(h)
  BY <1>5, QuietKeeps, GotoFields DEF Shape, Quiet, TurnInit
<1>6. CASE Decide(h)
  <2>1. \E does, target : Decided(h, does, target)
    BY <1>6 DEF Decide
  <2>. QED  BY <1>6, <2>1, QuietKeeps, DecidedFields DEF Shape, Quiet, Decide
<1>7. CASE Transition(h)
  <2>1. timebox' \in {timebox, None}
    BY <1>7, AdvanceQuiet DEF Transition
  <2>2. task'[h].pc = "route" /\ \A g \in Handlers \ {h} : task'[g] = task[g]
    BY <1>7 DEF Shape, Tasks, Task, Transition
  <2>. QED  BY <1>7, <2>1, <2>2, QuietKeeps DEF Quiet, Transition
<1>8. CASE Route(h)
  <2>1. task'[h].pc # "patch" /\ \A g \in Handlers \ {h} : task'[g] = task[g]
    <3>1. CASE Presented(h)
      BY <3>1, PresentedFields DEF Shape
    <3>2. CASE ~Presented(h)
      <4>1. Node[stage] \in {"collect", "capture", "draft", "review"}
        BY StageFacts DEF Shape, Data, Node, Collect, Capture, Skeleton, Refine, Review
      <4>. QED  BY <1>8, <3>2, <4>1 DEF Shape, Tasks, Task, Route
    <3>. QED  BY <3>1, <3>2
  <2>. QED  BY <1>8, <2>1, QuietKeeps DEF Quiet, Route, session
<1>9. CASE CollectConstraints(h)
  BY <1>9, QuietKeeps, PresentedFields DEF Shape, Quiet, CollectConstraints
<1>10. CASE CaptureInputs(h)
  BY <1>10, QuietKeeps, PresentedFields DEF Shape, Quiet, CaptureInputs
<1>11. CASE AskDraft(h)
  <2>1. CASE TakeDraft(h, pre.plan) /\ Usable(facts)
    BY <1>11, <2>1, TakeDraftKeeps DEF Shape, Data, AskDraft, Usable
  <2>2. CASE Ground(h) /\ UNCHANGED <<plan, timebox>>
    BY <1>11, <2>2, QuietKeeps, GroundFields DEF Shape, Quiet, AskDraft
  <2>3. ASSUME NEW pc \in {"await", "llm"},
               task' = [task EXCEPT ![h].pc = pc, ![h].print = facts],
               UNCHANGED <<plan, timebox>>
        PROVE  Materialised'
    <3>1. task'[h].pc = pc /\ \A g \in Handlers \ {h} : task'[g] = task[g]
      BY <2>3 DEF Shape, Tasks, Task
    <3>. QED  BY <1>11, <2>3, <3>1, QuietKeeps DEF Quiet, AskDraft
  <2>. QED  BY <1>11, <2>1, <2>2, <2>3 DEF AskDraft
<1>12. CASE AwaitDraft(h)
  <2>1. CASE TakeDraft(h, pre.plan) /\ Usable(task[h].print)
    BY <1>12, <2>1, TakeDraftKeeps DEF Shape, Data, AwaitDraft, Usable
  <2>2. CASE Goto(h, "llm") /\ UNCHANGED <<plan, timebox>>
    BY <1>12, <2>2, QuietKeeps, GotoFields DEF Shape, Quiet, AwaitDraft
  <2>. QED  BY <1>12, <2>1, <2>2 DEF AwaitDraft
<1>13. CASE Draft(h)
  <2>1. CASE TakeDraft(h, facts)
    BY <1>13, <2>1, TakeDraftKeeps DEF Shape, Data, Draft
  <2>2. CASE Presented(h) /\ UNCHANGED <<plan, timebox>>
    BY <1>13, <2>2, QuietKeeps, PresentedFields DEF Shape, Quiet, Draft
  <2>. QED  BY <1>13, <2>1, <2>2 DEF Draft
<1>14. CASE Prepare(h)
  <2>1. task'[h].pc = "tools" /\ \A g \in Handlers \ {h} : task'[g] = task[g]
    BY <1>14 DEF Shape, Tasks, Task, Prepare
  <2>2. Fits(plan', timebox') /\ UNCHANGED <<plan, undo>> /\ (plan = None => timebox' = None)
    BY <1>14, SetFacts DEF Materialised, Fits, Prepare
  <2>. QED  BY <2>1, <2>2 DEF Materialised, Fits
<1>15. CASE ChooseTools(h)
  <2>1. CASE task' = [task EXCEPT ![h].pc = "patch", ![h].plan = plan, ![h].timebox = timebox]
    <3>1. /\ task'[h].plan = plan /\ task'[h].timebox = timebox
          /\ \A g \in Handlers \ {h} : task'[g] = task[g]
      BY <2>1 DEF Shape, Tasks, Task
    <3>. QED  BY <1>15, <3>1 DEF Materialised, Fits, ChooseTools
  <2>2. CASE Goto(h, "summary") \/ Presented(h)
    BY <1>15, <2>2, QuietKeeps, GotoFields, PresentedFields DEF Shape, Quiet, ChooseTools
  <2>. QED  BY <1>15, <2>1, <2>2 DEF ChooseTools
<1>16. CASE ApplyPatch(h)
  <2>1. CASE Presented(h) /\ UNCHANGED <<plan, timebox, undo>>
    BY <1>16, <2>1, QuietKeeps, PresentedFields DEF Shape, Quiet
  <2>2. ASSUME NEW p \in Patches, plan' = p, timebox' = p,
               undo' = IF p = task[h].plan THEN NoUndo
                       ELSE [plan |-> task[h].plan, timebox |-> task[h].timebox],
               task' = [task EXCEPT ![h].pc = "summary", ![h].plan = None, ![h].timebox = None]
        PROVE  Materialised'
    <3>1. task'[h].pc = "summary" /\ \A g \in Handlers \ {h} : task'[g] = task[g]
      BY <2>2 DEF Shape, Tasks, Task
    <3>2. Fits(undo'.plan, undo'.timebox)
      BY <1>16, <2>2 DEF Materialised, Fits, NoUndo, ApplyPatch
    <3>. QED  BY <2>2, <3>1, <3>2, SetFacts DEF Materialised, Fits
  <2>. QED  BY <1>16, <2>1, <2>2 DEF ApplyPatch
<1>17. CASE Summarise(h)
  BY <1>17, QuietKeeps, PresentedFields DEF Shape, Quiet, Summarise
<1>18. CASE Attach(h)
  <2>1. task'[h].pc # "patch" /\ \A g \in Handlers \ {h} : task'[g] = task[g]
    <3>1. CASE Stop(h)
      BY <3>1, StopFields DEF Shape
    <3>2. CASE Goto(h, "refresh")
      BY <3>2, GotoFields DEF Shape
    <3>. QED  BY <1>18, <3>1, <3>2 DEF Attach
  <2>. QED  BY <1>18, <2>1, QuietKeeps DEF Quiet, Attach
<1>19. CASE Undone(h)
  BY <1>19, QuietKeeps, StopFields DEF Shape, Quiet, Undone
<1>20. CASE Refresh(h)
  <2>1. task'[h].pc # "patch" /\ \A g \in Handlers \ {h} : task'[g] = task[g]
    <3>1. CASE Stop(h)
      BY <3>1, StopFields DEF Shape
    <3>2. CASE task' = [task EXCEPT ![h].pc = "write", ![h].plan = plan]
      BY <3>2 DEF Shape, Tasks, Task
    <3>. QED  BY <1>20, <3>1, <3>2 DEF Refresh
  <2>. QED  BY <1>20, <2>1, QuietKeeps DEF Quiet, Refresh
<1>21. CASE Written(h)
  BY <1>21, QuietKeeps, StopFields DEF Shape, Quiet, Written
<1>22. CASE Reverted(h)
  <2>1. Fits(plan', timebox') /\ (plan' = None => timebox' = None) /\ UNCHANGED undo
    BY <1>22, SetFacts, AdvanceQuiet DEF Materialised, Fits, Reverted
  <2>. QED  BY <1>22, <2>1, StopFields DEF Shape, Materialised, Fits, Reverted
<1>. QED  BY <1>1, <1>2, <1>3, <1>4, <1>5, <1>6, <1>7, <1>8, <1>9, <1>10, <1>11,
       <1>12, <1>13, <1>14, <1>15, <1>16, <1>17, <1>18, <1>19, <1>20, <1>21, <1>22
       DEF Step

\* Every step keeps plan and timebox together.
LEMMA MaterialisedStep ==
  ASSUME TypeInv, Materialised, [Next]_vars
  PROVE  Materialised'
<1>1. CASE UNCHANGED vars
  BY <1>1 DEF vars, session, Materialised, Fits
<1>2. ASSUME NEW h \in Handlers, Receive(h) \/ Step(h)
      PROVE  Materialised'
  BY <1>2, ReceiveMaterialised, StepMaterialised DEF TypeInv
<1>3. ASSUME NEW h \in Handlers, ReviewCommit(h) \/ Abort(h)
      PROVE  Materialised'
  <2>1. CASE Presented(h)
    BY <1>3, <2>1, QuietKeeps, PresentedFields DEF TypeInv, Shape, Quiet, ReviewCommit, Abort, session
  <2>2. CASE Stop(h)
    BY <1>3, <2>2, QuietKeeps, StopFields DEF TypeInv, Shape, Quiet, ReviewCommit, Abort, session
  <2>. QED  BY <1>3, <2>1, <2>2 DEF ReviewCommit, Abort
<1>4. CASE PreGenerated \/ FactsChange
  BY <1>4 DEF PreGenerated, FactsChange, Materialised, Fits
<1>. QED  BY <1>1, <1>2, <1>3, <1>4, Kinds

\* Whatever buttons are pressed while turns run, the timebox of the review is the
\* plan that a submission writes, if that plan converts to a timebox.
THEOREM MaterialisedCorrect == Spec => []PlanIsMaterialised
<1>1. Init => TypeInv /\ Materialised
  BY TypeInit, SetFacts DEF Init, Materialised, Fits, NoUndo, Idle
<1>2. TypeInv /\ Materialised /\ [Next]_vars => (TypeInv /\ Materialised)'
  BY TypeStep, MaterialisedStep
<1>3. Materialised => PlanIsMaterialised
  BY DEF Materialised, Fits, PlanIsMaterialised
<1>. QED  BY <1>1, <1>2, <1>3, PTL DEF Spec

----------------------------------------------------------------------------
(* The skeleton drafted ahead *)

\* No draft is older than the facts it is said to be of, and no such facts are
\* still to come.
Prints ==
  /\ pre.print <= facts
  /\ pre.plan # None => pre.plan >= pre.print
  /\ \A h \in Handlers : task[h].pc \in {"await", "llm"} => task[h].print <= facts

\* A step of a handler that leaves the draft made ahead alone, or gives it up.
Prudent(h) ==
  /\ facts' >= facts /\ facts' \in Drafts
  /\ pre' = pre \/ pre' = [pre EXCEPT !.print = 0, !.running = FALSE]
  /\ \A g \in Handlers \ {h} : task'[g] = task[g]
  /\ task'[h].pc \notin {"await", "llm"}

\* Drafts are ordered by the facts they are of.
LEMMA DraftsAreNumbers == Drafts \subseteq Nat /\ 0..MaxFacts \subseteq Nat /\ None = 0
BY StageAssumption DEF Drafts, None

\* It keeps drafts no older than their facts.
LEMMA PrudentKeeps ==
  ASSUME Shape, Prints, NEW h \in Handlers, Prudent(h)
  PROVE  Prints'
<1>1. /\ facts \in Nat /\ facts' \in Nat /\ pre.print \in Nat
      /\ pre.plan \in Nat
      /\ \A g \in Handlers : task[g].print \in Nat
  BY DraftsAreNumbers DEF Shape, Data, Tasks, Task, Prudent
<1>2. pre'.print <= facts' /\ (pre'.plan # None => pre'.plan >= pre'.print)
  <2>1. CASE pre' = pre
    BY <1>1, <2>1 DEF Prints, Prudent
  <2>2. CASE pre' = [pre EXCEPT !.print = 0, !.running = FALSE]
    <3>1. pre'.print = 0 /\ pre'.plan = pre.plan
      BY <2>2 DEF Shape, Data
    <3>. QED  BY <1>1, <3>1
  <2>. QED  BY <2>1, <2>2 DEF Prudent
<1>3. ASSUME NEW g \in Handlers, task'[g].pc \in {"await", "llm"}
      PROVE  task'[g].print <= facts'
  BY <1>1, <1>3 DEF Prints, Prudent
<1>. QED  BY <1>2, <1>3 DEF Prints

\* A move to another stage at most gives the draft made ahead up.
LEMMA AdvancePrudent ==
  ASSUME NEW next, AdvanceStage(next)
  PROVE  pre' = pre \/ pre' = [pre EXCEPT !.print = 0, !.running = FALSE]
BY DEF AdvanceStage

\* Facts that stay are not older.
LEMMA NoFacts ==
  ASSUME Shape, UNCHANGED facts
  PROVE  facts' \in Drafts /\ facts' >= facts
BY DraftsAreNumbers DEF Shape, Data

\* A draft that is taken is gone.
LEMMA TakeDraftPrints ==
  ASSUME Shape, Prints, NEW h \in Handlers, NEW draft, TakeDraft(h, draft), UNCHANGED facts,
         \/ pre' = [pre EXCEPT !.plan = None]
         \/ pre' = [pre EXCEPT !.plan = None, !.running = FALSE]
  PROVE  Prints'
<1>1. task'[h].pc \in {"attach", "ground"} /\ \A g \in Handlers \ {h} : task'[g] = task[g]
  BY PresentedFields, GroundFields DEF Shape, TakeDraft
<1>2. pre'.print = pre.print /\ pre'.plan = None
  BY DEF Shape, Data
<1>. QED  BY <1>1, <1>2 DEF Prints

\* Messages leave the draft made ahead what it is.
LEMMA ReceivePrints ==
  ASSUME Shape, Prints, NEW h \in Handlers, Receive(h)
  PROVE  Prints'
<1>1. CASE UserReply(h)
  BY <1>1, PrudentKeeps, NoFacts DEF Shape, Prudent, UserReply, Arrives, session,
       Tasks, Idle
<1>2. CASE UserText(h)
  BY <1>2, PrudentKeeps, NoFacts DEF Shape, Prudent, UserText, Arrives, session,
       Tasks, Idle
<1>3. CASE CommitDate(h)
  BY <1>3, PrudentKeeps, FactsType, GotoFields DEF Shape, Prudent, CommitDate,
       Arrives
<1>4. CASE ClickCancel(h)
  BY <1>4, PrudentKeeps, NoFacts DEF Shape, Prudent, ClickCancel, Arrives
<1>5. CASE ClickBack(h)
  BY <1>5, PrudentKeeps, AdvancePrudent, NoFacts, GotoFields DEF Shape, Prudent,
       ClickBack, Arrives
<1>6. CASE ClickProceed(h)
  <2>1. UNCHANGED task \/ Goto(h, "lock")
    BY <1>6 DEF ClickProceed
  <2>2. /\ task[h].pc = "idle" /\ UNCHANGED facts
        /\ pre' = pre \/ pre' = [pre EXCEPT !.print = 0, !.running = FALSE]
    BY <1>6, AdvancePrudent DEF ClickProceed, Arrives
  <2>. QED  BY <2>1, <2>2, GotoFields, NoFacts, PrudentKeeps DEF Shape, Prudent
<1>7. CASE ClickRedo(h)
  BY <1>7, PrudentKeeps, NoFacts, GotoFields DEF Shape, Prudent, ClickRedo, Arrives
<1>8. CASE ClickUndo(h)
  <2>1. UNCHANGED task \/ Goto(h, "undo")
    BY <1>8 DEF ClickUndo, Restore
  <2>2. task[h].pc = "idle" /\ UNCHANGED <<facts, pre>>
    BY <1>8 DEF ClickUndo, Arrives
  <2>. QED  BY <2>1, <2>2, GotoFields, NoFacts, PrudentKeeps DEF Shape, Prudent
<1>9. CASE ConfirmSubmit(h)
  <2>1. UNCHANGED <<facts, pre>>
    BY <1>9 DEF ConfirmSubmit
  <2>2. CASE Stop(h)
    BY <2>1, <2>2, StopFields, NoFacts, PrudentKeeps DEF Shape, Prudent
  <2>3. CASE Goto(h, "refresh")
    BY <2>1, <2>3, GotoFields, NoFacts, PrudentKeeps DEF Shape, Prudent
  <2>. QED  BY <1>9, <2>2, <2>3 DEF ConfirmSubmit, StartSubmit
<1>10. CASE CancelSubmit(h)
  BY <1>10, PrudentKeeps, AdvancePrudent, NoFacts DEF Shape, Prudent, CancelSubmit,
       Arrives
<1>11. CASE UndoSubmit(h)
  BY <1>11, PrudentKeeps, NoFacts, GotoFields DEF Shape, Prudent, UndoSubmit,
       Arrives, session
<1>. QED  BY <1>1, <1>2, <1>3, <1>4, <1>5, <1>6, <1>7, <1>8, <1>9, <1>10, <1>11
       DEF Receive

\* So do the steps of a handler.
LEMMA StepPrints ==
  ASSUME Shape, Prints, NEW h \in Handlers, Step(h)
  PROVE  Prints'
<1>1. CASE StartReply(h)
  BY <1>1, PrudentKeeps, NoFacts, GotoFields DEF Shape, Prudent, StartReply, session
<1>2. CASE FirstDecision(h)
  <2>0. UNCHANGED <<facts, pre>>
    BY <1>2 DEF FirstDecision
  <2>1. task'[h].pc \notin {"await", "llm"} /\ \A g \in Handlers \ {h} : task'[g] = task[g]
    <3>1. CASE Stop(h)
      BY <3>1, StopFields DEF Shape
    <3>2. CASE Goto(h, "refresh")
      BY <3>2, GotoFields DEF Shape
    <3>3. ASSUME NEW first, task' = [task EXCEPT ![h].pc = "memory", ![h].first = first]
          PROVE  task'[h].pc = "memory" /\ \A g \in Handlers \ {h} : task'[g] = task[g]
      BY <3>3 DEF Shape, Tasks, Task
    <3>. QED  BY <1>2, <3>1, <3>2, <3>3 DEF FirstDecision, StartSubmit
  <2>. QED  BY <2>0, <2>1, NoFacts, PrudentKeeps DEF Prudent
<1>3. CASE MemoryReview(h)
  <2>1. UNCHANGED <<facts, pre>>
    BY <1>3 DEF MemoryReview
  <2>2. CASE Stop(h)
    BY <2>1, <2>2, StopFields, NoFacts, PrudentKeeps DEF Shape, Prudent
  <2>3. CASE Goto(h, "lock")
    BY <2>1, <2>3, GotoFields, NoFacts, PrudentKeeps DEF Shape, Prudent
  <2>. QED  BY <1>3, <2>2, <2>3 DEF MemoryReview
<1>4. CASE StartTurn(h)
  BY <1>4, PrudentKeeps, NoFacts, GotoFields DEF Shape, Prudent, StartTurn, session
<1>5. CASE TurnInit(h)
  BY <1>5, PrudentKeeps, FactsType, GotoFields DEF Shape, Prudent, TurnInit
<1>6. CASE Decide(h)
  <2>1. \E does, target : Decided(h, does, target)
    BY <1>6 DEF Decide
  <2>. QED  BY <1>6, <2>1, NoFacts, PrudentKeeps, DecidedFields DEF Shape, Prudent, Decide
<1>7. CASE Transition(h)
  <2>1. pre' = pre \/ pre' = [pre EXCEPT !.print = 0, !.running = FALSE]
    BY <1>7, AdvancePrudent DEF Transition
  <2>2. task'[h].pc = "route" /\ \A g \in Handlers \ {h} : task'[g] = task[g]
    BY <1>7 DEF Shape, Tasks, Task, Transition
  <2>. QED  BY <1>7, <2>1, <2>2, NoFacts, PrudentKeeps DEF Prudent, Transition
<1>8. CASE Route(h)
  <2>1. task'[h].pc \notin {"await", "llm"} /\ \A g \in Handlers \ {h} : task'[g] = task[g]
    <3>1. CASE Presented(h)
      BY <3>1, PresentedFields DEF Shape
    <3>2. CASE ~Presented(h)
      <4>1. Node[stage] \in {"collect", "capture", "draft", "review"}
        BY StageFacts DEF Shape, Data, Node, Collect, Capture, Skeleton, Refine, Review
      <4>. QED  BY <1>8, <3>2, <4>1 DEF Shape, Tasks, Task, Route
    <3>. QED  BY <3>1, <3>2
  <2>. QED  BY <1>8, <2>1, NoFacts, PrudentKeeps DEF Prudent, Route, session
<1>9. CASE CollectConstraints(h)
  BY <1>9, PrudentKeeps, FactsType, PresentedFields DEF Shape, Prudent,
       CollectConstraints
<1>10. CASE CaptureInputs(h)
  <2>1. facts' \in Drafts /\ facts' >= facts /\ facts' \in Nat /\ facts \in Nat
    BY <1>10, FactsType, DraftsAreNumbers DEF Shape, Data, CaptureInputs
  <2>2. task'[h].pc = "attach" /\ \A g \in Handlers \ {h} : task'[g] = task[g]
    BY <1>10, PresentedFields DEF Shape, CaptureInputs
  <2>3. CASE UNCHANGED pre
    BY <2>1, <2>2, <2>3, PrudentKeeps DEF Prudent
  <2>4. CASE pre' = [print |-> facts', plan |-> None, running |-> TRUE]
    <3>1. \A g \in Handlers : task[g].print \in Nat
      BY DraftsAreNumbers DEF Shape, Tasks, Task
    <3>. QED  BY <2>1, <2>2, <2>4, <3>1 DEF Prints
  <2>. QED  BY <1>10, <2>3, <2>4 DEF CaptureInputs, PreGenerate
<1>11. CASE AskDraft(h)
  <2>1. CASE Usable(facts) /\ TakeDraft(h, pre.plan) /\ pre' = [pre EXCEPT !.plan = None]
    BY <1>11, <2>1, TakeDraftPrints DEF Shape, AskDraft
  <2>2. CASE Ground(h) /\ UNCHANGED pre
    BY <1>11, <2>2, NoFacts, PrudentKeeps, GroundFields DEF Shape, Prudent, AskDraft
  <2>3. ASSUME NEW pc \in {"await", "llm"},
               task' = [task EXCEPT ![h].pc = pc, ![h].print = facts],
               UNCHANGED pre
        PROVE  Prints'
    <3>1. task'[h].print = facts /\ \A g \in Handlers \ {h} : task'[g] = task[g]
      BY <2>3 DEF Shape, Tasks, Task
    <3>2. facts \in Nat
      BY DraftsAreNumbers DEF Shape, Data
    <3>3. UNCHANGED facts
      BY <1>11 DEF AskDraft
    <3>4. ASSUME NEW g \in Handlers, task'[g].pc \in {"await", "llm"}
          PROVE  task'[g].print <= facts'
      BY <3>1, <3>2, <3>3, <3>4 DEF Prints
    <3>. QED  BY <2>3, <3>3, <3>4 DEF Prints
  <2>. QED  BY <1>11, <2>1, <2>2, <2>3 DEF AskDraft
<1>12. CASE AwaitDraft(h)
  <2>1. CASE TakeDraft(h, pre.plan) /\ pre' = [pre EXCEPT !.plan = None, !.running = FALSE]
    BY <1>12, <2>1, TakeDraftPrints DEF Shape, AwaitDraft
  <2>2. CASE Goto(h, "llm") /\ UNCHANGED pre
    BY <1>12, <2>2, GotoFields DEF Shape, Prints, AwaitDraft
  <2>. QED  BY <1>12, <2>1, <2>2 DEF AwaitDraft
<1>13. CASE Draft(h)
  <2>1. task'[h].pc \notin {"await", "llm"} /\ \A g \in Handlers \ {h} : task'[g] = task[g]
    BY <1>13, PresentedFields, GroundFields DEF Shape, Draft, TakeDraft
  <2>. QED  BY <1>13, <2>1, NoFacts, PrudentKeeps DEF Prudent, Draft
<1>14. CASE Prepare(h)
  <2>1. task'[h].pc = "tools" /\ \A g \in Handlers \ {h} : task'[g] = task[g]
    BY <1>14 DEF Shape, Tasks, Task, Prepare
  <2>. QED  BY <1>14, <2>1, NoFacts, PrudentKeeps DEF Prudent, Prepare
<1>15. CASE ChooseTools(h)
  <2>1. task'[h].pc \notin {"await", "llm"} /\ \A g \in Handlers \ {h} : task'[g] = task[g]
    <3>1. CASE task' = [task EXCEPT ![h].pc = "patch", ![h].plan = plan, ![h].timebox = timebox]
      BY <3>1 DEF Shape, Tasks, Task
    <3>2. CASE Goto(h, "summary") \/ Presented(h)
      BY <3>2, GotoFields, PresentedFields DEF Shape
    <3>. QED  BY <1>15, <3>1, <3>2 DEF ChooseTools
  <2>. QED  BY <1>15, <2>1, NoFacts, PrudentKeeps DEF Prudent, ChooseTools
<1>16. CASE ApplyPatch(h)
  <2>1. task'[h].pc \notin {"await", "llm"} /\ \A g \in Handlers \ {h} : task'[g] = task[g]
    <3>1. CASE task' = [task EXCEPT ![h].pc = "summary", ![h].plan = None,
                                    ![h].timebox = None]
      BY <3>1 DEF Shape, Tasks, Task
    <3>2. CASE Presented(h)
      BY <3>2, PresentedFields DEF Shape
    <3>. QED  BY <1>16, <3>1, <3>2 DEF ApplyPatch
  <2>. QED  BY <1>16, <2>1, NoFacts, PrudentKeeps DEF Prudent, ApplyPatch
<1>17. CASE Summarise(h)
  BY <1>17, PrudentKeeps, NoFacts, PresentedFields DEF Shape, Prudent, Summarise
<1>18. CASE Attach(h)
  <2>1. task'[h].pc \notin {"await", "llm"} /\ \A g \in Handlers \ {h} : task'[g] = task[g]
    <3>1. CASE Stop(h)
      BY <3>1, StopFields DEF Shape
    <3>2. CASE Goto(h, "refresh")
      BY <3>2, GotoFields DEF Shape
    <3>. QED  BY <1>18, <3>1, <3>2 DEF Attach
  <2>. QED  BY <1>18, <2>1, NoFacts, PrudentKeeps DEF Prudent, Attach
<1>19. CASE Undone(h)
  BY <1>19, PrudentKeeps, NoFacts, StopFields DEF Shape, Prudent, Undone
<1>20. CASE Refresh(h)
  <2>1. task'[h].pc \notin {"await", "llm"} /\ \A g \in Handlers \ {h} : task'[g] = task[g]
    <3>1. CASE Stop(h)
      BY <3>1, StopFields DEF Shape
    <3>2. CASE task' = [task EXCEPT ![h].pc = "write", ![h].plan = plan]
      BY <3>2 DEF Shape, Tasks, Task
    <3>. QED  BY <1>20, <3>1, <3>2 DEF Refresh
  <2>. QED  BY <1>20, <2>1, NoFacts, PrudentKeeps DEF Prudent, Refresh
<1>21. CASE Written(h)
  BY <1>21, PrudentKeeps, NoFacts, StopFields DEF Shape, Prudent, Written
<1>22. CASE Reverted(h)
  <2>1. pre' = pre \/ pre' = [pre EXCEPT !.print = 0, !.running = FALSE]
    BY <1>22, AdvancePrudent DEF Reverted
  <2>2. task'[h].pc = "idle" /\ \A g \in Handlers \ {h} : task'[g] = task[g]
    BY <1>22, StopFields DEF Shape, Reverted
  <2>. QED  BY <1>22, <2>1, <2>2, NoFacts, PrudentKeeps DEF Prudent, Reverted
<1>. QED  BY <1>1, <1>2, <1>3, <1>4, <1>5, <1>6, <1>7, <1>8, <1>9, <1>10, <1>11,
       <1>12, <1>13, <1>14, <1>15, <1>16, <1>17, <1>18, <1>19, <1>20, <1>21, <1>22
       DEF Step

\* Every step keeps drafts no older than their facts.
LEMMA PrintsStep ==
  ASSUME TypeInv, Prints, [Next]_vars
  PROVE  Prints'
<1>. USE DEF TypeInv
<1>1. CASE UNCHANGED vars
  BY <1>1 DEF vars, session, Prints
<1>2. ASSUME NEW h \in Handlers, Receive(h) \/ Step(h)
      PROVE  Prints'
  BY <1>2, ReceivePrints, StepPrints
<1>3. ASSUME NEW h \in Handlers, ReviewCommit(h) \/ Abort(h)
      PROVE  Prints'
  <2>1. task'[h].pc \notin {"await", "llm"} /\ \A g \in Handlers \ {h} : task'[g] = task[g]
    BY <1>3, PresentedFields, StopFields DEF Shape, ReviewCommit, Abort
  <2>. QED  BY <1>3, <2>1, NoFacts, PrudentKeeps DEF Prudent, ReviewCommit, Abort, session
<1>4. CASE PreGenerated
  <2>1. /\ pre'.print = pre.print /\ UNCHANGED <<facts, task>>
        /\ pre'.plan = pre.plan \/ pre'.plan = facts
    BY <1>4 DEF Shape, Data, PreGenerated
  <2>. QED  BY <2>1, DraftsAreNumbers DEF Prints, Shape, Data
<1>5. CASE FactsChange
  <2>1. facts \in Nat /\ pre.print \in Nat /\ \A g \in Handlers : task[g].print \in Nat
    BY DraftsAreNumbers DEF Shape, Data, Tasks, Task
  <2>. QED  BY <1>5, <2>1 DEF FactsChange, Prints
<1>. QED  BY <1>1, <1>2, <1>3, <1>4, <1>5, Kinds

\* The handlers that look for a draft do nothing else.
LEMMA DraftSteps ==
  ASSUME TypeInv, Next, NEW h \in Handlers,
         task[h].pc \in {"draft", "await", "llm"}, task'[h] # task[h]
  PROVE  AskDraft(h) \/ AwaitDraft(h) \/ Draft(h) \/ (Abort(h) /\ UNCHANGED session)
<1>1. ASSUME NEW g \in Handlers, Receive(g) \/ Step(g) \/ ReviewCommit(g) \/ Abort(g)
      PROVE  g = h
  BY <1>1, ReceiveEnters, StepEnters, TurnEnds DEF TypeInv, Enters
<1>2. ~Receive(h)
  BY DEF Receive, UserReply, UserText, CommitDate, ClickCancel, ClickBack, ClickProceed,
         ClickRedo, ClickUndo, ConfirmSubmit, CancelSubmit, UndoSubmit, Arrives
<1>3. Step(h) => AskDraft(h) \/ AwaitDraft(h) \/ Draft(h)
  BY DEF Step, StartReply, FirstDecision, MemoryReview, StartTurn, TurnInit, Decide,
         Transition, Route, CollectConstraints, CaptureInputs, Prepare, ChooseTools,
         ApplyPatch, Summarise, Attach, Undone, Refresh, Written, Reverted
<1>4. ~ReviewCommit(h)
  BY DEF ReviewCommit
<1>5. ~(PreGenerated \/ FactsChange)
  BY OthersType DEF TypeInv
<1>6. Abort(h) => UNCHANGED session
  BY DEF Abort
<1>. QED  BY <1>1, <1>2, <1>3, <1>4, <1>5, <1>6, Kinds

\* A handler takes no draft of facts older than those it found.
LEMMA DraftNotOlderStep ==
  ASSUME TypeInv, Materialised, Prints, Next, NEW h \in Handlers,
         task[h].pc \in {"draft", "await", "llm"}, task'[h] # task[h],
         plan' # plan \/ (task[h].node = Refine /\ task'[h].pc = "ground" /\ plan = None)
  PROVE  plan' >= IF task[h].pc = "draft" THEN facts ELSE task[h].print
<1>1. /\ facts \in Nat /\ pre.print \in Nat /\ pre.plan \in Nat
      /\ task[h].print \in Nat
  <2>1. facts \in Drafts /\ pre.print \in 0..MaxFacts /\ pre.plan \in Drafts \cup {None}
    BY DEF TypeInv, Shape, Data
  <2>2. task[h].print \in 0..MaxFacts
    BY DEF TypeInv, Shape, Tasks, Task
  <2>3. pre.plan \in Nat
    <3>1. CASE pre.plan \in Drafts
      BY <3>1, DraftsAreNumbers
    <3>2. CASE pre.plan = None
      BY <3>2, DraftsAreNumbers
    <3>. QED  BY <2>1, <3>1, <3>2
  <2>4. facts \in Nat /\ pre.print \in Nat
    BY <2>1, DraftsAreNumbers
  <2>5. task[h].print \in Nat
    BY <2>2, DraftsAreNumbers
  <2>. QED  BY <2>3, <2>4, <2>5
<1>2. CASE AskDraft(h)
  <2>1. CASE TakeDraft(h, pre.plan) /\ Usable(facts)
    BY <1>1, <1>2, <2>1 DEF Prints, Usable, TakeDraft, AskDraft
  <2>2. CASE task[h].node = Refine /\ ~(timebox = None /\ plan = None) /\ UNCHANGED plan
    BY <2>2 DEF Materialised
  <2>3. ASSUME NEW pc \in {"await", "llm"},
               task' = [task EXCEPT ![h].pc = pc, ![h].print = facts], UNCHANGED plan
        PROVE  FALSE
    BY <2>3 DEF TypeInv, Shape, Tasks, Task
  <2>. QED  BY <1>2, <2>1, <2>2, <2>3 DEF AskDraft
<1>3. CASE AwaitDraft(h)
  <2>1. CASE TakeDraft(h, pre.plan) /\ Usable(task[h].print)
    BY <1>1, <1>3, <2>1 DEF Prints, Usable, TakeDraft, AwaitDraft
  <2>2. CASE Goto(h, "llm") /\ UNCHANGED plan
    BY <2>2, GotoFields DEF TypeInv, Shape
  <2>. QED  BY <1>3, <2>1, <2>2 DEF AwaitDraft
<1>4. CASE Draft(h)
  <2>1. CASE TakeDraft(h, facts)
    BY <1>1, <1>4, <2>1 DEF Prints, TakeDraft, Draft
  <2>2. CASE Presented(h) /\ UNCHANGED plan
    BY <2>2, PresentedFields DEF TypeInv, Shape
  <2>. QED  BY <1>4, <2>1, <2>2 DEF Draft
<1>5. CASE Abort(h) /\ UNCHANGED session
  <2>1. task'[h].pc # "ground"
    BY <1>5, PresentedFields, StopFields DEF TypeInv, Shape, Abort
  <2>. QED  BY <1>5, <2>1 DEF session
<1>. QED  BY <1>2, <1>3, <1>4, <1>5, DraftSteps

\* A draft taken from the background, or made for want of one, is of facts no older
\* than those the node found when it asked, whatever changes them meanwhile.
THEOREM DraftsCorrect == Spec => DraftNotOlder
<1>1. Init => TypeInv /\ Materialised /\ Prints
  <2>1. Init => Prints
    BY DraftsAreNumbers DEF Init, Prints, Nothing, Idle
  <2>2. Init => Materialised
    BY SetFacts DEF Init, Materialised, Fits, NoUndo, Idle
  <2>. QED  BY <2>1, <2>2, TypeInit
<1>2. TypeInv /\ Materialised /\ Prints /\ [Next]_vars => (TypeInv /\ Materialised /\ Prints)'
  BY TypeStep, MaterialisedStep, PrintsStep
<1>3. TypeInv /\ Materialised /\ Prints /\ [Next]_vars
        => [\A h \in Handlers :
              /\ task[h].pc \in {"draft", "await", "llm"}
              /\ plan' # plan \/ (task[h].node = Refine /\ task'[h].pc = "ground" /\ plan = None)
              /\ task'[h] # task[h]
              => plan' >= IF task[h].pc = "draft" THEN facts ELSE task[h].print]_vars
  BY DraftNotOlderStep
<1>. QED  BY <1>1, <1>2, <1>3, PTL DEF Spec, DraftNotOlder

----------------------------------------------------------------------------
(* What is submitted was reviewed *)

\* A plan that does not convert has a timebox only after an undo.
Marked ==
  /\ unshown => plan \notin Valid
  /\ plan \notin Valid /\ timebox # None => unshown

\* Another step leaves plan and timebox, or the plan converts or has no timebox.
LEMMA PlanMoves ==
  ASSUME Next, ~Undoes
  PROVE  plan' \in Valid \/ timebox' = None \/ UNCHANGED <<plan, timebox>>
<1> DEFINE Moved == plan' \in Valid \/ timebox' = None \/ UNCHANGED <<plan, timebox>>
<1>1. \A next : AdvanceStage(next) => timebox' \in {timebox, None}
  BY AdvanceQuiet
<1>2. ASSUME NEW h \in Handlers, Receive(h) PROVE Moved
  <2>1. ~ClickUndo(h)
    BY DEF Undoes
  <2>2. CASE \/ UserReply(h) \/ UserText(h) \/ CommitDate(h) \/ ClickCancel(h)
             \/ ClickRedo(h) \/ ConfirmSubmit(h) \/ UndoSubmit(h)
    BY <2>2 DEF UserReply, UserText, CommitDate, ClickCancel, ClickRedo, ConfirmSubmit,
                UndoSubmit, session
  <2>3. CASE ClickBack(h) \/ ClickProceed(h) \/ CancelSubmit(h)
    BY <1>1, <2>3 DEF ClickBack, ClickProceed, CancelSubmit
  <2>. QED  BY <1>2, <2>1, <2>2, <2>3 DEF Receive
<1>3. ASSUME NEW h \in Handlers, Step(h) PROVE Moved
  <2>1. ~Reverted(h)
    BY DEF Undoes
  <2>2. CASE \/ StartReply(h) \/ FirstDecision(h) \/ MemoryReview(h) \/ StartTurn(h)
             \/ TurnInit(h) \/ Decide(h) \/ Route(h) \/ CollectConstraints(h)
             \/ CaptureInputs(h) \/ ChooseTools(h) \/ Summarise(h) \/ Attach(h)
             \/ Undone(h) \/ Refresh(h) \/ Written(h)
    BY <2>2 DEF StartReply, FirstDecision, MemoryReview, StartTurn, TurnInit, Decide, Route,
                CollectConstraints, CaptureInputs, ChooseTools, Summarise, Attach, Undone,
                Refresh, Written, session
  <2>3. CASE Transition(h)
    BY <1>1, <2>3 DEF Transition
  <2>4. CASE AskDraft(h) \/ AwaitDraft(h) \/ Draft(h)
    BY <2>4 DEF AskDraft, AwaitDraft, Draft, TakeDraft
  <2>5. CASE Prepare(h)
    BY <2>5 DEF Prepare
  <2>6. CASE ApplyPatch(h)
    <3>1. Patches \subseteq Valid
      BY SetFacts
    <3>. QED  BY <2>6, <3>1 DEF ApplyPatch
  <2>. QED  BY <1>3, <2>1, <2>2, <2>3, <2>4, <2>5, <2>6 DEF Step
<1>4. ASSUME NEW h \in Handlers, ReviewCommit(h) \/ Abort(h) PROVE Moved
  BY <1>4 DEF ReviewCommit, Abort, session
<1>5. CASE PreGenerated \/ FactsChange
  BY <1>5 DEF PreGenerated, FactsChange
<1>. QED  BY <1>2, <1>3, <1>4, <1>5, Kinds

\* The mark stays with plan and timebox, and is set by an undo.
Marks ==
  /\ unshown /\ UNCHANGED <<plan, timebox>> => unshown'
  /\ Undoes /\ plan' \notin Valid => unshown'

LEMMA MarkedStep ==
  ASSUME Marked, [Next]_vars
  PROVE  Marked' /\ (Next => Marks)
<1>1. CASE UNCHANGED vars /\ ~Next
  BY <1>1 DEF vars, session, Marked
<1>2. CASE Next
  <2>1. unshown' = (/\ plan' \notin Valid
                    /\ Undoes \/ (unshown /\ UNCHANGED <<plan, timebox>>))
    BY <1>2 DEF Next, Track
  <2>2. Marks
    BY <2>1 DEF Marks, Marked
  <2>3. Undoes \/ plan' \in Valid \/ timebox' = None \/ UNCHANGED <<plan, timebox>>
    BY <1>2, PlanMoves
  <2>4. Marked'
    BY <2>1, <2>3 DEF Marked
  <2>. QED  BY <2>2, <2>4
<1>. QED  BY <1>1, <1>2

\* The review showed the plan, or the plan is one that an undo brought back.
Shown == reviewed = plan \/ unshown

\* What may be submitted, or is ready to be, has been reviewed.
Safe ==
  /\ pending => stage = Review
  /\ stage = Review /\ (ready \/ pending) => Shown

\* A handler in a node or in an undo is not in the review; one in the review shows
\* the timebox; one that submits has a plan that was reviewed.
At(t) ==
  /\ t.pc \in {"collect", "capture", "draft", "await", "llm", "ground", "tools",
               "patch", "summary", "undo"} => stage # Review
  /\ t.pc = "review" => timebox # None /\ t.timebox = timebox
  /\ t.pc = "refresh" => Shown

OneActive == \A g, h \in Handlers : task[g].pc # "idle" /\ task[h].pc # "idle" => g = h

History == alone => OneActive /\ Safe /\ \A h \in Handlers : At(task[h])

\* The review is neither the refinement nor a stage before it.
LEMMA StagesDiffer ==
  /\ Refine # Review /\ Refine \notin {Collect, Capture}
  /\ Review \notin {Collect, Capture, Skeleton}
BY DEF Collect, Capture, Skeleton, Refine, Review

\* A new stage is not ready.
LEMMA AdvanceSafe ==
  ASSUME Shape, Safe, Marks, NEW next, AdvanceStage(next), UNCHANGED <<plan, reviewed>>
  PROVE  Safe'
BY StagesDiffer DEF Safe, AdvanceStage, Shown, Marks

\* Outside the review, what a node does to plan and readiness does not matter.
LEMMA OffReview ==
  ASSUME Safe, NEW h \in Handlers, stage # Review, UNCHANGED stage,
         UNCHANGED pending \/ pending' = FALSE,
         task'[h].pc \notin {"review", "refresh"}
  PROVE  Safe' /\ At(task[h])'
BY DEF Safe, At

\* A step that leaves the session's plan and stage to what they were.
LEMMA SafeKept ==
  ASSUME Safe, Marks, UNCHANGED <<stage, plan, timebox, reviewed>>,
         ready' => ready \/ stage # Review,
         pending' => pending \/ Offered
  PROVE  Safe'
BY DEF Safe, Offered, Shown, Marks

\* Other steps ask for nothing.
LEMMA NoPlace ==
  ASSUME NEW h \in Handlers,
         task'[h].pc \in {"idle", "queue", "first", "memory", "lock", "init", "decide",
                          "transit", "route", "attach", "write", "revert"}
  PROVE  At(task[h])'
BY DEF At

\* The steps of a handler that is alone lead to nothing that was not reviewed.
LEMMA StepSafe ==
  ASSUME Shape, Safe, Marks, NEW h \in Handlers, At(task[h]), Step(h), UNCHANGED reviewed
  PROVE  Safe' /\ At(task[h])'
<1>1. CASE StartReply(h)
  <2>1. At(task[h])'
    BY <1>1, GotoFields, NoPlace DEF Shape, StartReply
  <2>. QED  BY <1>1, <2>1, SafeKept DEF StartReply, session
<1>2. CASE FirstDecision(h)
  <2>1. UNCHANGED <<stage, plan, timebox, ready, reviewed>>
    BY <1>2 DEF FirstDecision
  <2>2. CASE Stop(h) /\ (pending' => pending)
    BY <2>1, <2>2, StopFields, NoPlace, SafeKept DEF Shape
  <2>3. CASE Goto(h, "refresh") /\ stage = Review /\ pending /\ UNCHANGED pending
    <3>1. At(task[h])'
      BY <2>1, <2>3, GotoFields DEF Shape, Safe, At, Shown, Marks
    <3>. QED  BY <2>1, <2>3, <3>1, SafeKept
  <2>4. ASSUME NEW first, task' = [task EXCEPT ![h].pc = "memory", ![h].first = first],
               UNCHANGED pending
        PROVE  Safe' /\ At(task[h])'
    <3>1. task'[h].pc = "memory"
      BY <2>4 DEF Shape, Tasks, Task
    <3>. QED  BY <2>1, <2>4, <3>1, NoPlace, SafeKept
  <2>. QED  BY <1>2, <2>2, <2>3, <2>4 DEF FirstDecision, StartSubmit
<1>3. CASE MemoryReview(h)
  <2>1. task'[h].pc \in {"idle", "lock"}
    <3>1. CASE Stop(h)
      BY <3>1, StopFields DEF Shape
    <3>2. CASE Goto(h, "lock")
      BY <3>2, GotoFields DEF Shape
    <3>. QED  BY <1>3, <3>1, <3>2 DEF MemoryReview
  <2>2. Safe'
    BY <1>3, SafeKept DEF MemoryReview
  <2>. QED  BY <2>1, <2>2, NoPlace
<1>4. CASE StartTurn(h)
  <2>1. At(task[h])'
    BY <1>4, GotoFields, NoPlace DEF Shape, StartTurn
  <2>. QED  BY <1>4, <2>1, SafeKept DEF StartTurn, session
<1>5. CASE TurnInit(h)
  <2>1. At(task[h])'
    BY <1>5, GotoFields, NoPlace DEF Shape, TurnInit
  <2>. QED  BY <1>5, <2>1, SafeKept DEF TurnInit, session
<1>6. CASE Decide(h)
  <2>1. \E does, target : Decided(h, does, target)
    BY <1>6 DEF Decide
  <2>2. At(task[h])'
    BY <2>1, DecidedFields, NoPlace DEF Shape
  <2>. QED  BY <1>6, <2>2, SafeKept DEF Decide
<1>7. CASE Transition(h)
  <2>1. task'[h].pc = "route"
    BY <1>7 DEF Shape, Tasks, Task, Transition
  <2>2. CASE AdvanceStage(Destination(h))
    BY <1>7, <2>1, <2>2, AdvanceSafe, NoPlace DEF Transition
  <2>3. CASE UNCHANGED <<stage, ready, pending, timebox, pre>>
    BY <1>7, <2>1, <2>3, SafeKept, NoPlace DEF Transition
  <2>. QED  BY <1>7, <2>2, <2>3 DEF Transition
<1>8. CASE Route(h)
  <2>1. Safe'
    BY <1>8, SafeKept DEF Route, session
  <2>2. CASE Presented(h)
    BY <2>1, <2>2, PresentedFields, NoPlace DEF Shape
  <2>3. CASE ~Presented(h)
    <3>1. /\ Node[stage] \in {"collect", "capture", "draft", "review"}
          /\ Node[stage] = "review" <=> stage = Review
      BY StageFacts DEF Shape, Data, Node, Collect, Capture, Skeleton, Refine, Review
    <3>2. /\ task'[h].pc = Node[stage]
          /\ stage = Review => timebox # None /\ task'[h].timebox = timebox
      BY <1>8, <2>3 DEF Shape, Tasks, Task, Route
    <3>3. UNCHANGED <<stage, timebox>>
      BY <1>8 DEF Route, session
    <3>. QED  BY <2>1, <3>1, <3>2, <3>3 DEF At
  <2>. QED  BY <2>2, <2>3
<1>9. CASE CollectConstraints(h)
  <2>1. stage # Review
    BY <1>9 DEF At, CollectConstraints
  <2>2. task'[h].pc \notin {"review", "refresh"}
    BY <1>9, PresentedFields DEF Shape, CollectConstraints
  <2>. QED  BY <1>9, <2>1, <2>2, OffReview DEF CollectConstraints
<1>10. CASE CaptureInputs(h)
  <2>1. stage # Review
    BY <1>10 DEF At, CaptureInputs
  <2>2. task'[h].pc \notin {"review", "refresh"}
    BY <1>10, PresentedFields DEF Shape, CaptureInputs
  <2>. QED  BY <1>10, <2>1, <2>2, OffReview DEF CaptureInputs
<1>11. CASE AskDraft(h)
  <2>1. stage # Review
    BY <1>11 DEF At, AskDraft
  <2>2. task'[h].pc \notin {"review", "refresh"}
    <3>1. ASSUME NEW pc, task' = [task EXCEPT ![h].pc = pc, ![h].print = facts]
          PROVE  task'[h].pc = pc
      BY <3>1 DEF Shape, Tasks, Task
    <3>2. Presented(h) \/ Ground(h) => task'[h].pc \notin {"review", "refresh"}
      BY PresentedFields, GroundFields DEF Shape
    <3>. QED  BY <1>11, <3>1, <3>2 DEF AskDraft, TakeDraft
  <2>. QED  BY <1>11, <2>1, <2>2, OffReview DEF AskDraft
<1>12. CASE AwaitDraft(h)
  <2>1. stage # Review
    BY <1>12 DEF At, AwaitDraft
  <2>2. task'[h].pc \notin {"review", "refresh"}
    BY <1>12, PresentedFields, GroundFields, GotoFields DEF Shape, AwaitDraft, TakeDraft
  <2>. QED  BY <1>12, <2>1, <2>2, OffReview DEF AwaitDraft
<1>13. CASE Draft(h)
  <2>1. stage # Review
    BY <1>13 DEF At, Draft
  <2>2. task'[h].pc \notin {"review", "refresh"}
    BY <1>13, PresentedFields, GroundFields DEF Shape, Draft, TakeDraft
  <2>. QED  BY <1>13, <2>1, <2>2, OffReview DEF Draft
<1>14. CASE Prepare(h)
  <2>1. stage # Review
    BY <1>14 DEF At, Prepare
  <2>2. task'[h].pc \notin {"review", "refresh"}
    BY <1>14, SetFacts DEF Shape, Prepare, Tasks, Task
  <2>. QED  BY <1>14, <2>1, <2>2, OffReview DEF Prepare
<1>15. CASE ChooseTools(h)
  <2>1. stage # Review
    BY <1>15 DEF At, ChooseTools
  <2>2. task'[h].pc \notin {"review", "refresh"}
    <3>1. CASE task' = [task EXCEPT ![h].pc = "patch", ![h].plan = plan, ![h].timebox = timebox]
      BY <3>1 DEF Shape, Tasks, Task
    <3>2. CASE Goto(h, "summary") \/ Presented(h)
      BY <3>2, GotoFields, PresentedFields DEF Shape
    <3>. QED  BY <1>15, <3>1, <3>2 DEF ChooseTools
  <2>. QED  BY <1>15, <2>1, <2>2, OffReview DEF ChooseTools
<1>16. CASE ApplyPatch(h)
  <2>1. stage # Review
    BY <1>16 DEF At, ApplyPatch
  <2>2. task'[h].pc \notin {"review", "refresh"}
    <3>1. CASE task' = [task EXCEPT ![h].pc = "summary", ![h].plan = None,
                                    ![h].timebox = None]
      BY <3>1 DEF Shape, Tasks, Task
    <3>2. CASE Presented(h)
      BY <3>2, PresentedFields DEF Shape
    <3>. QED  BY <1>16, <3>1, <3>2 DEF ApplyPatch
  <2>. QED  BY <1>16, <2>1, <2>2, OffReview DEF ApplyPatch
<1>17. CASE Summarise(h)
  <2>1. stage # Review
    BY <1>17 DEF At, Summarise
  <2>2. task'[h].pc \notin {"review", "refresh"}
    BY <1>17, PresentedFields DEF Shape, Summarise
  <2>. QED  BY <1>17, <2>1, <2>2, OffReview DEF Summarise
<1>18. CASE Attach(h)
  <2>1. Safe'
    BY <1>18, SafeKept DEF Attach
  <2>2. CASE Stop(h)
    BY <2>1, <2>2, StopFields, NoPlace DEF Shape
  <2>3. CASE Goto(h, "refresh") /\ Offered
    <3>1. task'[h].pc = "refresh"
      BY <2>3, GotoFields DEF Shape
    <3>. QED  BY <1>18, <2>1, <2>3, <3>1 DEF Safe, At, Offered, Attach, Shown, Marks
  <2>. QED  BY <1>18, <2>2, <2>3 DEF Attach
<1>19. CASE Undone(h)
  <2>1. stage # Review
    BY <1>19 DEF At, Undone
  <2>2. task'[h].pc = "idle"
    BY <1>19, StopFields DEF Shape, Undone
  <2>3. UNCHANGED stage
    BY <1>19 DEF Undone
  <2>4. UNCHANGED pending \/ pending' = FALSE
    BY <1>19, <2>1, <2>3 DEF Undone, Offered
  <2>. QED  BY <2>1, <2>2, <2>3, <2>4, OffReview
<1>20. CASE Refresh(h)
  <2>1. task'[h].pc \in {"idle", "write"}
    <3>1. CASE Stop(h)
      BY <3>1, StopFields DEF Shape
    <3>2. CASE task' = [task EXCEPT ![h].pc = "write", ![h].plan = plan]
      BY <3>2 DEF Shape, Tasks, Task
    <3>. QED  BY <1>20, <3>1, <3>2 DEF Refresh
  <2>2. Safe'
    BY <1>20, SafeKept DEF Refresh
  <2>. QED  BY <2>1, <2>2, NoPlace
<1>21. CASE Written(h)
  <2>1. At(task[h])'
    BY <1>21, StopFields, NoPlace DEF Shape, Written
  <2>. QED  BY <1>21, <2>1, SafeKept DEF Written, session
<1>22. CASE Reverted(h)
  <2>1. task'[h].pc = "idle"
    BY <1>22, StopFields DEF Shape, Reverted
  <2>2. CASE UNCHANGED <<stage, ready, plan, timebox, pending, pre, sent>>
    BY <1>22, <2>2, SafeKept, <2>1, NoPlace
  <2>3. CASE AdvanceStage(Refine) /\ UNCHANGED plan
    BY <1>22, <2>1, <2>3, AdvanceSafe, NoPlace
  <2>4. CASE stage' = Refine /\ pending' = FALSE
    BY <2>1, <2>4, NoPlace, StagesDiffer DEF Safe
  <2>. QED  BY <1>22, <2>2, <2>3, <2>4 DEF Reverted
<1>. QED  BY <1>1, <1>2, <1>3, <1>4, <1>5, <1>6, <1>7, <1>8, <1>9, <1>10, <1>11,
       <1>12, <1>13, <1>14, <1>15, <1>16, <1>17, <1>18, <1>19, <1>20, <1>21, <1>22
       DEF Step

\* With one active handler, nobody else is at any place.
LEMMA OthersIdle ==
  ASSUME OneActive', NEW h \in Handlers, task'[h].pc # "idle", At(task[h])'
  PROVE  (\A g \in Handlers : At(task[g]))'
<1>1. ASSUME NEW g \in Handlers PROVE At(task[g])'
  <2>1. CASE g = h
    BY <2>1
  <2>2. CASE g # h
    <3>1. task'[g].pc = "idle"
      BY <2>2 DEF OneActive
    <3>. QED  BY <3>1, NoPlace
  <2>. QED  BY <2>1, <2>2
<1>. QED  BY <1>1

\* Nor does a message that one handler takes while no other works.
LEMMA ReceiveSafe ==
  ASSUME Shape, Safe, Marks, \A g \in Handlers : At(task[g]), OneActive', NEW h \in Handlers,
         Receive(h), UNCHANGED reviewed
  PROVE  Safe' /\ (\A g \in Handlers : At(task[g]))'
<1>1. CASE UserReply(h)
  <2>1. task'[h].pc \in {"queue", "lock", "revert"}
    BY <1>1, GotoFields DEF Shape, UserReply, Tasks, Idle
  <2>2. Safe'
    BY <1>1, SafeKept DEF UserReply, session
  <2>. QED  BY <2>1, <2>2, NoPlace, OthersIdle
<1>2. CASE UserText(h)
  <2>1. task'[h].pc \in {"queue", "lock", "revert"}
    BY <1>2, GotoFields DEF Shape, UserText, Tasks, Idle
  <2>2. Safe'
    BY <1>2, SafeKept DEF UserText, session
  <2>. QED  BY <2>1, <2>2, NoPlace, OthersIdle
<1>3. CASE CommitDate(h)
  <2>1. task'[h].pc \in {"queue", "lock", "revert"}
    BY <1>3, GotoFields DEF Shape, CommitDate
  <2>2. Safe'
    BY <1>3, SafeKept DEF CommitDate, session
  <2>. QED  BY <2>1, <2>2, NoPlace, OthersIdle
<1>4. CASE ClickCancel(h)
  BY <1>4 DEF ClickCancel, Safe, At, Shown, Marks
<1>5. CASE ClickBack(h)
  <2>1. task'[h].pc = "lock"
    BY <1>5, GotoFields DEF Shape, ClickBack
  <2>2. Safe'
    BY <1>5, AdvanceSafe DEF ClickBack
  <2>. QED  BY <2>1, <2>2, NoPlace, OthersIdle
<1>6. CASE ClickProceed(h)
  <2>1. CASE ready
    <3>1. task'[h].pc = "lock"
      BY <1>6, <2>1, GotoFields DEF Shape, ClickProceed
    <3>2. Safe'
      BY <1>6, <2>1, AdvanceSafe DEF ClickProceed
    <3>. QED  BY <3>1, <3>2, NoPlace, OthersIdle
  <2>2. CASE ~ready
    BY <1>6, <2>2 DEF ClickProceed, Safe, At, Offered, Shown, Marks
  <2>. QED  BY <2>1, <2>2
<1>7. CASE ClickRedo(h)
  <2>1. task'[h].pc \in {"queue", "lock", "revert"}
    BY <1>7, GotoFields DEF Shape, ClickRedo
  <2>2. Safe'
    BY <1>7, SafeKept DEF ClickRedo, session
  <2>. QED  BY <2>1, <2>2, NoPlace, OthersIdle
<1>8. CASE ClickUndo(h)
  <2>1. stage = Refine /\ pending = FALSE /\ UNCHANGED <<stage, pending>>
    BY <1>8, StagesDiffer DEF ClickUndo, Safe, Shape, Data
  <2>2. Safe'
    BY <2>1, StagesDiffer DEF Safe
  <2>3. CASE Goto(h, "undo")
    <3>1. task'[h].pc = "undo"
      BY <2>3, GotoFields DEF Shape
    <3>2. At(task[h])'
      BY <2>1, <3>1, StagesDiffer DEF At
    <3>. QED  BY <2>2, <3>1, <3>2, OthersIdle
  <2>4. CASE plan' \notin Valid /\ UNCHANGED <<timebox, task>>
    BY <1>8, <2>1, <2>2, <2>4 DEF At, Shown, Marks, Undoes
  <2>. QED  BY <1>8, <2>3, <2>4 DEF ClickUndo, Restore
<1>9. CASE ConfirmSubmit(h)
  <2>0. UNCHANGED <<stage, ready, plan, timebox, reviewed>>
    BY <1>9 DEF ConfirmSubmit
  <2>1. CASE Goto(h, "refresh") /\ pending /\ UNCHANGED pending
    <3>1. task'[h].pc = "refresh"
      BY <2>1, GotoFields DEF Shape
    <3>2. Safe' /\ At(task[h])'
      BY <2>0, <2>1, <3>1 DEF Safe, At, Shown, Marks
    <3>. QED  BY <3>1, <3>2, OthersIdle
  <2>2. CASE Stop(h) /\ (pending' => pending)
    <3>1. Safe'
      BY <2>0, <2>2, SafeKept
    <3>2. \A g \in Handlers : task'[g] = task[g] \/ task'[g].pc = "idle"
      BY <2>2, StopFields DEF Shape
    <3>. QED  BY <2>0, <3>1, <3>2 DEF At, Shown, Marks
  <2>. QED  BY <1>9, <2>1, <2>2 DEF ConfirmSubmit, StartSubmit
<1>10. CASE CancelSubmit(h)
  <2>1. stage' = Refine /\ pending' = FALSE /\ UNCHANGED <<timebox, plan, task>>
    BY <1>10, StagesDiffer DEF CancelSubmit, AdvanceStage, Shape, Data
  <2>. QED  BY <2>1, StagesDiffer DEF Safe, At, Shown, Marks
<1>11. CASE UndoSubmit(h)
  <2>1. task'[h].pc \in {"queue", "lock", "revert"}
    BY <1>11, GotoFields DEF Shape, UndoSubmit
  <2>2. Safe'
    BY <1>11, SafeKept DEF UndoSubmit, session
  <2>. QED  BY <2>1, <2>2, NoPlace, OthersIdle
<1>. QED  BY <1>1, <1>2, <1>3, <1>4, <1>5, <1>6, <1>7, <1>8, <1>9, <1>10, <1>11
       DEF Receive

\* The history variable counts handlers as the sets do.
LEMMA AloneMeans ==
  ASSUME TypeInv, Next, alone'
  PROVE  /\ OneActive'
         /\ alone \/ \E h \in Handlers : ReviewCommit(h) /\ task[h].timebox = plan
<1>1. Cardinality(Active') <= 1
  BY DEF Next, Track
<1>2. \A g, h \in Active' : g = h
  <2>1. Active' \subseteq Handlers /\ IsFiniteSet(Active')
    BY StageAssumption, FS_Subset DEF Active
  <2>2. ASSUME NEW g \in Active', NEW h \in Active', g # h PROVE FALSE
    <3>1. Cardinality({g, h}) = 2
      <4>1. {g, h} = {g} \cup {h} /\ h \notin {g}
        BY <2>2
      <4>2. IsFiniteSet({g}) /\ Cardinality({g}) = 1
        BY FS_Singleton
      <4>3. Cardinality({g} \cup {h}) = Cardinality({g}) + 1
        BY <4>1, <4>2, FS_AddElement
      <4>. QED  BY <4>1, <4>2, <4>3
    <3>2. Cardinality({g, h}) <= Cardinality(Active')
      BY <2>1, FS_Subset
    <3>3. Cardinality(Active') \in Nat
      BY <2>1, FS_CardinalityType
    <3>. QED  BY <1>1, <3>1, <3>2, <3>3
  <2>. QED  BY <2>2
<1>3. OneActive'
  BY <1>2 DEF OneActive, Active
<1>. QED  BY <1>3 DEF Next, Track

\* A review shows the plan, if it was made a timebox.
LEMMA ReviewSafe ==
  ASSUME TypeInv, Materialised, Marked, Marks, OneActive', NEW h \in Handlers, ReviewCommit(h),
         task[h].timebox = plan \/ At(task[h])
  PROVE  Safe' /\ (\A g \in Handlers : At(task[g]))'
<1>1. /\ pending' = FALSE /\ reviewed' = task[h].timebox
      /\ UNCHANGED <<stage, plan, timebox>>
      /\ task[h].pc = "review"
  BY DEF ReviewCommit
<1>2. Shown'
  BY <1>1, SetFacts DEF At, Materialised, Fits, Marked, Marks, Shown
<1>3. task'[h].pc = "attach"
  BY PresentedFields DEF TypeInv, Shape, ReviewCommit
<1>4. Safe'
  BY <1>1, <1>2 DEF Safe
<1>. QED  BY <1>3, <1>4, NoPlace, OthersIdle

\* Every step keeps what a handler alone may rely on.
LEMMA HistoryStep ==
  ASSUME TypeInv, Materialised, Marked, History, [Next]_vars
  PROVE  History'
<1>1. CASE UNCHANGED vars
  BY <1>1 DEF vars, session, History, OneActive, Safe, At, Shown
<1>2. CASE Next
  <2>. SUFFICES ASSUME alone' PROVE OneActive' /\ Safe' /\ (\A h \in Handlers : At(task[h]))'
    BY DEF History
  <2>0. Marks
    BY <1>2, MarkedStep
  <2>1. /\ OneActive'
        /\ alone \/ \E h \in Handlers : ReviewCommit(h) /\ task[h].timebox = plan
    BY <1>2, AloneMeans
  <2>2. ASSUME NEW h \in Handlers, ReviewCommit(h), task[h].timebox = plan
        PROVE  Safe' /\ (\A g \in Handlers : At(task[g]))'
    BY <2>0, <2>1, <2>2, ReviewSafe
  <2>3. CASE alone
    <3>1. OneActive /\ Safe /\ \A h \in Handlers : At(task[h])
      BY <2>3 DEF History
    <3>2. ASSUME NEW h \in Handlers, Receive(h), UNCHANGED reviewed
          PROVE  Safe' /\ (\A g \in Handlers : At(task[g]))'
      BY <2>0, <2>1, <3>1, <3>2, ReceiveSafe DEF TypeInv
    <3>3. ASSUME NEW h \in Handlers, Step(h), UNCHANGED reviewed
          PROVE  Safe' /\ (\A g \in Handlers : At(task[g]))'
      <4>1. Safe' /\ At(task[h])'
        BY <2>0, <3>1, <3>3, StepSafe DEF TypeInv
      <4>2. \A g \in Handlers \ {h} : task'[g] = task[g]
        BY <3>3, StepEnters DEF TypeInv, Enters
      <4>3. task[h].pc # "idle"
        BY <3>3 DEF Step, StartReply, FirstDecision, MemoryReview, StartTurn, TurnInit,
                    Decide, Transition, Route, CollectConstraints, CaptureInputs,
                    AskDraft, AwaitDraft, Draft, Prepare, ChooseTools, ApplyPatch,
                    Summarise, Attach, Undone, Refresh, Written, Reverted
      <4>4. \A g \in Handlers \ {h} : task'[g].pc = "idle"
        BY <3>1, <4>2, <4>3 DEF OneActive
      <4>. QED  BY <4>1, <4>4, NoPlace
    <3>4. ASSUME NEW h \in Handlers, ReviewCommit(h)
          PROVE  Safe' /\ (\A g \in Handlers : At(task[g]))'
      BY <2>0, <2>1, <3>1, <3>4, ReviewSafe
    <3>5. ASSUME NEW h \in Handlers, Abort(h), UNCHANGED reviewed
          PROVE  Safe' /\ (\A g \in Handlers : At(task[g]))'
      <4>1. \A g \in Handlers : task'[g] = task[g] \/ task'[g].pc \in {"idle", "attach"}
        BY <3>5, PresentedFields, StopFields DEF TypeInv, Shape, Abort
      <4>. QED  BY <2>0, <3>1, <3>5, <4>1 DEF Abort, session, Safe, At, Shown, Marks
    <3>6. CASE (PreGenerated \/ FactsChange) /\ UNCHANGED reviewed
      <4>1. UNCHANGED <<stage, ready, pending, plan, timebox, task>>
        BY <3>6 DEF PreGenerated, FactsChange
      <4>. QED  BY <2>0, <2>1, <3>1, <3>6, <4>1 DEF Safe, At, Shown, Marks
    <3>. QED  BY <1>2, <2>1, <3>2, <3>3, <3>4, <3>5, <3>6, Kinds
  <2>. QED  BY <2>1, <2>2, <2>3
<1>. QED  BY <1>1, <1>2

\* With one message handled at a time, in whatever order they come, what is
\* written is the plan the review showed last, but for a plan that an undo
\* brought back and that does not convert to a timebox.
THEOREM SubmissionsCorrect == Spec => SubmitsTheReviewed
<1>1. Init => TypeInv /\ Materialised /\ Marked /\ History
  <2>1. Init => History
    BY DEF Init, History, OneActive, Safe, At, Idle, Collect, Review
  <2>2. Init => Materialised /\ Marked
    BY SetFacts DEF Init, Materialised, Marked, Fits, NoUndo, Idle
  <2>. QED  BY <2>1, <2>2, TypeInit
<1>2. TypeInv /\ Materialised /\ Marked /\ History /\ [Next]_vars
        => (TypeInv /\ Materialised /\ Marked /\ History)'
  BY TypeStep, MaterialisedStep, MarkedStep, HistoryStep
<1>3. History
        => [\A h \in Handlers :
              /\ task[h].pc = "refresh" /\ task'[h].pc = "write"
              /\ alone /\ ~unshown
              => reviewed = plan]_vars
  BY DEF History, At, Shown
<1>. QED  BY <1>1, <1>2, <1>3, PTL DEF Spec, SubmitsTheReviewed
=============================================================================
