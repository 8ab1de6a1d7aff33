---------------------- MODULE PlanningReconcileProofs ----------------------
(* What reconciliations and dispatches guarantee for any events, tasks and  *)
(* lengths of a series, and that they implement ReminderSeries.             *)
EXTENDS PlanningReconcile, FiniteSetTheorems, TLAPS

\* The dispatcher does not reconcile.
LEMMA DispatcherApart ==
  /\ Dispatcher \in Tasks /\ Cron \in Tasks /\ Reconcilers \subseteq Tasks
  /\ \A p \in Reconcilers : p # Dispatcher
BY ReconcileAssumption DEF Tasks, Reconcilers, Cron, Dispatcher

\* An idle task is well formed.
LEMMA IdleType == Idle \in Task
BY DEF Idle, Task, Dates

\* A task that starts is well formed.
LEMMA StartType ==
  ASSUME TypeOK, NEW e \in Events \cup {None},
         NEW pc \in {"row", "anchor", "lookup", "event"},
         NEW origin \in {"watch", "guarded", "free"}
  PROVE  Start(pc, origin, e) \in Task
<1>1. Recent \subseteq Events
  BY DEF Recent
<1>. QED  BY <1>1 DEF Start, Idle, Task, Dates

\* A read leaves a well-formed task.
LEMMA ReadType ==
  ASSUME TypeOK, NEW t \in Tasks
  PROVE  /\ Read(t) \in Task
         /\ Read(t).pc = task[t].pc /\ Read(t).refs = task[t].refs
<1>1. task[t] \in Task
  BY DEF TypeOK
<1>2. (task[t].unread \/ (t = Dispatcher /\ ~up)) \in BOOLEAN
  OBVIOUS
<1>. QED  BY <1>1, <1>2 DEF Read, Task

\* The fallback finds an event among those listed, or none.
LEMMA FallbackType ==
  ASSUME NEW listed \in SUBSET Events
  PROVE  Fallback(listed) \in Events \cup {None}
<1>1. Own \in Events
  BY DEF Events
<1>2. CASE Own \notin listed /\ Cardinality(listed) = 1
  <2>1. listed # {}
    BY <1>2, FS_EmptySet
  <2>. QED  BY <1>2, <2>1 DEF Fallback
<1>. QED  BY <1>1, <1>2 DEF Fallback

\* The rule's answer keeps the types of what it changes.
LEMMA AnswerType ==
  ASSUME TypeOK, NEW t \in Tasks, NEW missing \in BOOLEAN, Answer(t, missing)
  PROVE  task' \in [Tasks -> Task] /\ jobs' \subseteq Jobs
<1>1. task[t] \in Task /\ Read(t) \in Task
  BY ReadType DEF TypeOK
<1>2. CASE t = Dispatcher
  <2>1. [Idle EXCEPT !.pc = IF missing THEN "post" ELSE "refresh",
                     !.unread = Read(t).unread] \in Task
    BY <1>1 DEF Idle, Task, Dates
  <2>. QED  BY <1>2, <2>1 DEF Answer, TypeOK
<1>3. CASE t # Dispatcher
  <2>1. Series(task[t].date) \subseteq Jobs
    BY <1>1 DEF Series, Jobs, Task
  <2>. QED  BY <1>3, <2>1, IdleType DEF Answer, ReplaceJobs, Stop, TypeOK
<1>. QED  BY <1>2, <1>3

\* A read that raises keeps the types of what it changes.
LEMMA RaiseType ==
  ASSUME TypeOK, NEW t \in Tasks, Raise(t)
  PROVE  task' \in [Tasks -> Task] /\ jobs' \subseteq Jobs
<1>1. [Idle EXCEPT !.pc = "failed", !.unread = TRUE] \in Task
  BY DEF Idle, Task, Dates
<1>. QED  BY <1>1, IdleType DEF Raise, TypeOK

\* An upsert keeps the rows well formed.
LEMMA UpsertType ==
  ASSUME TypeOK, NEW e, UpsertRow(e)
  PROVE  rows' \in [Events -> {"none", "recent", "old"}]
BY DEF UpsertRow, TypeOK

\* A refreshed anchor is an event.
LEMMA RefreshType ==
  ASSUME TypeOK, RefreshAnchor
  PROVE  anchor' \in Events \cup {None}
BY DEF RefreshAnchor, Stored, TypeOK

\* A step of the rule keeps the types of what it changes.
LEMMA EvaluateType ==
  ASSUME TypeOK, NEW t \in Tasks, Evaluate(t)
  PROVE  /\ task' \in [Tasks -> Task] /\ jobs' \subseteq Jobs
         /\ rows' \in [Events -> {"none", "recent", "old"}]
         /\ UNCHANGED <<seen, lagging, up, anchor, activity, happened>>
<1>1. task[t] \in Task /\ Read(t) \in Task
  BY ReadType DEF TypeOK
<1>2. CASE GetAnchorEvent(t)
  <2>1. [Read(t) EXCEPT !.pc = "stored", !.event = None] \in Task
    BY <1>1 DEF Task
  <2>2. task' \in [Tasks -> Task] /\ jobs' \subseteq Jobs
    BY <1>2, <2>1, AnswerType, RaiseType DEF GetAnchorEvent, TypeOK
  <2>. QED  BY <1>2, <2>2 DEF GetAnchorEvent, TypeOK
<1>3. CASE ListSessions(t)
  <2>1. Stored \subseteq Events /\ FreshRows(t) \subseteq Events
    BY DEF Stored, FreshRows
  <2>2. [task[t] EXCEPT !.pc = "refs", !.refs = Stored, !.fresh = FreshRows(t)] \in Task
    BY <1>1, <2>1 DEF Task
  <2>. QED  BY <1>3, <2>2 DEF ListSessions, TypeOK
<1>4. CASE GetStoredEvent(t)
  <2>1. ASSUME NEW e PROVE [Read(t) EXCEPT !.refs = @ \ {e}] \in Task
    BY <1>1 DEF Task
  <2>2. PICK e \in task[t].refs :
          \/ Raise(t)
          \/ Answer(t, FALSE)
          \/ /\ task' = [task EXCEPT ![t] = [Read(t) EXCEPT !.refs = @ \ {e}]]
             /\ UNCHANGED jobs
    BY <1>4 DEF GetStoredEvent
  <2>3. task' \in [Tasks -> Task] /\ jobs' \subseteq Jobs
    <3>1. CASE Raise(t)
      BY <3>1, RaiseType
    <3>2. CASE Answer(t, FALSE)
      BY <3>2, AnswerType
    <3>3. CASE /\ task' = [task EXCEPT ![t] = [Read(t) EXCEPT !.refs = @ \ {e}]]
               /\ UNCHANGED jobs
      BY <2>1, <3>3 DEF TypeOK
    <3>. QED  BY <2>2, <3>1, <3>2, <3>3
  <2>. QED  BY <1>4, <2>3 DEF GetStoredEvent, TypeOK
<1>5. CASE ListEvents(t)
  <2>1. Fallback(Shown) \in Events \cup {None}
    BY FallbackType DEF Shown, TypeOK
  <2>2. [task[t] EXCEPT !.pc = "sync", !.event = Fallback(Shown)] \in Task
    BY <1>1, <2>1 DEF Task
  <2>3. task' \in [Tasks -> Task] /\ jobs' \subseteq Jobs
    BY <1>5, <2>2, AnswerType, RaiseType DEF ListEvents, TypeOK
  <2>. QED  BY <1>5, <2>3 DEF ListEvents, TypeOK
<1>6. CASE SyncFallback(t)
  BY <1>6, AnswerType, UpsertType DEF SyncFallback
<1>. QED  BY <1>2, <1>3, <1>4, <1>5, <1>6 DEF Evaluate

\* The history variable keeps its shape.
LEMMA CoveredType ==
  ASSUME TypeOK, Track, seen' \subseteq Events
  PROVE  covered' \subseteq {"anchor", "stored", "recent", "fallback"} \X Events
<1>1. Own \in Events
  BY DEF Events
<1>2. Recognised' \subseteq {"anchor", "stored", "recent", "fallback"} \X Events
  BY <1>1 DEF Recognised, Stored, Recent
<1>. QED  BY <1>2 DEF Track, TypeOK

\* The part of the type invariant that Track does not matter to.
Shapes ==
  /\ seen \subseteq Events
  /\ lagging \subseteq Events \ seen
  /\ up \in BOOLEAN
  /\ rows \in [Events -> {"none", "recent", "old"}]
  /\ anchor \in Events \cup {None}
  /\ jobs \subseteq Jobs
  /\ activity \in {"none", "active", "unfinished"}
  /\ task \in [Tasks -> Task]
  /\ happened \in 0..MaxEvents

\* A step of a reconciliation keeps the types.
LEMMA ReconcilerType ==
  ASSUME TypeOK, NEW p \in Reconcilers, Step(p) \/ Cancel(p)
  PROVE  Shapes'
<1>1. p \in Tasks /\ task[p] \in Task
  BY DispatcherApart DEF TypeOK
<1>2. CASE WriteAnchor(p)
  <2>1. [task[p] EXCEPT !.pc = "lookup", !.event = None] \in Task
    BY <1>1 DEF Task
  <2>. QED  BY <1>1, <1>2, <2>1 DEF WriteAnchor, TypeOK, Shapes, Task
<1>3. CASE ReconcileUser(p)
  <2>1. Start("event", task[p].origin, anchor) \in Task
    BY <1>1, StartType DEF TypeOK, Task
  <2>. QED  BY <1>1, <1>3, <2>1, IdleType DEF ReconcileUser, TypeOK, Shapes
<1>4. CASE RecordAdded(p)
  <2>1. Start("lookup", "free", None) \in Task
    BY StartType
  <2>2. [task[p] EXCEPT !.pc = "anchor"] \in Task
    BY <1>1 DEF Task
  <2>. QED  BY <1>1, <1>4, <2>1, <2>2, UpsertType DEF RecordAdded, TypeOK, Shapes
<1>5. CASE Evaluate(p)
  BY <1>1, <1>5, EvaluateType DEF TypeOK, Shapes
<1>6. CASE Cancel(p)
  BY <1>1, <1>6, IdleType DEF Cancel, Stop, TypeOK, Shapes
<1>. QED  BY <1>2, <1>3, <1>4, <1>5, <1>6 DEF Step

\* What starts a reconciliation keeps the types.
LEMMA BeginType ==
  ASSUME TypeOK, NEW p \in Procs, Begin(p)
  PROVE  Shapes'
<1>1. p \in Tasks /\ Own \in Events
  BY DEF Tasks, Reconcilers, Events
<1>2. CASE Message(p)
  <2>1. Start("anchor", "guarded", Own) \in Task
    BY <1>1, StartType
  <2>. QED  BY <1>1, <1>2, <2>1 DEF Message, TypeOK, Shapes
<1>3. CASE IdleFires(p)
  <2>1. Start("lookup", "watch", None) \in Task
    BY StartType
  <2>. QED  BY <1>1, <1>3, <2>1 DEF IdleFires, TypeOK, Shapes
<1>4. ASSUME NEW e \in Events, AddToCalendar(p, e) PROVE Shapes'
  <2>1. Start("row", "free", e) \in Task
    BY StartType
  <2>2. happened' \in 0..MaxEvents
    BY <1>4, ReconcileAssumption DEF AddToCalendar, TypeOK
  <2>. QED  BY <1>1, <1>4, <2>1, <2>2 DEF AddToCalendar, TypeOK, Shapes
<1>. QED  BY <1>2, <1>3, <1>4 DEF Begin

\* A due reminder and its dispatch keep the types.
LEMMA DispatchType ==
  ASSUME TypeOK, JobFires \/ DispatchStep
  PROVE  Shapes'
<1>1. Dispatcher \in Tasks /\ task[Dispatcher] \in Task /\ Own \in Events
  BY DispatcherApart DEF TypeOK, Events
<1>2. \A pc \in {"post", "posted"} : [task[Dispatcher] EXCEPT !.pc = pc] \in Task
  BY <1>1 DEF Task
<1>3. /\ Start("anchor", "free", Own) \in Task
      /\ Start("event", "free", Own) \in Task
  BY <1>1, StartType
<1>4. CASE JobFires
  BY <1>1, <1>3, <1>4 DEF JobFires, TypeOK, Shapes
<1>5. CASE DispatchAnchor
  BY <1>1, <1>3, <1>5, IdleType DEF DispatchAnchor, Stop, TypeOK, Shapes
<1>6. CASE Evaluate(Dispatcher)
  BY <1>1, <1>6, EvaluateType DEF TypeOK, Shapes
<1>7. CASE DropStale
  BY <1>1, <1>7, IdleType, RefreshType DEF DropStale, Stop, TypeOK, Shapes
<1>8. CASE FailSoftOrOpen
  BY <1>1, <1>2, <1>8, IdleType, RefreshType DEF FailSoftOrOpen, Goto, Stop, TypeOK, Shapes
<1>9. CASE PostCard \/ AttachMessage
  BY <1>1, <1>2, <1>9, IdleType DEF PostCard, AttachMessage, Goto, Stop, TypeOK, Shapes
<1>. QED  BY <1>4, <1>5, <1>6, <1>7, <1>8, <1>9 DEF DispatchStep

\* The calendar, the clock, the tracker and a restart keep the types.
LEMMA EnvironmentType ==
  ASSUME TypeOK, Environment \/ Restart \/ DailyReconcile
  PROVE  Shapes'
<1>1. Cron \in Tasks
  BY DispatcherApart
<1>2. happened < MaxEvents => happened + 1 \in 0..MaxEvents
  BY ReconcileAssumption DEF TypeOK
<1>3. ASSUME NEW e \in Events, UserChanges(e) \/ Propagate(e) PROVE Shapes'
  BY <1>2, <1>3 DEF UserChanges, Propagate, TypeOK, Shapes
<1>4. CASE Outage
  BY <1>2, <1>4 DEF Outage, TypeOK, Shapes
<1>5. CASE RowsAge
  BY <1>5 DEF RowsAge, TypeOK, Shapes
<1>6. CASE NextDay
  <2>1. jobs' \subseteq Jobs
    BY <1>6 DEF NextDay, TypeOK, Jobs, Dates
  <2>2. \A t \in Tasks : [task[t] EXCEPT !.date = "yesterday"] \in Task
    BY DEF TypeOK, Task, Dates
  <2>3. task' \in [Tasks -> Task]
    BY <1>6, <2>2 DEF NextDay, TypeOK
  <2>4. rows' \in [Events -> {"none", "recent", "old"}]
    BY <1>6 DEF NextDay, TypeOK
  <2>. QED  BY <1>2, <1>6, <2>1, <2>3, <2>4 DEF NextDay, TypeOK, Shapes
<1>7. CASE MarkActive \/ MarkInactive
  BY <1>7, IdleType DEF MarkActive, MarkInactive, CancelIdleWatch, TypeOK, Shapes
<1>8. anchor # None => Start("event", "free", anchor) \in Task
                       /\ Start("event", "guarded", anchor) \in Task
  BY StartType DEF TypeOK
<1>9. CASE Restart
  BY <1>1, <1>2, <1>8, <1>9, IdleType DEF Restart, TypeOK, Shapes
<1>10. CASE DailyReconcile
  BY <1>1, <1>8, <1>10 DEF DailyReconcile, TypeOK, Shapes
<1>. QED  BY <1>3, <1>4, <1>5, <1>6, <1>7, <1>9, <1>10 DEF Environment

\* Every step keeps the shape of every variable.
LEMMA TypeStep == TypeOK /\ [Next]_vars => TypeOK'
<1>. SUFFICES ASSUME TypeOK, [Next]_vars PROVE TypeOK'
  OBVIOUS
<1>1. CASE Next
  <2>1. Shapes' /\ Track
    BY <1>1, ReconcilerType, BeginType, DispatchType, EnvironmentType DEF Next
  <2>. QED  BY <2>1, CoveredType DEF Shapes, TypeOK
<1>2. CASE UNCHANGED vars
  BY <1>2 DEF vars, TypeOK
<1>. QED  BY <1>1, <1>2

\* Every variable keeps its shape, whatever the events, tasks and bounds.
THEOREM TypeCorrect == Spec => []TypeOK
<1>1. Init => TypeOK
  <2>. SUFFICES ASSUME Init PROVE TypeOK
    OBVIOUS
  <2>1. covered \subseteq {"anchor", "stored", "recent", "fallback"} \X Events
    BY DEF Init, Recognised, Stored, Recent, Events
  <2>. QED  BY <2>1, IdleType, ReconcileAssumption DEF Init, TypeOK
<1>. QED  BY <1>1, TypeStep, PTL DEF Spec

----------------------------------------------------------------------------
(* The jobs *)

\* Whether a due reminder is being dispatched.
Due == task[Dispatcher].pc # "idle"

\* A step of the rule renews or removes the jobs, or leaves them; the
\* dispatcher's own never touches them and has work left.
LEMMA EvaluateJobs ==
  ASSUME TypeOK, NEW t \in Tasks, Evaluate(t)
  PROVE  /\ UNCHANGED Due
         /\ UNCHANGED jobs \/ jobs' = {} \/ \E d \in Dates : jobs' = Series(d)
<1>1. /\ task[t] \in Task /\ Read(t).pc = task[t].pc
      /\ task[t].date \in Dates /\ Dispatcher \in Tasks
  BY ReadType, DispatcherApart DEF TypeOK, Task
<1>2. task[t].pc # "idle"
  BY DEF Evaluate, GetAnchorEvent, ListSessions, GetStoredEvent, ListEvents, SyncFallback
<1>3. ASSUME NEW missing \in BOOLEAN, Answer(t, missing)
      PROVE  /\ UNCHANGED Due
             /\ UNCHANGED jobs \/ jobs' = {} \/ \E d \in Dates : jobs' = Series(d)
  <2>1. CASE t = Dispatcher
    BY <1>1, <1>2, <1>3, <2>1 DEF Answer, Due, TypeOK, Idle
  <2>2. CASE t # Dispatcher
    BY <1>1, <1>3, <2>2 DEF Answer, Due, TypeOK, Stop, ReplaceJobs
  <2>. QED  BY <2>1, <2>2
<1>4. ASSUME Raise(t) PROVE UNCHANGED <<Due, jobs>>
  BY <1>1, <1>2, <1>4 DEF Raise, Due, TypeOK, Idle
<1>5. ASSUME NEW r \in Task, r.pc # "idle", task' = [task EXCEPT ![t] = r]
      PROVE  UNCHANGED Due
  BY <1>1, <1>2, <1>5 DEF Due, TypeOK
<1>6. CASE GetAnchorEvent(t)
  <2>1. [Read(t) EXCEPT !.pc = "stored", !.event = None] \in Task
    BY <1>1, ReadType DEF Task
  <2>. QED  BY <1>3, <1>4, <1>5, <1>6, <2>1 DEF GetAnchorEvent, Task
<1>7. CASE ListSessions(t)
  <2>1. Stored \subseteq Events /\ FreshRows(t) \subseteq Events
    BY DEF Stored, FreshRows
  <2>2. [task[t] EXCEPT !.pc = "refs", !.refs = Stored, !.fresh = FreshRows(t)] \in Task
    BY <1>1, <2>1 DEF Task
  <2>3. [task[t] EXCEPT !.pc = "refs", !.refs = Stored, !.fresh = FreshRows(t)].pc # "idle"
    BY <1>1 DEF Task
  <2>4. UNCHANGED Due
    BY <1>5, <1>7, <2>2, <2>3 DEF ListSessions
  <2>. QED  BY <1>7, <2>4 DEF ListSessions
<1>8. CASE GetStoredEvent(t)
  <2>1. PICK e \in task[t].refs :
          \/ Raise(t)
          \/ Answer(t, FALSE)
          \/ /\ task' = [task EXCEPT ![t] = [Read(t) EXCEPT !.refs = @ \ {e}]]
             /\ UNCHANGED jobs
    BY <1>8 DEF GetStoredEvent
  <2>2. /\ [Read(t) EXCEPT !.refs = @ \ {e}] \in Task
        /\ [Read(t) EXCEPT !.refs = @ \ {e}].pc # "idle"
    BY <1>1, <1>2, ReadType DEF Task
  <2>3. CASE Raise(t)
    BY <1>4, <2>3
  <2>4. CASE Answer(t, FALSE)
    BY <1>3, <2>4
  <2>5. CASE /\ task' = [task EXCEPT ![t] = [Read(t) EXCEPT !.refs = @ \ {e}]]
             /\ UNCHANGED jobs
    BY <1>5, <2>2, <2>5
  <2>. QED  BY <2>1, <2>3, <2>4, <2>5
<1>9. CASE ListEvents(t)
  <2>1. Fallback(Shown) \in Events \cup {None}
    BY FallbackType DEF Shown, TypeOK
  <2>2. [task[t] EXCEPT !.pc = "sync", !.event = Fallback(Shown)] \in Task
    BY <1>1, <2>1 DEF Task
  <2>3. CASE Raise(t)
    BY <1>4, <2>3
  <2>4. CASE /\ task' = [task EXCEPT ![t] = [task[t] EXCEPT !.pc = "sync", !.event = Fallback(Shown)]]
             /\ UNCHANGED jobs
    BY <1>1, <1>5, <2>2, <2>4 DEF Task
  <2>5. CASE Answer(t, TRUE)
    BY <1>3, <2>5
  <2>. QED  BY <1>9, <2>3, <2>4, <2>5 DEF ListEvents
<1>10. CASE SyncFallback(t)
  BY <1>3, <1>10 DEF SyncFallback
<1>. QED  BY <1>6, <1>7, <1>8, <1>9, <1>10 DEF Evaluate

\* What a step can do to the jobs, and to the reminder that is due.
LEMMA StepKinds ==
  ASSUME TypeOK, [Next]_vars
  PROVE  \/ /\ UNCHANGED Due
            /\ UNCHANGED jobs \/ jobs' = {} \/ \E d \in Dates : jobs' = Series(d)
         \/ Due /\ ~Due' /\ UNCHANGED jobs
         \/ JobFires
         \/ NextDay
         \/ jobs' = {} /\ ~Due'
<1>1. Dispatcher \in Tasks /\ Cron \in Tasks /\ Cron # Dispatcher
  BY DispatcherApart DEF Cron, Dispatcher
<1>2. ASSUME NEW p \in Reconcilers, Step(p) \/ Cancel(p)
      PROVE  /\ UNCHANGED Due
             /\ UNCHANGED jobs \/ jobs' = {} \/ \E d \in Dates : jobs' = Series(d)
  <2>1. p \in Tasks /\ p # Dispatcher
    BY DispatcherApart
  <2>2. CASE Evaluate(p)
    BY <2>1, <2>2, EvaluateJobs
  <2>3. CASE WriteAnchor(p) \/ ReconcileUser(p) \/ RecordAdded(p) \/ Cancel(p)
    BY <1>1, <2>1, <2>3
    DEF WriteAnchor, ReconcileUser, RecordAdded, Cancel, Stop, Due, TypeOK
  <2>. QED  BY <1>2, <2>2, <2>3 DEF Step
<1>3. ASSUME NEW p \in Procs, Begin(p) PROVE UNCHANGED <<Due, jobs>>
  <2>1. p \in Tasks /\ p # Dispatcher
    BY DispatcherApart DEF Reconcilers
  <2>. QED
    BY <1>1, <1>3, <2>1 DEF Begin, Message, IdleFires, AddToCalendar, Due, TypeOK
<1>4. CASE DailyReconcile
  BY <1>1, <1>4 DEF DailyReconcile, Due, TypeOK
<1>5. CASE Restart
  <2>1. task'[Dispatcher] = Idle
    BY <1>1, <1>5 DEF Restart
  <2>. QED  BY <1>5, <2>1 DEF Restart, Due, Idle
<1>6. CASE DispatchStep
  <2>1. CASE Evaluate(Dispatcher)
    BY <1>1, <2>1, EvaluateJobs
  <2>2. CASE DispatchAnchor \/ DropStale \/ FailSoftOrOpen \/ PostCard \/ AttachMessage
    BY <1>1, <2>2
    DEF DispatchAnchor, DropStale, FailSoftOrOpen, PostCard, AttachMessage, Goto, Stop,
        Due, TypeOK
  <2>. QED  BY <1>6, <2>1, <2>2 DEF DispatchStep
<1>7. CASE MarkActive \/ MarkInactive
  <2>1. task'[Dispatcher] \in {task[Dispatcher], Idle}
    BY <1>1, <1>7 DEF MarkActive, MarkInactive, CancelIdleWatch
  <2>. QED  BY <1>7, <2>1 DEF MarkActive, MarkInactive, Due, Idle
<1>8. ASSUME NEW e \in Events, UserChanges(e) \/ Propagate(e) PROVE UNCHANGED <<Due, jobs>>
  BY <1>8 DEF UserChanges, Propagate, Due
<1>9. CASE Outage \/ RowsAge
  BY <1>9 DEF Outage, RowsAge, Due
<1>10. CASE UNCHANGED vars
  BY <1>10 DEF vars, Due
<1>. QED
  BY <1>2, <1>3, <1>4, <1>5, <1>6, <1>7, <1>8, <1>9, <1>10 DEF Next, Environment

\* What the jobs of a series are when its first one is taken from them.
LEMMA FirstFires ==
  ASSUME NEW d \in Dates, NEW k \in 1..(Expire + 1), jobs = {d} \X (k..Expire), JobFires
  PROVE  k + 1 \in 1..(Expire + 1) /\ jobs' = {d} \X ((k + 1)..Expire)
<1>1. Expire \in Nat /\ k \in Nat
  BY ReconcileAssumption DEF Expire
<1>2. PICK j \in jobs :
        (\A i \in jobs : i[1] = j[1] => j[2] <= i[2]) /\ jobs' = jobs \ {j}
  BY DEF JobFires
<1>3. PICK i \in k..Expire : j = <<d, i>>
  BY <1>2
<1>4. <<d, k>> \in jobs
  BY <1>1, <1>3
<1>5. j = <<d, k>>
  BY <1>1, <1>2, <1>3, <1>4
<1>. QED  BY <1>1, <1>2, <1>3, <1>5

\* Jobs of a single series, if of today's, are still that when they are
\* yesterday's.
LEMMA SeriesAges ==
  ASSUME NEW k \in 1..(Expire + 1), NEW d \in Dates, jobs = {d} \X (k..Expire)
  PROVE  {"yesterday"} \X {j[2] : j \in jobs} = {"yesterday"} \X (k..Expire)
<1>1. {j[2] : j \in jobs} = k..Expire
  <2>1. ASSUME NEW i \in k..Expire PROVE i \in {j[2] : j \in jobs}
    <3>1. <<d, i>> \in jobs /\ <<d, i>>[2] = i
      OBVIOUS
    <3>. QED  BY <3>1
  <2>. QED  BY <2>1
<1>. QED  BY <1>1

\* Every step leaves what is left of one series.
LEMMA SeriesStep == TypeOK /\ OneSeries /\ [Next]_vars => OneSeries'
<1>. SUFFICES ASSUME TypeOK, OneSeries, [Next]_vars PROVE OneSeries'
  OBVIOUS
<1>1. PICK d \in Dates, k \in 1..(Expire + 1) : jobs = {d} \X (k..Expire)
  BY DEF OneSeries
<1>2. Expire \in Nat
  BY ReconcileAssumption DEF Expire
<1>3. CASE UNCHANGED jobs
  BY <1>1, <1>3 DEF OneSeries
<1>4. CASE jobs' = {}
  <2>1. Expire + 1 \in 1..(Expire + 1) /\ (Expire + 1)..Expire = {}
    BY <1>2
  <2>2. jobs' = {d} \X ((Expire + 1)..Expire)
    BY <1>4, <2>1
  <2>. QED  BY <2>1, <2>2 DEF OneSeries
<1>5. ASSUME NEW e \in Dates, jobs' = Series(e) PROVE OneSeries'
  <2>1. 1 \in 1..(Expire + 1)
    BY <1>2
  <2>. QED  BY <1>5, <2>1 DEF OneSeries, Series, Kinds
<1>6. CASE JobFires
  BY <1>1, <1>6, FirstFires DEF OneSeries
<1>7. CASE NextDay
  <2>1. jobs' = {"yesterday"} \X (k..Expire)
    BY <1>1, <1>7, SeriesAges DEF NextDay
  <2>. QED  BY <2>1 DEF OneSeries, Dates
<1>. QED  BY <1>3, <1>4, <1>5, <1>6, <1>7, StepKinds

\* OneSeries: the reminders pending for the user are what is left of one series.
THEOREM OneSeriesCorrect == Spec => []OneSeries
<1>1. Init => OneSeries
  <2>. SUFFICES ASSUME Init PROVE OneSeries
    OBVIOUS
  <2>1. Expire \in Nat
    BY ReconcileAssumption DEF Expire
  <2>2. Expire + 1 \in 1..(Expire + 1) /\ (Expire + 1)..Expire = {}
    BY <2>1
  <2>3. jobs = {"today"} \X ((Expire + 1)..Expire)
    BY <2>2 DEF Init
  <2>. QED  BY <2>2, <2>3 DEF OneSeries, Dates
<1>. QED  BY <1>1, TypeCorrect, SeriesStep, PTL DEF Spec

\* ImplementsSeries: the reconciler implements the abstract reminders.
THEOREM SeriesImplemented == Spec => ImplementsSeries
<1>1. Init => Reminders!Init
  BY DispatcherApart DEF Init, Reminders!Init, Idle
<1>2. TypeOK /\ [Next]_vars => [Reminders!Next]_<<jobs, task[Dispatcher].pc # "idle">>
  <2>. SUFFICES ASSUME TypeOK, [Next]_vars
                PROVE  Reminders!Next \/ UNCHANGED <<jobs, Due>>
    BY DEF Due
  <2>1. CASE UNCHANGED <<Due, jobs>>
    BY <2>1
  <2>2. CASE UNCHANGED Due /\ jobs' = {}
    BY <2>2 DEF Due, Reminders!Next, Reminders!Silence
  <2>3. ASSUME UNCHANGED Due, NEW d \in Dates, jobs' = Series(d) PROVE Reminders!Next
    BY <2>3 DEF Due, Series, Kinds, Dates, Reminders!Dates, Reminders!Next, Reminders!Renew
  <2>4. CASE Due /\ ~Due' /\ UNCHANGED jobs
    BY <2>4 DEF Due, Reminders!Next, Reminders!Settle
  <2>5. CASE JobFires
    <3>1. ~Due /\ Due' \in BOOLEAN
      BY <2>5 DEF JobFires, Due
    <3>. QED  BY <2>5, <3>1 DEF Due, JobFires, Reminders!Next, Reminders!Fire
  <2>6. CASE NextDay
    <3>1. UNCHANGED Due
      BY <2>6, DispatcherApart DEF NextDay, Due, TypeOK
    <3>. QED  BY <2>6, <3>1 DEF Due, NextDay, Reminders!Next, Reminders!Midnight
  <2>7. CASE jobs' = {} /\ ~Due'
    BY <2>7 DEF Due, Reminders!Next, Reminders!Crash
  <2>. QED  BY <2>1, <2>2, <2>3, <2>4, <2>5, <2>6, <2>7, StepKinds
<1>. QED  BY <1>1, <1>2, TypeCorrect, PTL DEF Spec, ImplementsSeries, Reminders!Spec
----------------------------------------------------------------------------
(* Cards *)

\* The inductive invariant behind NoStaleCard: what a dispatch has ruled out so
\* far, unless a read of it failed.  It has recognised nothing by the anchor once
\* it is past it, nothing by the rows it has looked up, and whatever row was
\* recent all along is one it takes at its word.
Cleared ==
  LET d == task[Dispatcher] IN
  /\ covered \subseteq Recognised
  /\ d.pc = "event" => d.event = Own
  /\ d.pc = "failed" => d.unread
  /\ d.pc \in {"event", "stored", "refs"} =>
       \A e \in Events : <<"recent", e>> \in covered => e \in d.fresh
  /\ d.unread \/
       /\ d.pc \in {"stored", "refs"} => <<"anchor", Own>> \notin covered
       /\ d.pc = "refs" =>
            \A e \in Events :
              <<"stored", e>> \in covered \/ <<"recent", e>> \in covered => e \in d.refs
       /\ d.pc = "post" => covered = {}

\* What the rule could recognise, case by case.
LEMMA Recognises ==
  ASSUME NEW e \in Events
  PROVE  /\ <<"anchor", e>> \in Recognised <=> e = Own /\ e \in seen
         /\ <<"stored", e>> \in Recognised <=> e \in seen /\ e \in Stored
         /\ <<"recent", e>> \in Recognised <=> e \in Recent
         /\ <<"fallback", e>> \in Recognised <=> seen = {e}
BY DEF Recognised

\* While a dispatch is under way, what was there all along only shrinks.
LEMMA CoveredShrinks ==
  ASSUME Track
  PROVE  /\ covered' \subseteq Recognised'
         /\ task[Dispatcher].pc # "idle" => covered' \subseteq covered
BY DEF Track

\* A step that leaves the dispatch alone, or ends it, rules nothing in.
LEMMA ClearedSame ==
  ASSUME Cleared, Track,
         task'[Dispatcher] = task[Dispatcher]
           \/ task'[Dispatcher].pc \in {"idle", "anchor", "refresh", "posted"}
  PROVE  Cleared'
<1>1. CASE task[Dispatcher].pc = "idle" /\ task'[Dispatcher] = task[Dispatcher]
  BY <1>1, CoveredShrinks DEF Cleared
<1>2. CASE task[Dispatcher].pc # "idle" /\ task'[Dispatcher] = task[Dispatcher]
  BY <1>2, CoveredShrinks DEF Cleared
<1>3. CASE task'[Dispatcher].pc \in {"idle", "anchor", "refresh", "posted"}
  BY <1>3, CoveredShrinks DEF Cleared
<1>. QED  BY <1>1, <1>2, <1>3

\* Nobody else touches the dispatch, but to end it.
LEMMA OthersApart ==
  ASSUME TypeOK,
         \/ \E p \in Reconcilers : Step(p) \/ Cancel(p)
         \/ \E p \in Procs : Begin(p)
         \/ DailyReconcile
         \/ Restart
         \/ Environment
  PROVE  task'[Dispatcher] = task[Dispatcher] \/ task'[Dispatcher].pc = "idle"
<1>0. Idle.pc = "idle"
  BY DEF Idle
<1>1. ASSUME NEW p \in Reconcilers, NEW x, task' = [task EXCEPT ![p] = x]
      PROVE  task'[Dispatcher] = task[Dispatcher]
  BY <1>1, DispatcherApart DEF TypeOK
<1>2. ASSUME NEW p \in Reconcilers, Step(p) \/ Cancel(p)
      PROVE  task'[Dispatcher] = task[Dispatcher]
  <2>1. \E x : task' = [task EXCEPT ![p] = x]
    BY <1>2, DispatcherApart
       DEF Step, Cancel, Stop, WriteAnchor, ReconcileUser, RecordAdded, Evaluate, GetAnchorEvent,
           ListSessions, GetStoredEvent, ListEvents, SyncFallback, Answer, Raise
  <2>. QED  BY <1>1, <2>1
<1>3. ASSUME NEW p \in Procs, Begin(p) PROVE task'[Dispatcher] = task[Dispatcher]
  <2>1. \E x : task' = [task EXCEPT ![p] = x]
    BY <1>3 DEF Begin, Message, IdleFires, AddToCalendar
  <2>. QED  BY <1>1, <2>1 DEF Reconcilers
<1>4. CASE DailyReconcile
  BY <1>4, DispatcherApart DEF DailyReconcile, TypeOK, Cron, Dispatcher
<1>5. CASE Restart
  BY <1>0, <1>5, DispatcherApart DEF Restart, Cron, Dispatcher
<1>6. CASE Environment
  <2>1. CASE NextDay
    BY <2>1, DispatcherApart DEF NextDay
  <2>2. CASE MarkActive \/ MarkInactive
    BY <1>0, <2>2, DispatcherApart DEF MarkActive, MarkInactive, CancelIdleWatch
  <2>. QED  BY <1>6, <2>1, <2>2 DEF Environment, UserChanges, Propagate, Outage, RowsAge
<1>. QED  BY <1>2, <1>3, <1>4, <1>5, <1>6

\* The steps of the rule on behalf of a dispatch.
LEMMA RuleClears ==
  ASSUME TypeOK, Cleared, Track, Evaluate(Dispatcher)
  PROVE  Cleared'
<1> DEFINE d == task[Dispatcher]
<1>1. Dispatcher \in Tasks /\ d \in Task /\ Own \in Events /\ seen \subseteq Events
  BY DispatcherApart DEF TypeOK, Events
<1>2. UNCHANGED <<seen, up>>
  BY <1>1, EvaluateType
<1>3. covered' \subseteq Recognised' /\ (d.pc # "idle" => covered' \subseteq covered)
  BY CoveredShrinks
<1>4. ASSUME Answer(Dispatcher, FALSE) PROVE Cleared'
  <2>1. task'[Dispatcher].pc = "refresh"
    BY <1>1, <1>4 DEF Answer, Idle, TypeOK
  <2>. QED  BY <2>1, ClearedSame
<1>5. ASSUME Raise(Dispatcher) PROVE Cleared'
  <2>1. task'[Dispatcher].pc = "failed" /\ task'[Dispatcher].unread
    BY <1>1, <1>5 DEF Raise, Idle, TypeOK
  <2>. QED  BY <1>3, <2>1 DEF Cleared
<1>6. CASE GetAnchorEvent(Dispatcher)
  <2>1. CASE d.event \notin Shown
              /\ task' = [task EXCEPT ![Dispatcher] =
                            [Read(Dispatcher) EXCEPT !.pc = "stored", !.event = None]]
    <3> DEFINE n == task'[Dispatcher]
    <3>1. n = [Read(Dispatcher) EXCEPT !.pc = "stored", !.event = None]
      BY <1>1, <2>1 DEF TypeOK
    <3>2. n.pc = "stored" /\ n.fresh = d.fresh /\ n.unread = (d.unread \/ ~up)
      BY <1>1, <3>1 DEF Read, Task
    <3>3. d.pc = "event" /\ d.event = Own
      BY <1>6 DEF GetAnchorEvent, Cleared
    <3>4. ~n.unread => <<"anchor", Own>> \notin covered'
      <4>. SUFFICES ASSUME ~n.unread PROVE Own \notin seen'
        BY <1>1, <1>3 DEF Recognised
      <4>. QED  BY <1>2, <2>1, <3>2, <3>3 DEF Shown
    <3> HIDE DEF n
    <3>. QED  BY <1>3, <3>2, <3>3, <3>4 DEF Cleared, n
  <2>. QED  BY <1>4, <1>5, <1>6, <2>1 DEF GetAnchorEvent
<1>7. CASE ListSessions(Dispatcher)
  <2> DEFINE n == task'[Dispatcher]
  <2>1. n = [d EXCEPT !.pc = "refs", !.refs = Stored, !.fresh = FreshRows(Dispatcher)]
    BY <1>1, <1>7 DEF ListSessions, TypeOK
  <2>2. /\ n.pc = "refs" /\ n.refs = Stored /\ n.fresh = FreshRows(Dispatcher)
        /\ n.unread = d.unread
    BY <1>1, <2>1 DEF Task
  <2>3. d.pc = "stored" /\ rows' = rows
    BY <1>7 DEF ListSessions
  <2>4. \A e \in Events :
          /\ <<"recent", e>> \in covered' => e \in Recent /\ e \in d.fresh
          /\ <<"stored", e>> \in covered' => e \in Stored
    BY <1>3, <2>3, Recognises DEF Cleared
  <2>5. Recent \subseteq Stored
    BY DEF Recent, Stored
  <2>6. d.unread \/ <<"anchor", Own>> \notin covered'
    BY <1>3, <2>3 DEF Cleared
  <2> HIDE DEF n
  <2>. QED  BY <1>3, <2>2, <2>4, <2>5, <2>6 DEF Cleared, FreshRows, n
<1>8. CASE GetStoredEvent(Dispatcher)
  <2>1. ASSUME NEW e \in d.refs, e \notin Shown \cup d.fresh,
               task' = [task EXCEPT ![Dispatcher] = [Read(Dispatcher) EXCEPT !.refs = @ \ {e}]]
        PROVE  Cleared'
    <3> DEFINE n == task'[Dispatcher]
    <3>1. n = [Read(Dispatcher) EXCEPT !.refs = @ \ {e}]
      BY <1>1, <2>1 DEF TypeOK
    <3>2. d.pc = "refs"
      BY <1>8 DEF GetStoredEvent
    <3>3. /\ n.pc = "refs" /\ n.fresh = d.fresh /\ n.refs = d.refs \ {e}
          /\ n.unread = (d.unread \/ ~up)
      BY <1>1, <3>1, <3>2 DEF Read, Task
    <3>4. e \in Events
      BY <1>1 DEF Task
    <3>5. <<"recent", e>> \notin covered'
      BY <1>3, <2>1, <3>2, <3>4 DEF Cleared
    <3>6. ~n.unread => <<"stored", e>> \notin covered'
      <4>. SUFFICES ASSUME ~n.unread PROVE e \notin seen'
        BY <1>3 DEF Recognised
      <4>. QED  BY <1>2, <2>1, <3>3 DEF Shown
    <3> HIDE DEF n
    <3>. QED  BY <1>3, <3>2, <3>3, <3>5, <3>6 DEF Cleared, n
  <2>. QED  BY <1>4, <1>5, <1>8, <2>1 DEF GetStoredEvent
<1>9. CASE ListEvents(Dispatcher)
  <2>1. d.pc = "refs" /\ d.refs = {}
    BY <1>9 DEF ListEvents
  <2>2. CASE task' = [task EXCEPT ![Dispatcher].pc = "sync", ![Dispatcher].event = Fallback(Shown)]
    <3>1. task'[Dispatcher].pc = "sync"
      BY <1>1, <2>2 DEF TypeOK, Task
    <3>. QED  BY <1>3, <3>1 DEF Cleared
  <2>3. CASE Fallback(Shown) = None /\ Answer(Dispatcher, TRUE)
    <3> DEFINE n == task'[Dispatcher]
    <3>1. n.pc = "post" /\ n.unread = (d.unread \/ ~up)
      <4>1. n = [Idle EXCEPT !.pc = "post", !.unread = Read(Dispatcher).unread]
        BY <1>1, <2>3 DEF Answer, TypeOK
      <4>2. Read(Dispatcher).unread = (d.unread \/ ~up)
        BY <1>1 DEF Read, Task
      <4>. QED  BY <4>1, <4>2 DEF Idle
    <3>2. ~n.unread => covered' = {}
      <4>. SUFFICES ASSUME ~n.unread PROVE covered' = {}
        OBVIOUS
      <4>1. ~d.unread /\ Shown = seen
        BY <3>1 DEF Shown
      <4>2. ASSUME NEW e \in Events PROVE seen # {e}
        <5>. SUFFICES ASSUME seen = {e} PROVE FALSE
          OBVIOUS
        <5>1. Cardinality({e}) = 1
          BY FS_Singleton
        <5>. QED  BY <2>3, <4>1, <5>1, ReconcileAssumption, <1>1 DEF Fallback
      <4>3. \A e \in Events : /\ <<"anchor", e>> \notin covered'
                              /\ <<"stored", e>> \notin covered'
                              /\ <<"recent", e>> \notin covered'
        BY <1>3, <2>1, <4>1, Recognises DEF Cleared
      <4>4. \A e \in Events : <<"fallback", e>> \notin covered'
        BY <1>2, <1>3, <4>2 DEF Recognised
      <4>5. covered' \subseteq {"anchor", "stored", "recent", "fallback"} \X Events
        BY <1>3, <2>1 DEF TypeOK
      <4>6. SUFFICES ASSUME NEW c \in covered' PROVE FALSE
        OBVIOUS
      <4>7. PICK w \in {"anchor", "stored", "recent", "fallback"}, e \in Events : c = <<w, e>>
        BY <4>5
      <4>. QED  BY <4>3, <4>4, <4>7
    <3> HIDE DEF n
    <3>. QED  BY <1>3, <3>1, <3>2 DEF Cleared, n
  <2>. QED  BY <1>5, <1>9, <2>2, <2>3 DEF ListEvents
<1>10. CASE SyncFallback(Dispatcher)
  BY <1>4, <1>10 DEF SyncFallback
<1>. QED  BY <1>6, <1>7, <1>8, <1>9, <1>10 DEF Evaluate

\* Every step keeps the invariant.
LEMMA ClearedStep ==
  ASSUME TypeOK, Cleared, [Next]_vars PROVE Cleared'
<1> DEFINE d == task[Dispatcher]
<1>1. Dispatcher \in Tasks /\ d \in Task
  BY DispatcherApart DEF TypeOK
<1>2. CASE UNCHANGED vars
  BY <1>2 DEF vars, Cleared, Recognised, Stored, Recent
<1>3. CASE Next
  <2>1. Track
    BY <1>3 DEF Next
  <2>2. CASE JobFires
    <3>1. task'[Dispatcher] = d \/ task'[Dispatcher].pc = "anchor"
      BY <1>1, <2>2 DEF JobFires, Start, Idle, TypeOK
    <3>. QED  BY <2>1, <3>1, ClearedSame
  <2>3. CASE DispatchAnchor
    <3> DEFINE n == task'[Dispatcher]
    <3>1. n = Idle \/ n = Start("event", "free", Own)
      BY <1>1, <2>3 DEF DispatchAnchor, Stop, TypeOK
    <3>2. CASE n = Idle
      BY <2>1, <3>2, ClearedSame DEF Idle
    <3>3. CASE n = Start("event", "free", Own)
      <4>1. n.pc = "event" /\ n.event = Own /\ n.fresh = Recent
        BY <3>3 DEF Start, Idle
      <4>2. covered' \subseteq Recognised' /\ rows' = rows
        BY <2>1, <2>3, CoveredShrinks DEF DispatchAnchor
      <4>3. \A e \in Events : <<"recent", e>> \in covered' => e \in Recent
        BY <4>2 DEF Recognised, Recent
      <4> HIDE DEF n
      <4>. QED  BY <4>1, <4>2, <4>3 DEF Cleared, n
    <3>. QED  BY <3>1, <3>2, <3>3
  <2>4. CASE DropStale \/ AttachMessage
    <3>1. task'[Dispatcher].pc = "idle"
      BY <1>1, <2>4 DEF DropStale, AttachMessage, Stop, Idle, TypeOK
    <3>. QED  BY <2>1, <3>1, ClearedSame
  <2>5. CASE FailSoftOrOpen
    <3> DEFINE n == task'[Dispatcher]
    <3>1. d.pc = "failed" /\ (n.pc = "idle" \/ (n.pc = "post" /\ n.unread = d.unread))
      BY <1>1, <2>5 DEF FailSoftOrOpen, Goto, Stop, Idle, TypeOK, Task
    <3>2. d.unread
      BY <3>1 DEF Cleared
    <3>. QED  BY <2>1, <3>1, <3>2, CoveredShrinks DEF Cleared
  <2>6. CASE PostCard
    <3>1. task'[Dispatcher].pc \in {"idle", "posted"}
      BY <1>1, <2>6 DEF PostCard, Goto, Stop, Idle, TypeOK, Task
    <3>. QED  BY <2>1, <3>1, ClearedSame
  <2>7. CASE Evaluate(Dispatcher)
    BY <2>1, <2>7, RuleClears
  <2>. QED  BY <1>3, <2>1, <2>2, <2>3, <2>4, <2>5, <2>6, <2>7, OthersApart, ClearedSame
            DEF Next, DispatchStep
<1>. QED  BY <1>2, <1>3

\* NoStaleCard for any events and any number of reconciliations beside the
\* dispatch: no card goes to a user whose session could be recognised all along
\* (dispatch_planning_reminder in planning.py, evaluate in reconcile.py).
THEOREM NoStaleCardCorrect == Spec => NoStaleCard
<1>1. Init => Cleared
  <2>. SUFFICES ASSUME Init PROVE Cleared
    OBVIOUS
  <2>1. covered = Recognised /\ task[Dispatcher] = Idle
    BY DispatcherApart DEF Init
  <2>. QED  BY <2>1 DEF Cleared, Idle
<1>2. TypeOK /\ Cleared /\ [Next]_vars => Cleared'
  BY ClearedStep
<1>3. TypeOK /\ Cleared /\ [Next]_vars =>
        [/\ task[Dispatcher].pc = "post" /\ task'[Dispatcher].pc = "posted"
         /\ ~task[Dispatcher].unread
         => covered = {}]_vars
  BY DEF Cleared
<1>. QED  BY <1>1, <1>2, <1>3, TypeCorrect, PTL DEF Spec, NoStaleCard
============================================================================
