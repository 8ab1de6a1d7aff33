-------------------------- MODULE PlanningReconcile --------------------------
(***************************************************************************)
(* The reminders of a user who has no planning session on the calendar:    *)
(* the rule and the reconciler (src/fateforger/haunt/reconcile.py), the    *)
(* guardian that runs them (planning_guardian.py), the dispatch of a due   *)
(* reminder (src/fateforger/slack_bot/planning.py) and the activity        *)
(* tracker it asks (haunt/timeboxing_activity.py), for one user.           *)
(*                                                                         *)
(* Everything runs on one event loop, so an action is the code between two *)
(* awaits that can suspend.  A reconciliation awaits a database row or the *)
(* calendar at each step of the rule, and only the last step, where the    *)
(* jobs are replaced, is free of awaits.                                   *)
(*                                                                         *)
(* Time is midnight, since job ids carry a date, and one age of a stored   *)
(* row: within the rule's grace or past it.  Job times are ranks, nudge by *)
(* nudge, then the expiry; a job may fire at any moment, but not before    *)
(* those of its series due earlier.                                        *)
(***************************************************************************)
EXTENDS Naturals, FiniteSets, Sequences

CONSTANTS
  Own,        \* planning_event_id_for_user: the user's deterministic event id
  Others,     \* ids of other events that the rule takes for planning sessions
  Procs,      \* tasks that may reconcile the user at once, beside cron's
  Nudges,     \* length of a series of nudges
  MaxEvents,  \* bound: changes to the calendar, outages, restarts, midnights
  None        \* Python's None

Events == Others \cup {Own}
Cron == "cron"                \* the daily job, which never overlaps itself
Dispatcher == "dispatcher"    \* the due reminder being dispatched
Reconcilers == Procs \cup {Cron}
Tasks == Reconcilers \cup {Dispatcher}
Dates == {"today", "yesterday"}
Expire == Nudges + 1
Kinds == 1..Expire
Jobs == Dates \X Kinds

ASSUME ReconcileAssumption ==
  /\ Own \notin Others
  /\ {Cron, Dispatcher} \cap Procs = {}
  /\ Nudges \in Nat \ {0}
  /\ MaxEvents \in Nat
  /\ None \notin Events

VARIABLES
  seen,     \* events a read of the calendar shows in the rule's window
  lagging,  \* events written to the calendar that reads do not show yet
  up,       \* whether the calendar and Slack answer
  rows,     \* planning_session_refs of the window: event -> age of its row
  anchor,   \* planning_anchors: the user's event id, None before the first message
  jobs,     \* the scheduler's jobs of the user's scope
  activity, \* the tracker's session of the user
  task,     \* the running reconciliations and the running dispatch
  covered,  \* history: how the rule could have recognised a session at any
            \* moment since the running dispatch began
  happened  \* counter for MaxEvents

vars == <<seen, lagging, up, rows, anchor, jobs, activity, task, covered,
          happened>>
----------------------------------------------------------------------------
\* `date' is the date of the task's `now'; `refs' the stored rows it has still
\* to look up, `fresh' the rows recent enough for the grace.  Only the idle
\* watch's task is cancelled with it, and only those guarded by a timeout are
\* cancelled by one.  `unread' (history): a read of a dispatch failed.
Task == [pc : {"idle", "row", "anchor", "lookup", "event", "stored", "refs",
               "sync", "post", "posted", "refresh", "failed"},
         origin : {"watch", "guarded", "free"},
         event : Events \cup {None},
         date : Dates,
         refs : SUBSET Events,
         fresh : SUBSET Events,
         unread : BOOLEAN]

Idle == [pc |-> "idle", origin |-> "free", event |-> None, date |-> "today",
         refs |-> {}, fresh |-> {}, unread |-> FALSE]

Stored == {e \in Events : rows[e] # "none"}
Recent == {e \in Events : rows[e] = "recent"}

\* A task about to run the rule, its `now' taken.
Start(pc, origin, e) ==
  [Idle EXCEPT !.pc = pc, !.origin = origin, !.event = e,
               !.fresh = IF pc = "event" THEN Recent ELSE {}]

\* Mutant: a title alone is not enough.
FallbackOwn(listed) == IF Own \in listed THEN Own ELSE None

\* The event the fallback takes among those listed, which all score as planning
\* sessions: the one with the user's own id, or the only one; several others
\* are ambiguous.
Fallback(listed) ==
  IF Own \in listed THEN Own
  ELSE IF Cardinality(listed) = 1 THEN CHOOSE e \in listed : TRUE
  ELSE None

\* History: what the rule can find as things stand, and by which step.
Recognised ==
  ({"anchor"} \X (seen \cap {Own})) \cup ({"stored"} \X (seen \cap Stored))
  \cup ({"recent"} \X Recent)
  \cup ({"fallback"} \X {e \in Events : seen = {e}})

\* Mutant: enumerate from 0.
SeriesFromZero(date) == {date} \X (0..Expire)

\* The jobs of a user without a session, as one date's.
Series(date) == {date} \X Kinds

\* Mutant: job ids are only compared with those of the same date.
ReplaceJobsOfDate(desired) ==
  jobs' = desired \cup {j \in jobs : \A k \in desired : k[1] # j[1]}

\* The end of a reconciliation: the jobs of the scope become the desired ones.
ReplaceJobs(desired) == jobs' = desired

Goto(t, pc) == task' = [task EXCEPT ![t].pc = pc]
Stop(t) == task' = [task EXCEPT ![t] = Idle]

\* What a read answers: the truth, or nothing when an error text comes back.
Shown == IF up THEN seen ELSE {}
Read(t) == [task[t] EXCEPT !.unread = @ \/ (t = Dispatcher /\ ~up)]

\* The rule's answer: a reconciliation replaces the jobs, a dispatch goes on to
\* its card or, having found a session, to the anchor.
Answer(t, missing) ==
  IF t = Dispatcher
  THEN /\ task' = [task EXCEPT ![t] =
            [Idle EXCEPT !.pc = IF missing THEN "post" ELSE "refresh",
                         !.unread = Read(t).unread]]
       /\ UNCHANGED jobs
  ELSE /\ Stop(t)
       /\ ReplaceJobs(IF missing THEN Series(task[t].date) ELSE {})

\* A read that raises ends a reconciliation with its jobs as they were; a
\* dispatch asks its own rows instead.
Raise(t) ==
  /\ ~up
  /\ task' = [task EXCEPT ![t] = IF t = Dispatcher
                                 THEN [Idle EXCEPT !.pc = "failed", !.unread = TRUE]
                                 ELSE Idle]
  /\ UNCHANGED jobs

----------------------------------------------------------------------------
(* PlanningSessionRule.evaluate, one action per await *)

\* get_event of the anchor.
GetAnchorEvent(t) ==
  /\ task[t].pc = "event"
  /\ \/ Raise(t)
     \/ /\ task[t].event \in Shown
        /\ Answer(t, FALSE)
     \/ /\ task[t].event \notin Shown
        /\ task' = [task EXCEPT ![t] = [Read(t) EXCEPT !.pc = "stored", !.event = None]]
        /\ UNCHANGED jobs
  /\ UNCHANGED <<seen, lagging, up, rows, anchor, activity, happened>>

\* Mutant: a row is only as good as its event.
NoneFresh(t) == {}

\* _is_recent_local_stored_session: rows within the grace at the task's `now',
\* or written since.
FreshRows(t) == Stored \cap (task[t].fresh \cup Recent)

\* list_for_user_between.
ListSessions(t) ==
  /\ task[t].pc = "stored"
  /\ task' = [task EXCEPT ![t].pc = "refs", ![t].refs = Stored,
                          ![t].fresh = FreshRows(t)]
  /\ UNCHANGED <<seen, lagging, up, rows, anchor, jobs, activity, happened>>

\* get_event of the next listed row: the event, or the row's word for it while
\* the row is within the grace.
GetStoredEvent(t) ==
  /\ task[t].pc = "refs"
  /\ \E e \in task[t].refs :
       \/ Raise(t)
       \/ /\ e \in Shown \cup task[t].fresh
          /\ Answer(t, FALSE)
       \/ /\ e \notin Shown \cup task[t].fresh
          /\ task' = [task EXCEPT ![t] = [Read(t) EXCEPT !.refs = @ \ {e}]]
          /\ UNCHANGED jobs
  /\ UNCHANGED <<seen, lagging, up, rows, anchor, activity, happened>>

\* list_events, once no row is left.
ListEvents(t) ==
  /\ task[t].pc = "refs" /\ task[t].refs = {}
  /\ \/ Raise(t)
     \/ LET found == Fallback(Shown) IN
        IF found # None
        THEN /\ task' = [task EXCEPT ![t].pc = "sync", ![t].event = found]
             /\ UNCHANGED jobs
        ELSE Answer(t, TRUE)
  /\ UNCHANGED <<seen, lagging, up, rows, anchor, activity, happened>>

\* An upsert of a planning_session_ref: the event's row, a new one, or the row
\* of another event on the same date taken over.  The store may refuse it
\* (both unique keys taken, by different rows), which its callers swallow.
UpsertRow(e) ==
  \/ rows' = [rows EXCEPT ![e] = "recent"]
  \/ /\ rows[e] = "none"
     /\ \E f \in Stored : rows' = [rows EXCEPT ![e] = "recent", ![f] = "none"]
  \/ UNCHANGED rows

\* _sync_fallback_session_record.
SyncFallback(t) ==
  /\ task[t].pc = "sync"
  /\ UpsertRow(task[t].event)
  /\ Answer(t, FALSE)
  /\ UNCHANGED <<seen, lagging, up, anchor, activity, happened>>

Evaluate(t) ==
  \/ GetAnchorEvent(t)
  \/ ListSessions(t)
  \/ GetStoredEvent(t)
  \/ ListEvents(t)
  \/ SyncFallback(t)
----------------------------------------------------------------------------
(* What starts a reconciliation *)

\* reconcile_all, by cron.
DailyReconcile ==
  /\ task[Cron].pc = "idle"
  /\ anchor # None
  /\ task' = [task EXCEPT ![Cron] = Start("event", "free", anchor)]
  /\ UNCHANGED <<seen, lagging, up, rows, anchor, jobs, activity, happened>>

\* maybe_register_user, on every message of the user.
Message(p) ==
  /\ task[p].pc = "idle"
  /\ task' = [task EXCEPT ![p] = Start("anchor", "guarded", Own)]
  /\ UNCHANGED <<seen, lagging, up, rows, anchor, jobs, activity, happened>>

\* The upsert of the anchor, by ensure_anchor or for a recreated event.
WriteAnchor(p) ==
  /\ task[p].pc = "anchor"
  /\ anchor' = task[p].event
  /\ task' = [task EXCEPT ![p].pc = "lookup", ![p].event = None]
  /\ UNCHANGED <<seen, lagging, up, rows, jobs, activity, happened>>

\* reconcile_user reads the anchor, then takes the time.
ReconcileUser(p) ==
  /\ task[p].pc = "lookup"
  /\ task' = [task EXCEPT ![p] =
       IF anchor = None THEN Idle ELSE Start("event", @.origin, anchor)]
  /\ UNCHANGED <<seen, lagging, up, rows, anchor, jobs, activity, happened>>

\* The guards around start-up and a message's registration time out and cancel.
Cancel(p) ==
  /\ task[p].pc # "idle"
  /\ task[p].origin = "guarded"
  /\ Stop(p)
  /\ UNCHANGED <<seen, lagging, up, rows, anchor, jobs, activity, happened>>

\* A planning card put the session on the calendar, under the user's own id or,
\* when that event was cancelled, under one of the server's.
AddToCalendar(p, e) ==
  /\ up /\ happened < MaxEvents
  /\ task[p].pc = "idle"
  /\ happened' = happened + 1
  /\ lagging' = lagging \cup ({e} \ seen)
  /\ task' = [task EXCEPT ![p] = Start("row", "free", e)]
  /\ UNCHANGED <<seen, up, rows, anchor, jobs, activity>>

\* The card's task then records the session.
RecordAdded(p) ==
  /\ task[p].pc = "row"
  /\ UpsertRow(task[p].event)
  /\ task' = [task EXCEPT ![p] = IF @.event = Own THEN Start("lookup", "free", None)
                                ELSE [@ EXCEPT !.pc = "anchor"]]
  /\ UNCHANGED <<seen, lagging, up, anchor, jobs, activity, happened>>
----------------------------------------------------------------------------
(* The activity tracker *)

\* A reconciliation begun by the idle watch is part of the watch's task, which
\* a new watch replaces and the end of the session cancels.
CancelIdleWatch ==
  task' = [t \in Tasks |->
    IF task[t].pc # "idle" /\ task[t].origin = "watch" THEN Idle ELSE task[t]]

MarkActive ==
  /\ activity' = "active"
  /\ CancelIdleWatch
  /\ UNCHANGED <<seen, lagging, up, rows, anchor, jobs, happened>>

MarkInactive ==
  /\ activity' = "none"
  /\ CancelIdleWatch
  /\ UNCHANGED <<seen, lagging, up, rows, anchor, jobs, happened>>

\* _idle_watch after its timeout.
IdleFires(p) ==
  /\ activity = "active"
  /\ activity' = "unfinished"
  /\ task[p].pc = "idle"
  /\ task' = [task EXCEPT ![p] = Start("lookup", "watch", None)]
  /\ UNCHANGED <<seen, lagging, up, rows, anchor, jobs, happened>>
----------------------------------------------------------------------------
(* A due reminder *)

\* Mutant: a session left unfinished still counts as one.
HasSession == activity # "none"

\* is_active.
IsActive == activity = "active"

\* A job is due once none of its series is due before it; the job is gone
\* whether or not its reminder is dispatched.
JobFires ==
  /\ task[Dispatcher].pc = "idle"
  /\ \E j \in jobs :
       /\ \A k \in jobs : k[1] = j[1] => j[2] <= k[2]
       /\ jobs' = jobs \ {j}
  /\ IF IsActive
     THEN UNCHANGED task
     ELSE task' = [task EXCEPT ![Dispatcher] = Start("anchor", "free", Own)]
  /\ UNCHANGED <<seen, lagging, up, rows, anchor, activity, happened>>

\* The direct message is opened and the anchor ensured; then the rule is run
\* again on the anchor it returned.
DispatchAnchor ==
  /\ task[Dispatcher].pc = "anchor"
  /\ IF up
     THEN /\ anchor' = Own
          /\ task' = [task EXCEPT ![Dispatcher] = Start("event", "free", Own)]
     ELSE /\ Stop(Dispatcher)
          /\ UNCHANGED anchor
  /\ UNCHANGED <<seen, lagging, up, rows, jobs, activity, happened>>

\* _maybe_refresh_anchor_from_refs with the row that comes first.
RefreshAnchor ==
  IF Stored = {} THEN UNCHANGED anchor
  ELSE \E e \in Stored : anchor' = e

\* Planning is there: the reminder is dropped as stale.
DropStale ==
  /\ task[Dispatcher].pc = "refresh"
  /\ RefreshAnchor
  /\ Stop(Dispatcher)
  /\ UNCHANGED <<seen, lagging, up, rows, jobs, activity, happened>>

\* The calendar could not be read: the stored rows decide.
FailSoftOrOpen ==
  /\ task[Dispatcher].pc = "failed"
  /\ IF Stored # {}
     THEN RefreshAnchor /\ Stop(Dispatcher)
     ELSE Goto(Dispatcher, "post") /\ UNCHANGED anchor
  /\ UNCHANGED <<seen, lagging, up, rows, jobs, activity, happened>>

\* The draft is created and its card posted; without Slack there is no card.
PostCard ==
  /\ task[Dispatcher].pc = "post"
  /\ IF up THEN Goto(Dispatcher, "posted") ELSE Stop(Dispatcher)
  /\ UNCHANGED <<seen, lagging, up, rows, anchor, jobs, activity, happened>>

AttachMessage ==
  /\ task[Dispatcher].pc = "posted"
  /\ Stop(Dispatcher)
  /\ UNCHANGED <<seen, lagging, up, rows, anchor, jobs, activity, happened>>

DispatchStep ==
  \/ DispatchAnchor
  \/ Evaluate(Dispatcher)
  \/ DropStale
  \/ FailSoftOrOpen
  \/ PostCard
  \/ AttachMessage
----------------------------------------------------------------------------
(* The calendar, the clock and the process *)

\* The user adds, moves or deletes an event, or its time passes.
UserChanges(e) ==
  /\ happened < MaxEvents
  /\ happened' = happened + 1
  /\ seen' = IF e \in seen THEN seen \ {e} ELSE seen \cup {e}
  /\ lagging' = lagging \ {e}
  /\ UNCHANGED <<up, rows, anchor, jobs, activity, task>>

Propagate(e) ==
  /\ e \in lagging
  /\ lagging' = lagging \ {e}
  /\ seen' = seen \cup {e}
  /\ UNCHANGED <<up, rows, anchor, jobs, activity, task, happened>>

\* The calendar and Slack fail and recover.
Outage ==
  /\ up' = ~up
  /\ up => happened < MaxEvents
  /\ happened' = IF up THEN happened + 1 ELSE happened
  /\ UNCHANGED <<seen, lagging, rows, anchor, jobs, activity, task>>

\* The grace of every row passes.
RowsAge ==
  /\ Recent # {}
  /\ rows' = [e \in Events |-> IF rows[e] = "none" THEN "none" ELSE "old"]
  /\ UNCHANGED <<seen, lagging, up, anchor, jobs, activity, task, happened>>

\* Midnight, with some rows leaving the window.  The last job of a series is
\* due a day after it was made, so none is left two dates later.
NextDay ==
  /\ happened < MaxEvents
  /\ happened' = happened + 1
  /\ Recent = {}
  /\ \A j \in jobs : j[1] = "today"
  /\ \A p \in Reconcilers : task[p].date = "today"
  /\ jobs' = {"yesterday"} \X {j[2] : j \in jobs}
  /\ task' = [t \in Tasks |->
       IF t # Dispatcher /\ task[t].pc \in {"event", "stored", "refs", "sync"}
       THEN [task[t] EXCEPT !.date = "yesterday"] ELSE task[t]]
  /\ \E gone \in SUBSET Stored :
       rows' = [e \in Events |-> IF e \in gone THEN "none" ELSE rows[e]]
  /\ UNCHANGED <<seen, lagging, up, anchor, activity>>

\* The process dies with its jobs and tasks, and starts with a reconciliation.
Restart ==
  /\ happened < MaxEvents
  /\ happened' = happened + 1
  /\ jobs' = {}
  /\ activity' = "none"
  /\ task' = [[t \in Tasks |-> Idle] EXCEPT ![Cron] =
       IF anchor = None THEN Idle ELSE Start("event", "guarded", anchor)]
  /\ UNCHANGED <<seen, lagging, up, rows, anchor>>
----------------------------------------------------------------------------
Step(p) == WriteAnchor(p) \/ ReconcileUser(p) \/ RecordAdded(p) \/ Evaluate(p)

Begin(p) ==
  \/ Message(p)
  \/ IdleFires(p)
  \/ \E e \in Events : AddToCalendar(p, e)

Environment ==
  \/ \E e \in Events : UserChanges(e) \/ Propagate(e)
  \/ Outage
  \/ RowsAge
  \/ NextDay
  \/ MarkActive
  \/ MarkInactive

\* History: covered restarts with each dispatch and then only shrinks.
Track ==
  covered' = IF task[Dispatcher].pc = "idle" THEN Recognised'
             ELSE covered \cap Recognised'

Init ==
  /\ seen \in SUBSET Events
  /\ lagging = {}
  /\ up = TRUE
  /\ rows = [e \in Events |-> "none"]
  /\ anchor = None
  /\ jobs = {}
  /\ activity = "none"
  /\ task = [t \in Tasks |-> Idle]
  /\ covered = Recognised
  /\ happened = 0

Next ==
  /\ \/ \E p \in Reconcilers : Step(p) \/ Cancel(p)
     \/ \E p \in Procs : Begin(p)
     \/ DailyReconcile
     \/ Restart
     \/ JobFires
     \/ DispatchStep
     \/ Environment
  /\ Track

\* Nobody but cron reconciles the user.
Undisturbed == \A p \in Procs : task[p].pc = "idle"

\* The loop runs every task that can run, and cron fires every day, whatever the
\* other tasks do.  A pending job comes due while only cron renews the series:
\* any other reconciliation puts it off by the first offset, and may do so for
\* ever.
Fairness ==
  /\ \A p \in Reconcilers : WF_vars(Step(p) /\ Track)
  /\ WF_vars(DispatchStep /\ Track)
  /\ WF_vars(JobFires /\ Undisturbed /\ Track)
  /\ WF_vars(DailyReconcile /\ Track)

Spec == Init /\ [][Next]_vars /\ Fairness
----------------------------------------------------------------------------
TypeOK ==
  /\ seen \subseteq Events
  /\ lagging \subseteq Events \ seen
  /\ up \in BOOLEAN
  /\ rows \in [Events -> {"none", "recent", "old"}]
  /\ anchor \in Events \cup {None}
  /\ jobs \subseteq Jobs
  /\ activity \in {"none", "active", "unfinished"}
  /\ task \in [Tasks -> Task]
  /\ covered \subseteq {"anchor", "stored", "recent", "fallback"} \X Events
  /\ happened \in 0..MaxEvents

\* However reconciliations of one user interleave, over midnight too, the
\* reminders pending for the user are what is left of one series: the last to
\* finish replaced all jobs (reconcile.py:639-658).
OneSeries ==
  \E d \in Dates, k \in 1..(Expire + 1) : jobs = {d} \X (k..Expire)

\* The jobs and the dispatch, of all that goes on here.
Reminders == INSTANCE ReminderSeries WITH
  Length <- Expire, due <- (task[Dispatcher].pc # "idle")

\* Reconciliations, reads and messages in any order amount to what the abstract
\* specification allows: whole series in, whole series out, one reminder at a
\* time (reconcile.py:619-660, planning.py:324-481).
ImplementsSeries == Reminders!Spec

\* A card is not posted to a user whose session was on the calendar, and could
\* be recognised, ever since the reminder came due, unless a read of this
\* dispatch of the reminder failed (planning.py:350-361, 495-561).
NoStaleCard ==
  [][/\ task[Dispatcher].pc = "post" /\ task'[Dispatcher].pc = "posted"
     /\ ~task[Dispatcher].unread
     => covered = {}]_vars

\* Once planning stays recognisable on a calendar that answers, the pending
\* reminders end up removed for good, whatever stale reconciliations finish.
PlannedSilences ==
  (\E e \in Events : <>[](up /\ e \in seen /\ (seen = {e} \/ e \in {Own} \cup Stored)))
    => <>[](jobs = {})

\* Said of the dispatch when it cannot read the calendar (planning.py:546-552):
\* a stored session suppresses the reminder.
FailSoft ==
  [][/\ task[Dispatcher].pc = "post" /\ task'[Dispatcher].pc = "posted"
     => \A e \in Events : <<"stored", e>> \notin covered]_vars

\* While planning stays missing and the user writes nothing more, cards keep
\* coming, whatever became of the jobs: used up while a timeboxing session was
\* active, lost in a restart or with a cancelled reconciliation
\* (planning_guardian.py:41-56, planning.py:324-333).
MissingIsNagged ==
  (<>[](/\ up /\ seen = {} /\ Recent = {}
        /\ anchor # None /\ activity # "active" /\ Undisturbed))
    => []<>(task[Dispatcher].pc = "posted")
=============================================================================
