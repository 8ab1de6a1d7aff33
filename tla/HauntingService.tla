--------------------------- MODULE HauntingService ---------------------------
(***************************************************************************)
(* The follow-up service (src/fateforger/haunt/service.py) with the agent  *)
(* that turns a due follow-up into a message (haunt/agents.py).            *)
(*                                                                         *)
(* Everything runs on one asyncio loop, so an action is the code between   *)
(* two suspension points.  The sections under `_lock' contain no real      *)
(* suspension, so each is one action together with the code up to the next *)
(* await that can suspend: the settings query (a database call), the       *)
(* message to HauntingAgent, the message to the user channel.              *)
(*                                                                         *)
(* The scheduler (APScheduler) is external: a date job is in its store     *)
(* until it fires, it runs at most one instance of a job id at a time      *)
(* (max_instances = 1) and drops one that is late by more than its misfire *)
(* grace time.  Delays are not modelled: a job may fire at any moment      *)
(* after it was added.                                                     *)
(***************************************************************************)
EXTENDS Naturals, FiniteSets

CONSTANTS
  Messages,       \* message ids; a tool call may reuse one
  Topics, Tasks,  \* the two keys a follow-up can be cancelled by
  Callers,        \* concurrent schedule_followup calls
  Specs,          \* the FollowUpSpecs callers pass
  SettingsRows,   \* the settings a user can store
  MaxSchedules,   \* bound: records ever created
  None            \* Python's None

Gens == 1..MaxSchedules

\* What a PendingFollowUp keeps, and which schedule call created it.
Record == [topic: Topics \cup {None}, task: Tasks \cup {None},
           max: Nat \ {0}, cancel: BOOLEAN, attempt: Nat, gen: Gens]

Spec_ == [should: BOOLEAN, after: Nat \cup {None},
          max: Nat \cup {None}, cancel: BOOLEAN \cup {None}]

Settings == [enabled: BOOLEAN, delay: Nat \ {0}, max: Nat \ {0}, cancel: BOOLEAN]

ASSUME HauntingAssumption ==
  /\ MaxSchedules \in Nat
  /\ None \notin Topics \cup Tasks \cup Record \cup Settings \cup Nat \cup BOOLEAN
  /\ Specs \subseteq Spec_
  /\ SettingsRows \subseteq Settings

VARIABLES
  pending,     \* _pending: message id -> record, None when absent
  topicIndex,  \* _topic_index: topic -> message ids
  taskIndex,   \* _task_index
  jobs,        \* message ids with a job in the scheduler
  dispatch,    \* the running _dispatch_followup of a message, if any
  call,        \* schedule_followup calls waiting for the settings query
  settings,    \* the user's row in the settings store
  misfired,    \* history: messages whose current record's job was dropped
  schedules,   \* history: records created so far; the n-th is generation n
  quota,       \* history: the max_attempts of each record
  fired,       \* history: the dispatches that began with each record
  delivered,   \* history: the messages posted for each record
  late         \* history: the records something was posted for once gone

history == <<quota, fired, delivered, late>>

vars == <<pending, topicIndex, taskIndex, jobs, dispatch, call, settings,
          misfired, schedules, history>>
----------------------------------------------------------------------------
(* schedule_followup *)

Live(m) == pending[m] # None

\* A record, or one already gone, that schedule call g created.
LiveGen(g) == \E m \in Messages : Live(m) /\ pending[m].gen = g

\* _apply_settings: the spec's own fields first, then the user's settings,
\* then the defaults.
Default(own, s, field, otherwise) ==
  IF own # None THEN own ELSE IF s # None THEN s[field] ELSE otherwise

\* Mutant: the default of cancel_on_user_reply is forgotten.
EffectiveWithoutDefault(spec, s) ==
  [after  |-> Default(spec.after, s, "delay", None),
   max    |-> Default(spec.max, s, "max", 2),
   cancel |-> spec.cancel]

Effective(spec, s) ==
  [after  |-> Default(spec.after, s, "delay", None),
   max    |-> Default(spec.max, s, "max", 2),
   cancel |-> Default(spec.cancel, s, "cancel", TRUE)]

Schedulable(spec, s) ==
  /\ spec.should
  /\ s # None => s.enabled
  /\ Effective(spec, s).after \notin {None, 0}
  /\ Effective(spec, s).max >= 1

\* Mutant: the record a message had before stays in its old topic's set.
ReindexedOnly(index, key, m) ==
  [k \in DOMAIN index |-> IF k = key THEN index[k] \cup {m} ELSE index[k]]

\* _store_record after _remove_record of the message's earlier record.
Reindexed(index, key, m) ==
  [k \in DOMAIN index |-> IF k = key THEN index[k] \cup {m} ELSE index[k] \ {m}]

\* A request that passed the guards: what the record will hold.
Request == [msg: Messages, topic: Topics \cup {None}, task: Tasks \cup {None},
            max: Nat \ {0}, cancel: BOOLEAN]

Requested(m, topic, task, spec, s) ==
  [msg |-> m, topic |-> topic, task |-> task,
   max |-> Effective(spec, s).max, cancel |-> Effective(spec, s).cancel]

\* Under the lock: replace the message's record and its job.
Commit(r) ==
  LET g == schedules + 1 IN
  /\ schedules < MaxSchedules
  /\ schedules' = g
  /\ pending' = [pending EXCEPT ![r.msg] =
       [topic |-> r.topic, task |-> r.task, max |-> r.max, cancel |-> r.cancel,
        attempt |-> 0, gen |-> g]]
  /\ topicIndex' = Reindexed(topicIndex, r.topic, r.msg)
  /\ taskIndex' = Reindexed(taskIndex, r.task, r.msg)
  /\ jobs' = jobs \cup {r.msg}
  /\ misfired' = misfired \ {r.msg}
  /\ quota' = [quota EXCEPT ![g] = r.max]
  /\ UNCHANGED <<fired, delivered, late>>

\* A call for a known user suspends in the settings query; what it resumes
\* with was computed from a row that may be stale by then.
BeginSchedule(c, m, topic, task, spec) ==
  /\ call[c] = None
  /\ schedules < MaxSchedules
  /\ Schedulable(spec, settings)
  /\ call' = [call EXCEPT ![c] = Requested(m, topic, task, spec, settings)]
  /\ UNCHANGED <<pending, topicIndex, taskIndex, jobs, dispatch, settings,
                 schedules, history, misfired>>

FinishSchedule(c) ==
  /\ call[c] # None
  /\ Commit(call[c])
  /\ call' = [call EXCEPT ![c] = None]
  /\ UNCHANGED <<dispatch, settings>>

\* A message without a user reads no settings, and nothing suspends.
ScheduleAnonymous(m, topic, task, spec) ==
  /\ Schedulable(spec, None)
  /\ Commit(Requested(m, topic, task, spec, None))
  /\ UNCHANGED <<dispatch, call, settings>>

UpsertSettings(row) ==
  /\ settings' = row
  /\ UNCHANGED <<pending, topicIndex, taskIndex, jobs, dispatch, call,
                 schedules, history, misfired>>
----------------------------------------------------------------------------
(* cancel_followups and record_user_activity *)

\* Mutant: the job is not unscheduled.
RemoveButJob(ids) ==
  /\ pending' = [m \in Messages |-> IF m \in ids THEN None ELSE pending[m]]
  /\ topicIndex' = [k \in Topics |->
       topicIndex[k] \ {m \in ids : Live(m) /\ pending[m].topic = k}]
  /\ taskIndex' = [k \in Tasks |->
       taskIndex[k] \ {m \in ids : Live(m) /\ pending[m].task = k}]
  /\ misfired' = misfired \ ids
  /\ UNCHANGED jobs

\* _remove_record of every pending record in ids, with its job.
Remove(ids) ==
  /\ pending' = [m \in Messages |-> IF m \in ids THEN None ELSE pending[m]]
  /\ topicIndex' = [k \in Topics |->
       topicIndex[k] \ {m \in ids : Live(m) /\ pending[m].topic = k}]
  /\ taskIndex' = [k \in Tasks |->
       taskIndex[k] \ {m \in ids : Live(m) /\ pending[m].task = k}]
  /\ jobs' = jobs \ {m \in ids : Live(m)}
  /\ misfired' = misfired \ ids

Indexed(topic, task) ==
  (IF topic = None THEN {} ELSE topicIndex[topic]) \cup
  (IF task = None THEN {} ELSE taskIndex[task])

CancelFollowups(msgs, topic, task) ==
  /\ Remove(msgs \cup Indexed(topic, task))
  /\ UNCHANGED <<dispatch, call, settings, schedules, history>>

\* Two sections under the lock, with no suspension between them.
RecordUserActivity(topic, task) ==
  /\ Remove({m \in Indexed(topic, task) : Live(m) /\ pending[m].cancel})
  /\ UNCHANGED <<dispatch, call, settings, schedules, history>>
----------------------------------------------------------------------------
(* _dispatch_followup and HauntingAgent.handle_followup_due *)

\* How far a run of _dispatch_followup is, and the record it is posting.
Run == [phase: {"sending"}, gen: Gens]
       \cup [phase: {"idle", "ready", "due", "sent"}, gen: Gens \cup {0}]

Idle == [phase |-> "idle", gen |-> 0]

\* The job fires: the scheduler makes a task of it.  While an earlier run of
\* the same job id is going, it skips the job.
FireJob(m) ==
  /\ m \in jobs
  /\ jobs' = jobs \ {m}
  /\ dispatch' = IF dispatch[m] = Idle
       THEN [dispatch EXCEPT ![m] = [phase |-> "ready", gen |-> 0]]
       ELSE dispatch
  /\ UNCHANGED <<pending, topicIndex, taskIndex, call, settings, misfired,
                 schedules, history>>

\* The task starts: the record the message has by then, if any, is read and
\* the due notice goes to the agent.
BeginDispatch(m) ==
  /\ dispatch[m].phase = "ready"
  /\ IF Live(m)
     THEN /\ dispatch' = [dispatch EXCEPT ![m] = [phase |-> "due", gen |-> 0]]
          /\ fired' = [fired EXCEPT ![pending[m].gen] = @ + 1]
     ELSE /\ dispatch' = [dispatch EXCEPT ![m] = Idle]
          /\ UNCHANGED fired
  /\ UNCHANGED <<pending, topicIndex, taskIndex, jobs, call, settings, misfired,
                 schedules, quota, delivered, late>>

\* The loop was busy when the job was due: it is dropped, the record stays.
Misfire(m) ==
  /\ m \in jobs
  /\ jobs' = jobs \ {m}
  /\ misfired' = misfired \cup {m}
  /\ UNCHANGED <<pending, topicIndex, taskIndex, dispatch, call, settings,
                 schedules, history>>

\* HauntingAgent looks the record up again; without one it sends nothing.
HandleDue(m) ==
  /\ dispatch[m].phase = "due"
  /\ dispatch' = [dispatch EXCEPT ![m] =
       IF Live(m) THEN [phase |-> "sending", gen |-> pending[m].gen]
                  ELSE [phase |-> "sent", gen |-> 0]]
  /\ UNCHANGED <<pending, topicIndex, taskIndex, jobs, call, settings,
                 schedules, history, misfired>>

\* Mutant: a post that seems to have failed is repeated.
DeliverAgain(m) ==
  LET g == dispatch[m].gen IN
  /\ dispatch[m].phase = "sending"
  /\ dispatch' \in {dispatch, [dispatch EXCEPT ![m] = [phase |-> "sent", gen |-> g]]}
  /\ delivered' = [delivered EXCEPT ![g] = @ + 1]
  /\ late' = IF LiveGen(g) THEN late ELSE late \cup {g}
  /\ UNCHANGED <<pending, topicIndex, taskIndex, jobs, call, settings,
                 misfired, schedules, quota, fired>>

\* The user channel posts the message.
Deliver(m) ==
  LET g == dispatch[m].gen IN
  /\ dispatch[m].phase = "sending"
  /\ dispatch' = [dispatch EXCEPT ![m] = [phase |-> "sent", gen |-> g]]
  /\ delivered' = [delivered EXCEPT ![g] = @ + 1]
  /\ late' = IF LiveGen(g) THEN late ELSE late \cup {g}
  /\ UNCHANGED <<pending, topicIndex, taskIndex, jobs, call, settings,
                 misfired, schedules, quota, fired>>

\* Mutant: a failure counts the attempt, and the second half does so again.
FailCounted(m) ==
  /\ dispatch[m].phase \in {"due", "sending"}
  /\ dispatch' = [dispatch EXCEPT ![m] = [phase |-> "sent", gen |-> 0]]
  /\ pending' = IF Live(m) THEN [pending EXCEPT ![m].attempt = @ + 1] ELSE pending
  /\ UNCHANGED <<topicIndex, taskIndex, jobs, call, settings,
                 schedules, history, misfired>>

\* The dispatcher or the user channel raises (or no dispatcher is set): the
\* exception is logged and the attempt counts all the same.
DispatchFails(m) ==
  /\ dispatch[m].phase \in {"due", "sending"}
  /\ dispatch' = [dispatch EXCEPT ![m] = [phase |-> "sent", gen |-> 0]]
  /\ UNCHANGED <<pending, topicIndex, taskIndex, jobs, call, settings,
                 schedules, history, misfired>>

\* Mutant: off by one.
ExhaustedLate(r) == r.attempt >= r.max

Exhausted(r) == r.attempt + 1 >= r.max

\* Mutant: the second half goes by the record read before the await.
FinishCaptured(m) ==
  LET g == dispatch[m].gen IN
  /\ dispatch[m].phase = "sent"
  /\ dispatch' = [dispatch EXCEPT ![m] = Idle]
  /\ IF g = 0 \/ quota[g] < 2
     THEN UNCHANGED <<pending, jobs>>
     ELSE /\ pending' = [pending EXCEPT ![m] =
               [topic |-> None, task |-> None, max |-> quota[g], cancel |-> TRUE,
                attempt |-> 1, gen |-> g]]
          /\ jobs' = jobs \cup {m}
  /\ UNCHANGED <<topicIndex, taskIndex, misfired, call, settings, schedules, history>>

\* Mutant: the attempt is counted, its job forgotten.
FinishWithoutJob(m) ==
  /\ dispatch[m].phase = "sent"
  /\ dispatch' = [dispatch EXCEPT ![m] = Idle]
  /\ \/ /\ ~Live(m)
        /\ UNCHANGED <<pending, topicIndex, taskIndex, jobs, misfired>>
     \/ /\ Live(m) /\ Exhausted(pending[m])
        /\ Remove({m})
     \/ /\ Live(m) /\ ~Exhausted(pending[m])
        /\ pending' = [pending EXCEPT ![m].attempt = @ + 1]
        /\ UNCHANGED <<topicIndex, taskIndex, jobs, misfired>>
  /\ UNCHANGED <<call, settings, schedules, history>>

\* The second half, on whatever record the message has now: retire it, or
\* count the attempt and schedule the next one.
FinishDispatch(m) ==
  /\ dispatch[m].phase = "sent"
  /\ dispatch' = [dispatch EXCEPT ![m] = Idle]
  /\ \/ /\ ~Live(m)
        /\ UNCHANGED <<pending, topicIndex, taskIndex, jobs, misfired>>
     \/ /\ Live(m) /\ Exhausted(pending[m])
        /\ Remove({m})
     \/ /\ Live(m) /\ ~Exhausted(pending[m])
        /\ pending' = [pending EXCEPT ![m].attempt = @ + 1]
        /\ jobs' = jobs \cup {m}
        /\ misfired' = misfired \ {m}
        /\ UNCHANGED <<topicIndex, taskIndex>>
  /\ UNCHANGED <<call, settings, schedules, history>>
----------------------------------------------------------------------------
Init ==
  /\ pending = [m \in Messages |-> None]
  /\ topicIndex = [k \in Topics |-> {}]
  /\ taskIndex = [k \in Tasks |-> {}]
  /\ jobs = {}
  /\ dispatch = [m \in Messages |-> Idle]
  /\ call = [c \in Callers |-> None]
  /\ settings = None
  /\ schedules = 0
  /\ quota = [g \in Gens |-> 0]
  /\ fired = [g \in Gens |-> 0]
  /\ delivered = [g \in Gens |-> 0]
  /\ late = {}
  /\ misfired = {}

Schedule ==
  \/ \E m \in Messages, t \in Topics \cup {None}, k \in Tasks \cup {None}, s \in Specs :
       \/ \E c \in Callers : BeginSchedule(c, m, t, k, s)
       \/ ScheduleAnonymous(m, t, k, s)
  \/ \E c \in Callers : FinishSchedule(c)

Cancel ==
  \E t \in Topics \cup {None}, k \in Tasks \cup {None} :
    \/ \E msgs \in {{}} \cup {{m} : m \in Messages} : CancelFollowups(msgs, t, k)
    \/ RecordUserActivity(t, k)

Dispatch(m) ==
  FireJob(m) \/ BeginDispatch(m) \/ HandleDue(m) \/ Deliver(m) \/ FinishDispatch(m)

Next ==
  \/ Schedule
  \/ Cancel
  \/ \E row \in SettingsRows : UpsertSettings(row)
  \/ \E m \in Messages : Dispatch(m) \/ Misfire(m) \/ DispatchFails(m)

\* The loop runs every ready task, the scheduler fires every due job.
Fairness ==
  \A m \in Messages :
    /\ WF_vars(FireJob(m)) /\ WF_vars(BeginDispatch(m))
    /\ WF_vars(HandleDue(m)) /\ WF_vars(Deliver(m)) /\ WF_vars(FinishDispatch(m))

Spec == Init /\ [][Next]_vars /\ Fairness
----------------------------------------------------------------------------
(* Properties *)

\* Every variable keeps the shape the service gives it.
TypeOK ==
  /\ pending \in [Messages -> Record \cup {None}]
  /\ topicIndex \in [Topics -> SUBSET Messages]
  /\ taskIndex \in [Tasks -> SUBSET Messages]
  /\ jobs \subseteq Messages
  /\ dispatch \in [Messages -> Run]
  /\ call \in [Callers -> Request \cup {None}]
  /\ settings \in Settings \cup {None}
  /\ schedules \in 0..MaxSchedules
  /\ quota \in [Gens -> Nat] /\ fired \in [Gens -> Nat] /\ delivered \in [Gens -> Nat]
  /\ late \subseteq Gens
  /\ misfired \subseteq Messages

\* However schedule calls, cancellations and dispatches interleave, the two
\* indexes list exactly the pending records of a topic or task, so a user's
\* reply finds every follow-up it should cancel and no stale id.
IndexesMirrorPending ==
  /\ \A k \in Topics : topicIndex[k] = {m \in Messages : Live(m) /\ pending[m].topic = k}
  /\ \A k \in Tasks : taskIndex[k] = {m \in Messages : Live(m) /\ pending[m].task = k}

\* A pending record always has something that will drive it on (a job or a
\* dispatch that has yet to finish) unless the scheduler dropped its job, and
\* no job outlives its record.
PendingHasDriver ==
  \A m \in Messages :
    /\ Live(m) => m \in jobs \/ dispatch[m] # Idle \/ m \in misfired
    /\ m \in jobs => Live(m)

\* Replacement, cancellation, failures and the second half of a dispatch that
\* finds another record than the one it read never give a follow-up more
\* deliveries than its max_attempts.
DeliveriesBounded ==
  \A g \in Gens : delivered[g] <= quota[g]

\* A pending record has been charged at most one attempt that no dispatch of
\* its own stands for: the dispatch of the record it replaced.
AttemptsAccounted ==
  \A m \in Messages : Live(m) => pending[m].attempt <= fired[pending[m].gen] + 1

\* A follow-up that was cancelled, replaced or exhausted never comes back: a
\* message without a record only gets one from a new schedule call.
NoResurrection ==
  [][\A m \in Messages : ~Live(m) /\ Live(m)' =>
       pending'[m].attempt = 0 /\ pending'[m].gen = schedules + 1]_vars

\* After a follow-up is gone at most the one message already on its way is
\* still posted for it.
OneLateDelivery ==
  [][\A g \in late : delivered'[g] = delivered[g]]_vars

\* The follow-ups as records and dispatches have them.
Stage(g) == IF g > schedules THEN "new" ELSE IF LiveGen(g) THEN "pending" ELSE "gone"

Sending == {dispatch[m].gen : m \in {n \in Messages : dispatch[n].phase = "sending"}}

Promised == INSTANCE FollowUps WITH
  stage <- [g \in Gens |-> Stage(g)], posted <- delivered, sending <- Sending

\* Schedule calls, replies, settings, timers, dispatches and failures in any order
\* amount to what the abstract specification allows: a follow-up is posted one
\* message at a time and within its max_attempts, begins none once it is gone,
\* and never comes back (service.py:69-252, agents.py:55-75).
ImplementsFollowUps == Promised!Spec

\* Every follow-up is eventually delivered out, cancelled or replaced, unless
\* the scheduler dropped its job.
FollowUpsEnd ==
  \A g \in Gens : LiveGen(g) ~>
    (~LiveGen(g) \/ \E m \in misfired : Live(m) /\ pending[m].gen = g)
=============================================================================
