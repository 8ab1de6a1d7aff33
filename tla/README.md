# FateForger in TLA+

FateForger is a productivity agent: it lives in Slack, plans a day together with its user,
writes the plan into Google Calendar through an MCP server, and pesters the user afterwards.
One process runs one asyncio loop.  AutoGen's single-threaded runtime handles every message as
a task of that loop, APScheduler's `AsyncIOScheduler` adds timers to it, and everything that is
not Python state in memory is behind an `await`: the calendar server, the databases, Slack, the
LLM.  So there are no data races, and yet handlers, buttons and timers run through each other
at every await.  Those interleavings, and the calls that fail half way, are what these modules
are about.

Source paths below are relative to `src/src/fateforger/`.

## Inventory

| Part | State it keeps | Operations | What makes it correct |
|---|---|---|---|
| Follow-up service (`haunt/service.py`, `agents.py`, `settings_store.py`) | pending records, topic and task index, scheduler jobs, settings rows | schedule, cancel, record user activity, settings, dispatch | replies find what they cancel; nothing is posted more often than asked, comes back, or is forgotten |
| Haunt orchestrator (`haunt/orchestrator.py`, `models.py`, `mixins.py`) | tickets, session index, callbacks, jobs | register, record envelope, acknowledge, calendar hook, dispatch | one chain of attempts per envelope, ended by an acknowledgement |
| Calendar reconciliation (`agents/timeboxing/calendar_reconciliation.py`) | none | match a plan with a day | no duplicates; foreign events are no targets |
| Sync engine (`sync_engine.py`, `sync_core/`) | none (a transaction log per sync) | plan, execute, undo | the calendar ends up as planned, an undo puts it back |
| Timeboxing submission (`agent.py`, `submitter.py`, `mcp_clients.py`) | stage, plan, baseline, cached snapshots, anchors, last transaction, pending flag | confirm, cancel, undo, refresh | what is reported is what the calendar holds |
| Timeboxing stage machine (`flow_graph.py`, `nodes/`, `stage_gating.py`) | stage, gates, frame facts | turns, back, proceed, redo | a stage is not left with its gate open |
| Skeleton pre-generation, prefetch, task marshalling | background tasks of a session | start, adopt, drop | a draft made of old facts is not adopted |
| Plan patching, time resolution (`patching.py`, `tb_ops.py`, `tb_models.py`) | none | apply operations, resolve times | no overlap, anchors hold |
| Constraint memory (`durable_constraint_store.py`, `mem0_…`, `graphiti_…`, `preferences.py`) | constraints with status and lineage | upsert, supersede, archive, query | one active constraint per identity |
| Planning reconciler (`haunt/reconcile.py`, `planning_guardian.py`, `planning_store.py`) | reminder jobs of a user, the anchor event | evaluate, reconcile, nudge | exactly the wanted nudges are scheduled |
| Planning session store (`haunt/planning_session_store.py`) | one row per user and date, or per event | upsert, list, status | one row per session |
| Event drafts and planning cards (`haunt/event_draft_store.py`, `slack_bot/planning.py`) | drafts with a status | propose, edit, add to calendar, retry | an event is added once and the card says so |
| Timeboxing activity tracker (`haunt/timeboxing_activity.py`) | active, unfocused or idle session per user | mark, timer | nudges pause while the user is planning |
| Slack routing and cards (`slack_bot/`) | focus per thread, workspace rows | dispatch, redirect | a message reaches the agent in charge |
| Task, schedular, revisor, receptionist and admonisher agents | what their tools hold | conversations led by an LLM | reminders through the orchestrator |
| Runtime, configuration, integrations, prompts, set-up page | settings | wiring, I/O, text | - |

Left aside altogether: `archive/`, `notebooks/`, `tests/`, `review-system/`, the TRMNL front end,
infrastructure, observability and scripts.

How they interact: Slack handlers turn events and clicks into messages to agents.  The timeboxing
agent drives a session through its stages and, on confirmation, hands the plan to the submitter,
which matches it with a fresh snapshot and writes the difference.  Agents register reminders with
the follow-up service or the orchestrator; both keep a table in memory and one scheduler job per
entry, whose firing re-enters the agent.  The planning reconciler watches the calendar and
replaces a user's nudges in the scheduler; the cards it posts are kept as drafts.

What is hard here: an entry read before an `await` and used after it; a job that fires while its
entry is being replaced, cancelled or still dispatched; jobs that the scheduler drops; a calendar
call that took effect without being heard; a sync that stops half way; snapshots that are stale,
belong to another handler or were misread; ids derived from a plan that keeps changing.
`PROJECT.json` lists these hazards at their lines, with the properties that watch them.

## Modules

| Module | Models | Built on |
|---|---|---|
| `HauntingService` | the follow-up service and the agent that posts | - |
| `HauntOrchestrator` | tickets of envelopes and calendar hooks, for one agent (ids, index keys and callbacks all carry the agent's id, so agents share nothing) | - |
| `FollowUps` | what the service promises about each follow-up: the abstract specification `HauntingService` implements | - |
| `EnvelopeChains` | what the orchestrator promises about each envelope: the abstract specification `HauntOrchestrator` implements | - |
| `CalendarReconciliation` | the four matching passes and what becomes of a match, pure operators | - |
| `SyncEngine` | snapshots, ids, planned operations, their order and compensation, and what the calendar server does with one | `CalendarReconciliation` |
| `TimeboxSubmit` | confirm, cancel and undo of a plan, with the calendar, its failures and the user's own edits | `SyncEngine` |
| `PlanningReconcile` | the reminders of a user without a planning session: rule, reconciler, guardian, activity tracker, and the dispatch of a due reminder | - |
| `ReminderSeries` | what all of that promises about the reminders: the abstract specification `PlanningReconcile` implements | - |
| `PlanningCard` | one planning card: edits, clicks and replies, the task that adds its event, the planner agent's upsert, the session row and the anchor | - |
| `StageMachine` | one timeboxing session: its messages, the turns of its graph, the skeleton drafted ahead, the submission flags | - |
| `PlanPatch` | the plan of stage 4: the draft from the calendar, patch operations, time resolution, and what is accepted as plan and timebox | - |
| `…Proofs` | theorems about the module of that name | that module |
| `Induction` | least numbers, induction and recursion over 0..n, as theorems without an operator parameter | - |
| `MCHauntingService`, `MCTimeboxSubmit`, `MCPlanPatch` | values of the constants for the runs | that module |

An operator whose comment begins with "Mutant:" is a variant of the definition below it with one
plausible mistake; no specification uses it.  It records which mistake the runs catch: each
property of a passing run fails when its definition is replaced by such a variant.

### Follow-ups: `HauntingService`, `FollowUps`

`pending`, `topicIndex`, `taskIndex` and `jobs` are `_pending`, `_topic_index`, `_task_index` and
the scheduler's store.  The sections under `_lock` contain no await that can suspend, so each is
one action together with the code up to the next real suspension point.  A schedule call for a
known user suspends in the settings query (`BeginSchedule`, `FinishSchedule`) and may resume with
a row that has changed; one without a user does not (`ScheduleAnonymous`).  A dispatch is cut at
its awaits: the scheduler makes a task of the job (`FireJob`), the task starts (`BeginDispatch`),
the agent looks the record up (`HandleDue`), the channel posts (`Deliver`), and the second half
counts the attempt on whatever record the message has by then (`FinishDispatch`).  At either
await the dispatch may fail (`DispatchFails`), which counts all the same.  `gen` numbers the
records, so that the history variables can tell a record from its replacement.

The scheduler is external: at most one instance of a job runs, a job that comes due meanwhile is
skipped, and one that is late is dropped (`Misfire`).  That is not far-fetched here: the services
compute run times with `datetime.utcnow()` and hand them to a scheduler that reads naive times in
its local zone (`core/runtime.py:298`), so east of Greenwich every job is late.  Delays and
backoff are not modelled: any job may fire as soon as it is added.

`FollowUps` knows neither messages nor jobs.  A follow-up, one per record ever created, is new, pending or
gone; it may be posted up to its quota, one message at a time; a message may only begin while it is pending,
though it may still arrive when it is gone; and what is gone stays gone.  The mapping reads the stage from
`pending` and the messages on their way from the dispatches in phase "sending".

### Tickets: `HauntOrchestrator`, `EnvelopeChains`

`tickets`, `index`, `jobs` are `_tickets`, `_session_index` and the scheduler's store.  The only
await outside `_lock` is the agent's callback, so a dispatch is `FireJob`, then `Discard` (no
ticket, or no callback registered) or `CallAgent`, then `FollowUp` (the next attempt, a ticket
with a new id) or `EndChain` (the last attempt, or a callback that raised).  Envelopes are numbered;
`called` counts the callbacks of each and `silenced` collects those that were acknowledged,
replaced or finished while no callback ran for them.  An acknowledgement that arrives during a
callback finds no ticket and does not end the chain; the model has that, and no text of the
repository promises otherwise.

`EnvelopeChains` says of each envelope: it waits, is called, waits again, while calls are left, and ends; an
acknowledgement ends it only while it waits.  The mapping (`Chain`) finds an envelope's stage and the calls left
in its ticket or in the callback that has the ticket.

### Submission: `CalendarReconciliation`, `SyncEngine`, `TimeboxSubmit`

A plan is a sequence of `[n, st, et, d]`: summary, start, end in minutes, description.  The calendar is
a set of such entries with ids.  Ids are tagged pairs: `<<"fftb", seed>>` for the agent's, where the seed
stands for the hash's input (`base32hex_id` of date, summary, start and position), `<<"other", x>>`
for everybody else's.  `Matching` runs the four passes; the loop of a pass over the plan, and of its search over the
snapshot, are recursive functions over positions.

A handler of a confirm message is `StartSubmit`, `ListEvents`, then `RefuseSubmit`, `SkipSubmit` or
`PlanSubmit`, one `Write` per calendar call, `RecordTransaction`, `ListEvents` again, `Rebase`.  An
undo is `StartUndo`, `UndoWrite` per call, `FinishUndo`.  A calendar call succeeds, is refused or
fails, or takes effect without its answer being heard (`Call`); a list call also fails
or, where `Unreadable` says so, returns something malformed that the client reads as another day.
The turns of the conversation are one action each (`RefineTurn`, `ReviewTurn`, `CancelSubmit`), and
the user may move or delete entries in the calendar (`UserEdit`).  Replies in a thread are ordered by
a lock, buttons are not, so handlers interleave freely.

Abstracted: colours, event types, time zones and the date (one day, ends after starts, nothing across
midnight); the order in which the server returns events of equal start; the order of updates
among themselves (plan order here, order of the passes there); `event_id_map`, which every
snapshot overwrites before it is read; the committed flag, which only words depend on.

### Reminders: `PlanningReconcile`, `ReminderSeries`

`jobs` are the scheduler's jobs of the user, each a date and a place in its series (the job ids carry
both); `rows` is `planning_session_refs` of the rule's window, `anchor` the row of `planning_anchors`,
`activity` the tracker's session.  A reconciliation is a task that goes through the awaits of
`PlanningSessionRule.evaluate`: the anchor's event, the stored rows, the event of each, the listing, the
upsert of a session the fallback found; only the last step, which replaces the jobs, has no await.  A due
reminder runs the same steps with another end: a card, or the refresh of the anchor.  Messages,
cron, the idle watch and an added session each start a reconciliation, so any number may run at once; those
that a timeout guards, or that are part of an idle watch, may be cancelled at any await.

The calendar shows what it holds (`seen`) with a delay for new events (`lagging`).  In an outage a call may
raise or answer with an error text, which the client reads as nothing (`Shown`).  Time is a
midnight and the age of rows; job times are ranks, and only their order within a series matters.  How the
offsets of a series are computed (`_resolve_nudge_offsets`) is left out.

`ReminderSeries` knows jobs and whether a reminder is being dealt with, and says: whole series in, whole
series out, jobs fire in order, one reminder at a time.

### Cards: `PlanningCard`

`draft` is the row of `event_drafts`, `event` the calendar's events of the card: the draft's own id (0) and
those that the server generates when the own event was deleted.  `rows` and `anchor` are what the records say.
A handler is an interaction and later the task its click created.  Every
access to database, calendar or Slack is an action: pickers read and then write, a click checks the
status, writes it, updates the card and starts the task, which reads the draft again,
asks the calendar (`GetEvent`), writes (`WriteEvent`), verifies (`VerifyEvent`) and records what came of it.
The upsert of the session row is cut at its own await (`LoadRow`, `SaveRow`), since two tasks may meet there.
Calls fail with or without effect, the process may crash, the user may move or delete the event.

Rows and anchor have writers beside the card.  `EnsureAnchor` is `ensure_anchor`, which puts the anchor back to the own id on every
message of the user and every dispatch; `RefreshAnchor` is the dispatch that takes the anchor from a stored row; `StoreSession`
is the reconciler's fallback, which stores an event it found, one of the card's or one of the user's other sessions (`Others`).
Initially the own event is absent, live or deleted, and the rows are any that earlier cards and the fallback can have left, the own event's
and other sessions', unique by event and by date.  `crossed` is the history of the last two writers: between a task's read of
the draft and its row they can undo anything, so `RecordsFollow` says nothing of such a period.  Of `EnsureAnchor`, and of what stood in the
rows before, it does speak.

### Sessions: `StageMachine`

The variables are the fields of the agent's `Session`.  A message is a handler: a reply takes the reply lock,
decides by itself in the later stages, then takes the turn lock; buttons change the session first and then
take the turn lock.  A turn is `TurnInit`, `Decide`, `Transition`, `Route` and the node of the stage, cut at its
awaits.  What an LLM or the calendar answers is a free choice among the answers the code tells apart.  A plan
is a number: the draft of the facts of that number, or the result of a patch; a timebox is the number of the plan
it was made from.  `Overlapping` drafts do not convert to a timebox; `unshown` is the history of an undo that brought one back, while
neither plan nor timebox has changed since.  The calendar side of a submission is
`TimeboxSubmit`'s; here it is `Refresh` and `Written`.

### Plans: `PlanPatch`

An event is whether it is a background event and a placement: after the previous event (`ap`), before the
next one (`bn`), at a start with a length (`fs`), or in a window (`fw`).  `plan` and `timebox` are the session's `tb_plan` and
`timebox`.  `apply_patch` asks the model (`Request`), may get nothing usable (`NoPatch`), applies the operations of the
patch to a copy of the plan and validates and converts the result (`Finish`); any error goes back to the model with the next
attempt.  `apply_tb_ops` has no await.  Its operations are actions all the same, so that a patch may be of any length;
nothing else can happen to plan or timebox while one is applied.  An operation that adds several events adds one and
then the others; an update of both fields is one of each.

`Resolve` is the forward and the backward pass of `resolve_times` as two recursive functions, with the end of an event
put back on the planning date as the code does.  `Schedule` is the reference: each placement and the order
of events, said of start and end times alone, without passes.  Left out: names, descriptions and types (but for
background), dates and zones, lengths of zero or of more than a day.

## Runs

| Run | Instance | Question and answer |
|---|---|---|
| `haunting` | 2 messages, 1 topic, 1 suspended call, 2 settings rows, 2 records of up to 3 attempts | do table, index and jobs stay in line, what becomes of a follow-up, and does it end: `TypeOK`, `IndexesMirrorPending`, `PendingHasDriver`, `NoResurrection`, `DeliveriesBounded`, `AttemptsAccounted`, `ImplementsFollowUps`, `FollowUpsEnd` hold |
| `orchestrator_tickets` | 2 sessions, 1 hook, 3 other ids, 3 envelopes of 1 attempt (hooks) or 2 | do index and jobs stay in line, is there one chain of calls for an envelope, and do tickets end: `IndexMirrorsTickets`, `TicketHasDriver`, `SilencedStays`, `ImplementsChains`, `TicketsEnd` hold |
| `submit_serial` | 1 handler, 3 requests, 3 plans, 1 user edit | `CommittedIsRealised`, `ResubmitConverges`, `ForeignUntouched`, `UndoRestores` hold |
| `submit_racing` | 2 handlers, 3 requests, 1 plan, malformed listings | `NoDoubleBooking` holds |
| `submit_halted` | 1 handler | violated: `EverySubmissionUndoable` |
| `submit_no_delta` | 1 handler | violated: `ResubmitWithoutDeltaIsNoop` |
| `planning_reconcile` | 1 task beside cron and dispatch, 2 events, 1 nudge, 1 change, outage, restart or midnight | are the reminders always the rest of one series, silenced by planning, and there while it is missing: `OneSeries`, `ImplementsSeries`, `NoStaleCard`, `PlannedSilences`, `MissingIsNagged` hold |
| `planning_outage` | the same with 2 changes | violated: `FailSoft` |
| `planning_card` | 2 interactions, 2 days, 1 edit, 1 fault, 1 other session, up to 2 rows of before | is the session added once, and do card and records tell the truth, with the exceptions named at each property: `NoSecondEvent`, `SuccessIsOnCalendar`, `RecordsFollow`, `SettledStays`, `RetryConverges` hold |
| `stage_machine` | 2 handlers, 3 messages, 2 versions of the facts, 1 patch, 1 draft that overlaps | do plan, timebox, review and submission stay together, unless an undo brought back a plan that does not convert, and is every message answered: `PlanIsMaterialised`, `DraftNotOlder`, `SubmitsTheReviewed`, `EveryTurnEnds` hold |
| `stage_ended` | 1 handler, 4 messages | violated: `EndedTakesNoSubmission` |
| `plan_patch` | a day of 6 units, 3 events, 4 events on offer, 2 attempts, 3 calendars | is an accepted plan laid out as its placements say, and is only a plan sent back that is not anchored, leaves a time open, or has no schedule: `TimeboxIsSchedule`, `RejectsOnlyUnschedulable` hold |

### Bounds

- `MaxSchedules = 2` follow-up records: what needs two of anything is a record and its replacement, or
  two messages that share a topic; both occur, with a dispatch of either in any phase.  A third record
  would only replace again.  The run has no tasks: a task is a second topic under another name, and the
  theorems cover any sets of both.  Attempts are bounded by the specs (at most 3), not by a bound of the
  model: three let a record be charged for another's dispatch and still go on.
- `MaxEnvelopes = 3` with the hook's id and three others: a hook, the hook that replaces it, and an
  envelope with its retry, or three envelopes whose chains overlap.  (With three callbacks under way at once
  no id is left, and such a chain can only end; with fewer it goes on.)  The attempts are 1 for hooks and 2
  for envelopes: the last one and one before it, which is all the code tells apart.
- `MaxRequests = 3`: submit, edit, submit, undo is the longest sequence the properties speak of, and a
  submit that fails in between.  Half-hour slots with a tolerance of 20 minutes and 80 percent make each
  matching pass decide something: a block that shifts by less than its length (fuzzy), one that moves
  away, a foreign event that stands in for a planned one of its name, and one in its way.
- `MaxEdits = 1`: one change by the user between a snapshot and the writes that go by it.  `MaxEdits = 0`
  in the racing run: there the handlers are what changes.
- `planning_reconcile`: the user's own event and one other are what the rule tells apart.  One free task beside cron's makes two
  reconciliations at once, with a dispatch between them.  One change from outside (`MaxEvents = 1`) is any of: an event added
  or deleted, a session added by a card, an outage, a restart, a midnight; two are needed for `FailSoft`, which has a session
  stored and then an outage.  A series of one nudge and the expiry has a first and a last job, and a rest.
- `planning_card`: two interactions race at every await, and each handler starts again when it is done, so retries and
  third clicks occur.  The one fault (`MaxFaults`) is a failing call, a crash, a change by the user, a row of the fallback, or an anchor taken
  from a row; the deletion of the own event may also lie before the start, so a recreated session and a failing call occur together.
  Messages that reset the anchor are not bounded.  Of the generated ids no run with one fault needs more than `Servers = 4`.
  Two days make rows of the same date and of another, and two rows of before (`MaxRows`), the own event's on one and the other session's on
  the other, make the upsert that matches both and is refused.  The time of day only travels with the date.
- `stage_machine`: three messages are a plan, a review and a button between them only if they start from the stage reached, so
  the decisions may jump to any stage; two of them overlap.  Two versions of the facts tell an old draft from a new one.
- `plan_patch`: three events give one a neighbour on either side, and a patch may have any number of operations, so every plan of
  three offered events occurs.  One of the calendars has a background event that overlaps, one an event past midnight.  Of two
  attempts one is the last and one is not.
- Deadlock is not checked: a session and both tables may rest when everything is done and the
  counters are used up.

### Fairness

`HauntingService` and `HauntOrchestrator` assume weak fairness of what the loop and the scheduler do:
a due job is fired or dropped, a task that is ready runs, an await returns.  The loop serves ready
tasks in order and no section blocks it, and the date trigger fires without further input.
Awaits of the message runtime return or raise.  Nothing is assumed of users, of schedule calls, or of the
order of jobs.  A callback, an LLM's at times, is assumed to return or raise; nothing in the code bounds its
time, so `TicketsEnd`, which is about tickets, does not depend on when.  `TimeboxSubmit` states no fairness and
no liveness property.

`PlanningReconcile` assumes weak fairness of every step of a running reconciliation or dispatch, of cron, and of the firing
of a pending job as long as only cron reconciles.  The condition is needed: each reconciliation schedules the series anew from
its own `now` (`reconcile.py:251-275`), so a user who keeps writing keeps putting the first nudge off, and `MissingIsNagged` speaks
of users who have stopped.  Users, outages, restarts and cancellations promise nothing.  `PlanningCard` and `StageMachine` assume weak fairness of the steps of each handler: the loop runs what can
run, and calls to models and tools have timeouts of their own.  The two locks are `asyncio.Lock`s, and there is no step a
lock holder has to wait for another handler in.

## Findings

1. A submit halted by a failing call cannot be undone although it changed the calendar, for
   `undo_transaction` does not know the status `partial_halted` (`submit_halted`).
2. A submit of an unchanged plan is not recognised as a no-op, since every match with an own event
   counts as an update; it overwrites the transaction that could be undone (`submit_no_delta`).
3. In an outage that answers with error texts, a due reminder is not suppressed by a stored session, since the
   texts are read as an empty calendar and the fail-soft branch is never reached (`planning_outage`).
4. A reply can submit the plan of a session that its Cancel button ended, which the confirm button refuses
   (`stage_ended`).

Seen in the models, without a text that says otherwise:

- a cancel during the refresh of a confirm does not stop the write; an undo wipes the descriptions of events it puts
  back and makes the calendar *after* the submit the plan; a description that is cleared is never removed;
- an event that was moved keeps the id of its old place, and a like-named event planned there later gets the
  same id, so that every submit halts on its create; a malformed answer to list-events is read as an empty day, and
  only the colliding ids keep a submit from booking everything twice;
- an acknowledgement during a callback does not end the chain; a calendar hook replaced between the firing of its job and
  the start of the job's task is dispatched at the old time;
- a planning card whose click or task dies stays pending for good; a card update that Slack refuses after the
  success costs the session row; a retry after a failed verification of a recreated event creates another;
- the anchor of a session that was recreated under a generated id is put back to the deleted own id by the user's next message; an upsert
  whose event stands in one row and whose date in another session's is refused and only logged, so the date keeps the other session;
- an undo of a refinement (`agent.py:4490`) or of a submission (`agent.py:7880`) that brings back a plan that does not convert keeps the timebox
  of the plan undone: the review shows that timebox, and the next submit writes the other plan;
- a gate judged while a button moves the stage makes the new stage ready, and then a plan that was never reviewed
  can be submitted; a reply that waits for the turn lock may be used up as a redo;
- background events are exempt from the overlap check of the plan (`planning_policy.py:19`), but the timebox made of it
  checks all events (`timebox.py:145`), so a plan with one that overlaps its neighbour is refused all the same; they do not anchor a chain either, so a
  fixed background event followed by an event after it is sent back although it has a schedule; the end of
  an event past midnight is put back on the planning date, so an overlap with the next event is not seen; an event before
  the next, followed by one after the previous, is never resolved.

## Theorems

The proofs hold for any sets of ids, any specs, settings, limits and plans.  They rest on the named
assumptions on the constants of each module, which every run evaluates.  Four theorems have a
hypothesis more, named below: `Handlers = {one}` three times, and `OnlySubmits`.

- `HauntingServiceProofs`: `TypeCorrect`, `IndexesCorrect`, `DriverCorrect` and `NeverResurrected` are
  inductive relative to the type invariant.  They go by `StepKinds`: a step stores one record, removes a set of
  them, moves one dispatch on, or changes no table.  `DeliveriesCorrect`, `AttemptsCorrect` and
  `OneLateCorrect` need `CountInv`.  `DeliveriesBounded` says nothing of how far a record is, so it cannot be
  inductive: the invariant relates the deliveries of a record to its attempts and to the phase of the dispatch
  that posts for it (a delivery precedes the count by a phase), says that a dispatch only sends for
  records with quota left, and that generations still to come are unused.
  `FollowUpsImplemented` takes each step to one of `FollowUps` by the same invariant: that generations of pending records
  and of messages on their way are distinct is what makes the posting of one of them a step of one follow-up.
- `HauntOrchestratorProofs`: `TypeCorrect`, `IndexCorrect`, `DriverCorrect` likewise.  `OneChainCorrect`,
  `AttemptsCorrect` and `SilencedCorrect` follow from `ChainInv`: an envelope is in one ticket or in one
  callback, the ticket's attempt is the number of callbacks, and neither envelopes to come nor silenced ones
  are in either.  `OneChain` alone is not inductive: a second callback for the envelope would make a second ticket.
  `ChainsImplemented` takes each step to one of `EnvelopeChains` or a stutter.  `ChainShown` says that the mapping,
  which chooses a ticket of the envelope, has no choice; `ChainStays` that an envelope whose holder stays does not move.
- `TimeboxSubmitProofs`, for any number of handlers and any failures: `ButtonsCorrect` (inductive as it is);
  `ForeignCorrect`, from `OwnedInv`: whatever a handler has to write, has written, or could undo concerns events of
  the agent's own; and `TypeCorrect`, from `TypeInv`, which adds that every create and update has a payload, every
  update and delete a payload to put back, that calendars are finite and that no two entries share an id.
- `TimeboxSubmitProofs`, for any number of handlers, under `OnlySubmits`: `BookingCorrect`.  The hypothesis is the situation of
  `submit_racing`.  The user moves nothing (a moved event no longer is what its id was made for);
  starts lie further apart than the matching's tolerance (else an event can take over the one before it, and then
  be created again by a handler with an older snapshot); events end after they start, as modelled throughout; and a malformed
  answer shows none of the agent's events (the client reads it as an empty day).  `BookInv` says that everywhere, in the calendar, in any
  snapshot still in use, and in every operation to come, done, or to undo, an id of the agent's goes with the event it
  was made for.  `SyncWrites` is the step that matters: whatever is missing from a snapshot, an event of the plan is only
  alike to the entry booked for it (`AlikeBooked`), so a sync updates no entry into another.
- `TimeboxSubmitProofs`, under `Handlers = {one}`: `CommitCorrect`, `UndoCorrect` and `ConvergeCorrect`, for any plans, days,
  tolerances, user edits and failures.  One handler is what the reply lock gives a thread, and the instance of `submit_serial`;
  with two, a button can write while a reply reads, and none of the promises holds.
  - `SerialInv` says what the calendar is while nobody disturbed the submit.  Between two writes it is the day the
    submit found with the operations done so far carried out, those and the ones left are the sync of that day with the
    plan, and no operation left ranks before one done.  After a committed submit all are carried out; between two
    writes of an undo a subset is.  `WriteCarriesOut` and `UndoCarriesOut` are the steps: ids of planned operations
    are distinct (`SyncIds`), so an operation meets the entry it was planned for and leaves the others alone.
  - `CarriedOutRealises` is about the day and the plan alone: a day with all of its sync carried out holds each planned
    event once and no left-over of the agent's.  It rests on `MatchingMatches`: the four passes match one-to-one,
    and only events that are alike (`Alike`: of the same name and start, near in time, or nearly covered).  That is
    a theorem about loops over sequences: the state of a pass after each position, by `Induction`.
  - `ConvergeCorrect` states `ResubmitConverges` of the submits that set out from an `Unambiguous` day (no two events
    share summary and start) with a `Steady` plan (events end after they start).  Of events that share both, the matching
    takes the first, and which one comes first is the server's choice for each snapshot: a planned event can then change
    partners from one submit to the next.  `submit_serial` checks the property without these conditions, on a small day.
    `MatchedAgain` carries it: on the day a committed submit leaves, each pass gives the planned events that foreign
    ones serve for (`MetByStrangers`) foreign ones again, and the others have their own by summary and start.  The foreign
    events stand at other positions by then, with other neighbours, so `PassAgain` follows the loop on both days at once:
    a bijection of the foreign events that keeps their class, changed at each position where two of one class tie (a pass takes
    the first of the best, `BestIsFirst`, by the total order `BeatsOrder`).  The class is all a snapshot shows in the third pass
    (`FuzzyTies`: of one name, two differ in start) and the times alone in the fourth (`ScoreTellsEnd`: of one start
    and one score, two end together).  `PlansApart` adds that what was submitted does not overlap, so a plan's keys are unique.
- `PlanningReconcileProofs`, for any events, number of tasks and length of a series: `TypeCorrect`, `OneSeriesCorrect` and
  `SeriesImplemented`.  `StepKinds` sorts the actions by what they do to jobs and dispatch; each kind keeps `OneSeries` and is a
  step of `ReminderSeries` or a stutter.  What the rule reads on its way does not matter to any of the three.
  It does matter to `NoStaleCardCorrect`: `Cleared` says what a dispatch has ruled out so far of all by which the session could
  have been recognised ever since (nothing by the anchor once past it, nothing by the rows already looked up), so that
  nothing is left when the rule answers that a session is missing.
- `PlanningCardProofs`, for any number of interactions, edits and faults: `TypeCorrect` (with the two unique keys of the rows),
  `NoSecondEventCorrect`, `SettledStaysCorrect`, `SuccessCorrect`, `RecordsCorrect`.
  `NoSecondEvent` is not inductive: a task may be about to write a generated id.  `OwnFirst`
  adds that as long as the own event was never deleted it is not cancelled, so no task has read it so, and
  every target is the own id.  The last two are about the history `clean`, which holds from a moment when one task was
  alone until somebody changes draft or event; `CleanInv` says what the tasks have in hand meanwhile: one
  time, events that are on the calendar once verified, rows that nothing stands in the way of (`RowsReady`), and for a
  success either what it tells or the task that is about to see to it.  `IdsInv` adds that a generated id
  belongs to one task and that its row was saved by that task.
- `StageMachineProofs`: `TypeCorrect` (with the exclusion of the two locks), `MaterialisedCorrect`, `DraftsCorrect` and
  `SubmissionsCorrect`, for any finite number of handlers, any drafts, patches and drafts that do not convert.  A lock is only taken when no handler
  holds it (`Enters`), which keeps `Locks`.  `Materialised` adds to `PlanIsMaterialised` what undo would restore and what
  a patch under way will make undo restore.  `Prints` relates the draft made ahead, its fingerprint and what a waiting node has read to the facts.
  `History` says where a handler that is alone may be: nodes of earlier stages run outside the review, a review shows the timebox, and
  whatever is pending or ready in the review was reviewed; a review by the last active handler brings it about anew.
  A timebox that is shown while the plan does not convert is there because an undo left it (`Shown`), which is the one exception of
  `SubmissionsCorrect`.
- `PlanPatchProofs`, for days and plans of any length and any patches: `TypeCorrect`, `TimeboxCorrect` and `RejectionsCorrect`, together
  inductive.  What carries them is that `Resolve`, two passes over the plan, meets `Schedule`, which knows no passes:
  `ForwardPass` and `BackwardPass` unroll the passes at one position, `ResolvedIsPlaced` says that times that pass the
  validation meet every placement, `NeighboursInOrder` that comparing neighbours is enough unless one runs
  past midnight.  For the rejections, `PlacedOnce` says that placements leave no choice of times: a schedule agrees with
  the passes at each position, by the first position where it would not.

`Induction` has the induction these need.  The library's theorems for it take a predicate as a parameter, which
the provers here cannot instantiate; these take the set of the numbers for which the predicate holds.

Only model-checked:

- liveness (`FollowUpsEnd`, `TicketsEnd`, `PlannedSilences`, `MissingIsNagged`, `RetryConverges`, `EveryTurnEnds`), which is out of
  the prover's reach.

Conversely `AttemptsBounded` and `PendingInReview` are proved and have no run, and neither have `OneChain` and
`OneLateDelivery`: `orchestrator_tickets` and `haunting` check the abstract specifications instead, which say the same of calls and posts.

## Plan

Done: all modules and theorems above.  Next, in this order:

1. An abstract specification of a day that changes only by whole submissions, which serial submits without failures
   implement, and its theorem.
2. `StageMachine` composed with `TimeboxSubmit` in place of `Refresh` and `Written`.
3. `ConstraintStore`: upsert, supersede, archive of remembered constraints.
4. The focus of a Slack thread and the agent it routes to.

## Not modelled

The conversations of the schedular, revisor and receptionist agents are prompts and tools around an LLM with no
state of their own.  The task agent's guided refinement is a walk through five phases whose one field an instance keeps
(`agents/tasks/agent.py:212`); its other tools hold no state between messages.  Runtime wiring, configuration, prompts, cards and the set-up page are text and I/O.  The
integrations (Notion, mem0, Graphiti, TickTick) are clients of services outside this repository.
The constraint memory and Slack's routing are state that could be modelled; they are items 3 and 4 of the plan.
