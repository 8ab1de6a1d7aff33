----------------------------- MODULE PlanningCard -----------------------------
(***************************************************************************)
(* One planning card: its draft (haunt/event_draft_store.py), the edits,   *)
(* clicks and thread replies that Slack delivers for it, the tasks that    *)
(* add it to the calendar (slack_bot/planning.py), the planner agent's     *)
(* upsert they send (agents/schedular/agent.py), and the session row       *)
(* (haunt/planning_session_store.py) and anchor that name the result.      *)
(*                                                                         *)
(* Slack's handlers and the tasks they create run on one event loop, and   *)
(* each access to the database, the calendar or Slack is an await: an      *)
(* action is the code between two of them.  The draft store's updates are  *)
(* each atomic: they write the columns they change, and no other.          *)
(*                                                                         *)
(* Rows and anchor have other writers: the reconciler's fallback stores    *)
(* the sessions it finds (haunt/reconcile.py), a reminder's revalidation   *)
(* the anchor it finds in a row, and every message and every dispatch puts *)
(* the anchor back to the user's own id (ensure_anchor).                   *)
(***************************************************************************)
EXTENDS Naturals, FiniteSets, Sequences

CONSTANTS
  Handlers,   \* Slack interactions being handled at once
  Days,       \* dates a draft can start on
  Hours,      \* times of day
  Minutes,    \* durations
  Servers,    \* bound: ids the calendar can generate, in order
  Others,     \* events of the user's other sessions
  MaxRows,    \* bound: session rows stored before the card
  MaxEdits,   \* bound: edits of the draft
  MaxFaults   \* bound: failing calls, crashes, the user's changes of events,
              \* writes by the fallback and of an anchor found in a row

Own == 0                      \* the draft's event_id, the same on every card
Ids == 0..Servers
Sessions == Ids \cup Others
Slots == Days \X Hours \X Minutes

ASSUME CardAssumption ==
  /\ Servers \in Nat /\ MaxRows \in Nat /\ MaxEdits \in Nat /\ MaxFaults \in Nat
  /\ Others \cap Ids = {}
  /\ Days # {} /\ Hours # {} /\ Minutes # {}

VARIABLES
  draft,    \* the event_drafts row: slot and status
  event,    \* the calendar: status and slot of each event
  rows,     \* planning_session_refs, each with its event and date
  anchor,   \* the event id of the user's planning_anchors row
  task,     \* the handlers, each later the task its click created
  edits, faults,    \* counters for MaxEdits and MaxFaults
  clean,    \* history: since the last task to add alone read the draft, nothing
            \* but adding tasks touched draft or calendar, and none died adding
  lost,     \* history: a task died between its success and its row
  stuck,    \* history: the draft was left pending by a click or task that died
  deleted,  \* history: the user deleted the draft's own event
  crossed   \* history: since the last task to add alone read the draft, the
            \* fallback stored a session, or the anchor was taken from a row

vars == <<draft, event, rows, anchor, task, edits, faults, clean, lost, stuck,
          deleted, crossed>>
----------------------------------------------------------------------------
\* A handler's locals: `slot' read or to write, the calendar's answer `found'
\* for the own event, the `target' id of the upsert, the `row' loaded from the
\* session store (0: none); `commit' and `modal' say what follows an edit.
Task == [pc : {"idle", "reply", "start", "minutes", "reread", "click", "mark",
               "show", "add", "get", "write", "verify", "won", "tell", "load",
               "save", "anchor", "lost"},
         slot : Slots,
         settled : BOOLEAN,
         commit : BOOLEAN,
         modal : BOOLEAN,
         found : {"none", "live", "cancelled"},
         target : Ids,
         row : Nat]

AnySlot == CHOOSE s \in Slots : TRUE

Idle == [pc |-> "idle", slot |-> AnySlot, settled |-> FALSE, commit |-> FALSE,
         modal |-> FALSE, found |-> "none", target |-> Own, row |-> 0]

Adding(h) ==
  task[h].pc \in {"get", "write", "verify", "won", "tell", "load", "save",
                  "anchor", "lost"}
Recording == {"tell", "load", "save", "anchor"}
Quiet == \A h \in Handlers : ~Adding(h)
Live == {e \in Ids : event[e].status = "live"}

Goto(h, pc) == task' = [task EXCEPT ![h].pc = pc]
Stop(h) == task' = [task EXCEPT ![h] = Idle]
Fault == faults < MaxFaults /\ faults' = faults + 1

Unsettled(status) == status \notin {"pending", "success"}

\* update_status; only ever called with one draft.
UpdateStatus(status) == draft' = [draft EXCEPT !.status = status]

\* update_time.
UpdateTime(slot) ==
  /\ draft' = [draft EXCEPT !.slot = slot]
  /\ clean' = (clean /\ slot = draft.slot)
----------------------------------------------------------------------------
(* Edits of the card *)

\* handle_start_date_changed and handle_start_time_changed read the draft for
\* the half of the start they keep; handle_start_at_changed keeps neither.
PickStart(h, d, t) ==
  /\ task[h].pc = "idle" /\ edits < MaxEdits
  /\ d = draft.slot[1] \/ t = draft.slot[2]
  /\ edits' = edits + 1
  /\ task' = [task EXCEPT ![h].pc = "start", ![h].slot = <<d, t, draft.slot[3]>>]
  /\ UNCHANGED <<draft, event, rows, anchor, faults, clean, lost, stuck,
                 deleted, crossed>>

PickStartAt(h, d, t) ==
  /\ task[h].pc = "idle" /\ edits < MaxEdits
  /\ edits' = edits + 1
  /\ UpdateTime(<<d, t, draft.slot[3]>>)
  /\ UNCHANGED <<event, rows, anchor, task, faults, lost, stuck, deleted,
                 crossed>>

PickDuration(h, m) ==
  /\ task[h].pc = "idle" /\ edits < MaxEdits
  /\ edits' = edits + 1
  /\ UpdateTime(<<draft.slot[1], draft.slot[2], m>>)
  /\ UNCHANGED <<event, rows, anchor, task, faults, lost, stuck, deleted,
                 crossed>>

\* handle_edit_modal_submit: the date if there is one, then the duration.
SubmitModal(h, d, m) ==
  /\ task[h].pc = "idle" /\ edits < MaxEdits
  /\ edits' = edits + 1
  /\ task' = [task EXCEPT ![h].pc = "start", ![h].modal = TRUE,
                          ![h].slot = <<d, draft.slot[2], m>>]
  /\ UNCHANGED <<draft, event, rows, anchor, faults, clean, lost, stuck,
                 deleted, crossed>>

\* The write of a start, which keeps the duration of the row; then the modal's
\* duration, or what the thread reply asked for.
WriteStart(h) ==
  /\ task[h].pc = "start"
  /\ UpdateTime(<<task[h].slot[1], task[h].slot[2], draft.slot[3]>>)
  /\ IF task[h].modal THEN Goto(h, "minutes")
     ELSE IF task[h].commit THEN Goto(h, "reread")
     ELSE Stop(h)
  /\ UNCHANGED <<event, rows, anchor, edits, faults, lost, stuck, deleted,
                 crossed>>

WriteDuration(h) ==
  /\ task[h].pc = "minutes"
  /\ UpdateTime(<<draft.slot[1], draft.slot[2], task[h].slot[3]>>)
  /\ Stop(h)
  /\ UNCHANGED <<event, rows, anchor, edits, faults, lost, stuck, deleted,
                 crossed>>
----------------------------------------------------------------------------
(* Clicks and thread replies *)

\* The Add or the Retry button.
Click(h) ==
  /\ task[h].pc = "idle"
  /\ Goto(h, "click")
  /\ UNCHANGED <<draft, event, rows, anchor, edits, faults, clean, lost, stuck,
                 deleted, crossed>>

\* maybe_handle_thread_reply reads the draft and has the text interpreted.
Reply(h) ==
  /\ task[h].pc = "idle"
  /\ task' = [task EXCEPT ![h].pc = "reply",
                          ![h].settled = ~Unsettled(draft.status)]
  /\ UNCHANGED <<draft, event, rows, anchor, edits, faults, clean, lost, stuck,
                 deleted, crossed>>

\* A time is written first, from a fresh read; without one the status checked
\* is the one read before the interpretation.
InterpretTime(h, t, commit) ==
  /\ task[h].pc = "reply" /\ edits < MaxEdits
  /\ edits' = edits + 1
  /\ task' = [task EXCEPT ![h].pc = "start", ![h].commit = commit,
                          ![h].slot = <<draft.slot[1], t, draft.slot[3]>>]
  /\ UNCHANGED <<draft, event, rows, anchor, faults, clean, lost, stuck,
                 deleted, crossed>>

InterpretCommit(h) ==
  /\ task[h].pc = "reply"
  /\ IF task[h].settled THEN Stop(h) ELSE Goto(h, "click")
  /\ UNCHANGED <<draft, event, rows, anchor, edits, faults, clean, lost, stuck,
                 deleted, crossed>>

\* The reply is not for the card, or its interpretation fails.
Ignore(h) ==
  /\ task[h].pc = "reply"
  /\ Stop(h)
  /\ UNCHANGED <<draft, event, rows, anchor, edits, faults, clean, lost, stuck,
                 deleted, crossed>>

Reread(h) ==
  /\ task[h].pc = "reread"
  /\ IF Unsettled(draft.status) THEN Goto(h, "click") ELSE Stop(h)
  /\ UNCHANGED <<draft, event, rows, anchor, edits, faults, clean, lost, stuck,
                 deleted, crossed>>
----------------------------------------------------------------------------
(* start_add_to_calendar *)

\* Mutant: only a running addition makes a click a no-op.
CanStartPending(h) == draft.status # "pending"

\* Mutant: a failed draft cannot be added again.
CanStartOnce(h) == draft.status = "draft"

CanStart(h) == Unsettled(draft.status)

\* get_by_draft_id and the status check.
CheckDraft(h) ==
  /\ task[h].pc = "click"
  /\ IF CanStart(h)
     THEN task' = [task EXCEPT ![h] = [Idle EXCEPT !.pc = "mark", !.slot = draft.slot]]
     ELSE Stop(h)
  /\ UNCHANGED <<draft, event, rows, anchor, edits, faults, clean, lost, stuck,
                 deleted, crossed>>

MarkPending(h) ==
  /\ task[h].pc = "mark"
  /\ UpdateStatus("pending")
  /\ Goto(h, "show")
  /\ UNCHANGED <<event, rows, anchor, edits, faults, clean, lost, stuck,
                 deleted, crossed>>

\* The card is shown as pending; when Slack refuses, no task is created.
ShowPending(h) ==
  /\ task[h].pc = "show"
  /\ \/ /\ Goto(h, "add")
        /\ UNCHANGED <<faults, stuck>>
     \/ /\ Fault
        /\ Stop(h)
        /\ stuck' = TRUE
  /\ UNCHANGED <<draft, event, rows, anchor, edits, clean, lost, deleted,
                 crossed>>
----------------------------------------------------------------------------
(* _add_to_calendar_async and handle_upsert_calendar_event *)

\* Mutant: the slot is the click's.
SlotOfClick(h) == task[h].slot

\* The slot to add.
SlotRead(h) == draft.slot

ReadDraft(h) ==
  /\ task[h].pc = "add"
  /\ task' = [task EXCEPT ![h] = [Idle EXCEPT !.pc = "get", !.slot = SlotRead(h)]]
  /\ clean' = (clean \/ Quiet)
  /\ crossed' = (crossed /\ ~Quiet)
  /\ UNCHANGED <<draft, event, rows, anchor, edits, faults, lost, stuck, deleted>>

\* Mutant: an event that cannot be read is taken for a deleted one.
UnreadDeleted == "cancelled"

\* What a get-event that fails, by an exception or an error text, stands for.
Unread == "none"

\* get-event of the own id.  A cancelled event is then deleted, which changes
\* nothing more of it.
GetEvent(h) ==
  /\ task[h].pc = "get"
  /\ \E found \in {event[Own].status, Unread} :
       /\ IF found = event[Own].status THEN UNCHANGED faults ELSE Fault
       /\ task' = [task EXCEPT ![h].pc = "write", ![h].found = found]
  /\ UNCHANGED <<draft, event, rows, anchor, edits, clean, lost, stuck,
                 deleted, crossed>>

\* The id that is written: the calendar generates one if the own event was
\* cancelled.
Target(found) ==
  IF found # "cancelled" THEN Own
  ELSE CHOOSE e \in 1..Servers : event[e].status = "none"

\* What the write finds on the calendar when it succeeds: update-event needs
\* the event, create-event a free id.
Writable(found, target) ==
  IF found = "live" THEN event[target].status = "live"
  ELSE event[target].status = "none"

\* update-event or create-event, which may fail having taken effect or not.
WriteEvent(h) ==
  /\ task[h].pc = "write"
  /\ task[h].found = "cancelled" => \E e \in 1..Servers : event[e].status = "none"
  /\ LET target == Target(task[h].found)
         written == [event EXCEPT ![target] = [status |-> "live", slot |-> task[h].slot]]
     IN IF Writable(task[h].found, target)
        THEN \/ /\ event' = written
                /\ task' = [task EXCEPT ![h].pc = "verify", ![h].target = target]
                /\ UNCHANGED faults
             \/ /\ Fault
                /\ event' \in {event, written}
                /\ Goto(h, "lost")
        ELSE /\ Goto(h, "lost")
             /\ UNCHANGED <<event, faults>>
  /\ UNCHANGED <<draft, rows, anchor, edits, clean, lost, stuck, deleted,
                 crossed>>

\* The event is there, not cancelled, and where it was put.
Confirmed(e, slot) == event[e].status = "live" /\ event[e].slot = slot

\* get-event of the target; an answer without a usable URL fails it too.
VerifyEvent(h) ==
  /\ task[h].pc = "verify"
  /\ \/ /\ Goto(h, IF Confirmed(task[h].target, task[h].slot) THEN "won" ELSE "lost")
        /\ UNCHANGED faults
     \/ /\ Fault
        /\ Goto(h, "lost")
  /\ UNCHANGED <<draft, event, rows, anchor, edits, clean, lost, stuck,
                 deleted, crossed>>

RecordSuccess(h) ==
  /\ task[h].pc = "won"
  /\ UpdateStatus("success")
  /\ Goto(h, "tell")
  /\ UNCHANGED <<event, rows, anchor, edits, faults, clean, lost, stuck,
                 deleted, crossed>>

RecordFailure(h) ==
  /\ task[h].pc = "lost"
  /\ UpdateStatus("failure")
  /\ Stop(h)
  /\ UNCHANGED <<event, rows, anchor, edits, faults, clean, lost, stuck,
                 deleted, crossed>>

\* The card is shown as added; when Slack refuses, the task dies there.
Tell(h) ==
  /\ task[h].pc = "tell"
  /\ \/ /\ Goto(h, "load")
        /\ UNCHANGED <<faults, lost>>
     \/ /\ Fault
        /\ Stop(h)
        /\ lost' = TRUE
  /\ UNCHANGED <<draft, event, rows, anchor, edits, clean, stuck, deleted,
                 crossed>>

\* Mutant: the row names the draft's own event.
RecordedOwn(h) == Own

RecordedEvent(h) == task[h].target

\* What an upsert's select may return: a row with the event or the date, or
\* none (0).
Selected(e, d) ==
  LET found == {r \in 1..Len(rows) : rows[r].event = e \/ rows[r].day = d}
  IN IF found = {} THEN {0} ELSE found

LoadRow(h) ==
  /\ task[h].pc = "load"
  /\ \E r \in Selected(RecordedEvent(h), task[h].slot[1]) :
       task' = [task EXCEPT ![h].pc = "save", ![h].row = r]
  /\ UNCHANGED <<draft, event, rows, anchor, edits, faults, clean, lost, stuck,
                 deleted, crossed>>

\* Mutant: rows are unique by their event only.
RefusedByEvent(r, row) == \E k \in 1..Len(rows) : k # r /\ rows[k].event = row.event

\* The store refuses a second row with the event or the date.
Refused(r, row) ==
  \E k \in 1..Len(rows) :
    k # r /\ (rows[k].event = row.event \/ rows[k].day = row.day)

\* The upsert's commit; the callers swallow its refusal.
PutRow(r, row) ==
  rows' = IF Refused(r, row) THEN rows
          ELSE IF r = 0 THEN Append(rows, row)
          ELSE [rows EXCEPT ![r] = row]

SaveRow(h) ==
  /\ task[h].pc = "save"
  /\ PutRow(task[h].row, [event |-> RecordedEvent(h), day |-> task[h].slot[1]])
  /\ Goto(h, "anchor")
  /\ UNCHANGED <<draft, event, anchor, edits, faults, clean, lost, stuck, deleted,
                 crossed>>

\* The anchor follows a generated id; then the user is reconciled.
MoveAnchor(h) ==
  /\ task[h].pc = "anchor"
  /\ anchor' = IF task[h].target # Own THEN task[h].target ELSE anchor
  /\ Stop(h)
  /\ UNCHANGED <<draft, event, rows, edits, faults, clean, lost, stuck,
                 deleted, crossed>>
----------------------------------------------------------------------------
(* The other writers of rows and anchor *)

\* ensure_anchor, on every message of the user and every dispatch.
EnsureAnchor ==
  /\ anchor' = Own
  /\ UNCHANGED <<draft, event, rows, task, edits, faults, clean, lost, stuck,
                 deleted, crossed>>

\* _maybe_refresh_anchor_from_refs, with a row that a dispatch found first.
RefreshAnchor ==
  /\ Fault
  /\ \E r \in 1..Len(rows) : rows[r].event # Own /\ anchor' = rows[r].event
  /\ crossed' = TRUE
  /\ UNCHANGED <<draft, event, rows, task, edits, clean, lost, stuck,
                 deleted>>

\* _sync_fallback_session_record, with an event that a scan of the calendar
\* found, under its date in the reconciler's timezone.  Its select and commit
\* are one step: what two steps could leave, several such steps can too.
StoreSession(e, d) ==
  /\ Fault
  /\ e \in Ids => event[e].status # "none"
  /\ \E r \in Selected(e, d) : PutRow(r, [event |-> e, day |-> d])
  /\ crossed' = TRUE
  /\ UNCHANGED <<draft, event, anchor, task, edits, clean, lost, stuck,
                 deleted>>
----------------------------------------------------------------------------
(* The user's calendar, and crashes *)

DeleteEvent(e) ==
  /\ Fault
  /\ event[e].status = "live"
  /\ event' = [event EXCEPT ![e].status = "cancelled"]
  /\ clean' = FALSE
  /\ deleted' = (deleted \/ e = Own)
  /\ UNCHANGED <<draft, rows, anchor, task, edits, lost, stuck, crossed>>

MoveEvent(e, s) ==
  /\ Fault
  /\ event[e].status = "live"
  /\ event' = [event EXCEPT ![e].slot = s]
  /\ clean' = FALSE
  /\ UNCHANGED <<draft, rows, anchor, task, edits, lost, stuck, deleted,
                 crossed>>

\* The process dies with its tasks; the tables remain.
Crash ==
  /\ Fault
  /\ task' = [h \in Handlers |-> Idle]
  /\ stuck' = (stuck \/ draft.status = "pending")
  /\ lost' = (lost \/ \E h \in Handlers : task[h].pc \in Recording)
  /\ clean' = (clean /\ Quiet)
  /\ UNCHANGED <<draft, event, rows, anchor, edits, deleted, crossed>>
----------------------------------------------------------------------------
Edit(h) ==
  \/ \E d \in Days, t \in Hours : PickStart(h, d, t) \/ PickStartAt(h, d, t)
  \/ \E m \in Minutes : PickDuration(h, m)
  \/ \E d \in Days, m \in Minutes : SubmitModal(h, d, m)

Answer(h) ==
  \/ \E t \in Hours, commit \in BOOLEAN : InterpretTime(h, t, commit)
  \/ InterpretCommit(h)
  \/ Ignore(h)

\* What the event loop runs to its end by itself.
Run(h) ==
  \/ WriteStart(h) \/ WriteDuration(h) \/ Reread(h)
  \/ CheckDraft(h) \/ MarkPending(h) \/ ShowPending(h)
  \/ ReadDraft(h) \/ GetEvent(h) \/ WriteEvent(h) \/ VerifyEvent(h)
  \/ RecordSuccess(h) \/ RecordFailure(h) \/ Tell(h)
  \/ LoadRow(h) \/ SaveRow(h) \/ MoveAnchor(h)

User ==
  \/ \E e \in Ids : DeleteEvent(e) \/ \E s \in Slots : MoveEvent(e, s)
  \/ Crash

Elsewhere ==
  \/ EnsureAnchor \/ RefreshAnchor
  \/ \E e \in Sessions, d \in Days : StoreSession(e, d)

\* The store's two unique keys.
Keyed(table) ==
  \A r, k \in 1..Len(table) :
    r # k => table[r].event # table[k].event /\ table[r].day # table[k].day

\* What earlier cards and the fallback left of the user's own event and of
\* other sessions; only the slot of a live event matters.
Init ==
  /\ draft = [slot |-> AnySlot, status |-> "draft"]
  /\ \E status \in {"none", "live", "cancelled"}, s \in Slots :
       /\ status # "live" => s = AnySlot
       /\ event = [e \in Ids |-> IF e = Own THEN [status |-> status, slot |-> s]
                                 ELSE [status |-> "none", slot |-> AnySlot]]
  /\ deleted = (event[Own].status = "cancelled")
  /\ \E n \in 0..MaxRows :
       rows \in [1..n -> [event : {Own} \cup Others, day : Days]]
  /\ Keyed(rows)
  /\ event[Own].status = "none" => \A r \in 1..Len(rows) : rows[r].event # Own
  /\ anchor = Own
  /\ task = [h \in Handlers |-> Idle]
  /\ edits = 0 /\ faults = 0
  /\ clean = TRUE /\ lost = FALSE /\ stuck = FALSE /\ crossed = FALSE

Next ==
  \/ \E h \in Handlers : Edit(h) \/ Click(h) \/ Reply(h) \/ Answer(h) \/ Run(h)
  \/ User
  \/ Elsewhere

\* The loop runs every task that can run; a reply's interpretation comes back.
Fairness == \A h \in Handlers : WF_vars(Run(h)) /\ WF_vars(Answer(h))

Spec == Init /\ [][Next]_vars /\ Fairness
----------------------------------------------------------------------------
TypeOK ==
  /\ draft \in [slot : Slots, status : {"draft", "pending", "success", "failure"}]
  /\ event \in [Ids -> [status : {"none", "live", "cancelled"}, slot : Slots]]
  /\ rows \in Seq([event : Sessions, day : Days]) /\ Keyed(rows)
  /\ anchor \in Sessions
  /\ task \in [Handlers -> Task]
  /\ edits \in 0..MaxEdits /\ faults \in 0..MaxFaults
  /\ {clean, lost, stuck, deleted, crossed} \subseteq BOOLEAN

\* Clicks, retries and replies, however they race, leave at most one event of
\* the card on the calendar, unless the user deleted that one before or
\* meanwhile: the id is the draft's own until it was read as cancelled
\* (agents/schedular/agent.py:488-558).
NoSecondEvent == deleted \/ Live \subseteq {Own}

\* A card that says the session was added, with no task left to add it, tells
\* of an event at the draft's time, unless the draft or the event was changed
\* meanwhile: the time is the one last edited before the task began, not that
\* of the click (planning.py:1052-1069).
SuccessIsOnCalendar ==
  draft.status = "success" /\ Quiet /\ clean
    => \E e \in Live : event[e].slot = draft.slot

\* And then a session row names a live event, the recreated one when the own
\* event had been deleted, and is of the draft's date unless another session
\* holds that date, whose row then refuses the upsert (planning.py:1152-1172);
\* and the anchor names no dead event that was once generated, but may have
\* been put back to the own id, dead or not, by the user's next message
\* (planning.py:257) or name another session.  Nothing is said of a period in
\* which the fallback or a dispatch wrote them too.
RecordsFollow ==
  draft.status = "success" /\ Quiet /\ clean /\ ~lost /\ ~crossed
    => /\ \E r \in 1..Len(rows) :
            /\ rows[r].event \in Live
            /\ \/ rows[r].day = draft.slot[1]
               \/ \E k \in 1..Len(rows) :
                    rows[k].day = draft.slot[1] /\ rows[k].event \in Others
       /\ anchor \in Live \cup {Own} \cup Others

\* Once added with no task left, no click or reply adds again, one interpreted
\* from an older draft neither (planning.py:860-867, 956-990).
Settled ==
  /\ draft.status = "success"
  /\ \A h \in Handlers :
       task[h].pc \in {"idle", "reply", "start", "minutes", "reread", "click"}

SettledStays == [][Settled => Settled']_vars

\* Whoever keeps clicking gets the session added in the end, whatever calls
\* failed before, unless a click or task died and left the draft pending.
RetryConverges ==
  ([]<>(\E h \in Handlers : task[h].pc = "click"))
    => <>[](stuck \/ draft.status = "success")
=============================================================================
