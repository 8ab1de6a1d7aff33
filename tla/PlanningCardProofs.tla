------------------------- MODULE PlanningCardProofs -------------------------
(* What a planning card guarantees for any number of handlers, edits and    *)
(* faults.                                                                  *)
EXTENDS PlanningCard, SequenceTheorems, TLAPS

\* Every locals of an idle handler is of its type.
LEMMA IdleType == AnySlot \in Slots /\ Idle \in Task /\ Own \in Ids /\ Ids \subseteq Sessions
<1>1. \E s \in Slots : TRUE
  <2>1. PICK d \in Days, t \in Hours, m \in Minutes : TRUE
    BY CardAssumption
  <2>2. <<d, t, m>> \in Slots
    BY DEF Slots
  <2>. QED  BY <2>2
<1>2. AnySlot \in Slots
  BY <1>1 DEF AnySlot
<1>3. Own \in Ids
  BY CardAssumption DEF Own, Ids
<1>. QED  BY <1>2, <1>3 DEF Idle, Task, Sessions

\* A slot of a day, a time and a duration, and the parts of a slot.
LEMMA SlotParts ==
  /\ \A d \in Days, t \in Hours, m \in Minutes : <<d, t, m>> \in Slots
  /\ \A s \in Slots : s[1] \in Days /\ s[2] \in Hours /\ s[3] \in Minutes
BY DEF Slots

\* The id to write is one of the calendar's.
LEMMA TargetType ==
  ASSUME NEW found,
         found = "cancelled" => \E e \in 1..Servers : event[e].status = "none"
  PROVE  Target(found) \in Ids
BY CardAssumption DEF Target, Own, Ids

\* The shape of everything but the session rows.
Shapes ==
  /\ draft \in [slot : Slots, status : {"draft", "pending", "success", "failure"}]
  /\ event \in [Ids -> [status : {"none", "live", "cancelled"}, slot : Slots]]
  /\ anchor \in Sessions
  /\ task \in [Handlers -> Task]
  /\ edits \in 0..MaxEdits /\ faults \in 0..MaxFaults
  /\ {clean, lost, stuck, deleted, crossed} \subseteq BOOLEAN

\* The rows: no two of one event, or of one date.
RowsUnique == rows \in Seq([event : Sessions, day : Days]) /\ Keyed(rows)

LEMMA TypeParts == TypeOK <=> Shapes /\ RowsUnique
BY DEF TypeOK, Shapes, RowsUnique

\* A counter that was below its bound can be counted up.
LEMMA Counters ==
  ASSUME TypeOK
  PROVE  /\ edits < MaxEdits => edits + 1 \in 0..MaxEdits
         /\ Fault => faults' \in 0..MaxFaults
BY CardAssumption DEF TypeOK, Fault

\* Edits keep the shapes.
LEMMA EditType ==
  ASSUME TypeOK, NEW h \in Handlers, Edit(h)
  PROVE  Shapes' /\ UNCHANGED rows
<1>1. task[h] \in Task /\ draft.slot \in Slots
  BY DEF TypeOK
<1>2. ASSUME NEW d \in Days, NEW t \in Hours, PickStart(h, d, t) PROVE Shapes' /\ UNCHANGED rows
  <2>1. <<d, t, draft.slot[3]>> \in Slots
    BY <1>1, SlotParts
  <2>2. [task[h] EXCEPT !.pc = "start", !.slot = <<d, t, draft.slot[3]>>] \in Task
    BY <1>1, <2>1 DEF Task
  <2>. QED  BY <1>2, <2>2, Counters DEF PickStart, TypeOK, Shapes
<1>3. ASSUME NEW d \in Days, NEW t \in Hours, PickStartAt(h, d, t) PROVE Shapes' /\ UNCHANGED rows
  <2>1. <<d, t, draft.slot[3]>> \in Slots
    BY <1>1, SlotParts
  <2>. QED  BY <1>3, <2>1, Counters DEF PickStartAt, UpdateTime, TypeOK, Shapes
<1>4. ASSUME NEW m \in Minutes, PickDuration(h, m) PROVE Shapes' /\ UNCHANGED rows
  <2>1. <<draft.slot[1], draft.slot[2], m>> \in Slots
    BY <1>1, SlotParts
  <2>. QED  BY <1>4, <2>1, Counters DEF PickDuration, UpdateTime, TypeOK, Shapes
<1>5. ASSUME NEW d \in Days, NEW m \in Minutes, SubmitModal(h, d, m) PROVE Shapes' /\ UNCHANGED rows
  <2>1. <<d, draft.slot[2], m>> \in Slots
    BY <1>1, SlotParts
  <2>2. [task[h] EXCEPT !.pc = "start", !.modal = TRUE,
                        !.slot = <<d, draft.slot[2], m>>] \in Task
    BY <1>1, <2>1 DEF Task
  <2>. QED  BY <1>5, <2>2, Counters DEF SubmitModal, TypeOK, Shapes
<1>. QED  BY <1>2, <1>3, <1>4, <1>5 DEF Edit

\* A change of a handler's step only.
LEMMA GotoType ==
  ASSUME TypeOK, NEW h \in Handlers,
         NEW pc \in {"start", "minutes", "reread", "click", "show", "add", "verify",
                    "won", "tell", "load", "anchor", "lost"},
         Goto(h, pc)
  PROVE  task' \in [Handlers -> Task]
<1>1. task[h] \in Task
  BY DEF TypeOK
<1>2. pc \in {"idle", "reply", "start", "minutes", "reread", "click", "mark",
             "show", "add", "get", "write", "verify", "won", "tell", "load",
             "save", "anchor", "lost"}
  OBVIOUS
<1>3. [task[h] EXCEPT !.pc = pc] \in Task
  BY <1>1, <1>2 DEF Task
<1>. QED  BY <1>3 DEF Goto, TypeOK

\* A handler that is done.
LEMMA StopType ==
  ASSUME TypeOK, NEW h \in Handlers, Stop(h)
  PROVE  task' \in [Handlers -> Task]
BY IdleType DEF Stop, TypeOK

\* Clicks, replies and their interpretation keep the shapes.
LEMMA AnswerType ==
  ASSUME TypeOK, NEW h \in Handlers, Click(h) \/ Reply(h) \/ Answer(h)
  PROVE  Shapes' /\ UNCHANGED rows
<1>1. task[h] \in Task /\ draft.slot \in Slots
  BY DEF TypeOK
<1>2. CASE Click(h) \/ InterpretCommit(h) \/ Ignore(h)
  BY <1>2, GotoType, StopType DEF Click, InterpretCommit, Ignore, TypeOK, Shapes
<1>3. CASE Reply(h)
  <2>1. Unsettled(draft.status) \in BOOLEAN
    BY DEF Unsettled
  <2>2. [task[h] EXCEPT !.pc = "reply", !.settled = ~Unsettled(draft.status)] \in Task
    BY <1>1, <2>1 DEF Task
  <2>. QED  BY <1>3, <2>2 DEF Reply, TypeOK, Shapes
<1>4. ASSUME NEW t \in Hours, NEW commit \in BOOLEAN, InterpretTime(h, t, commit)
      PROVE  Shapes' /\ UNCHANGED rows
  <2>1. <<draft.slot[1], t, draft.slot[3]>> \in Slots
    BY <1>1, SlotParts
  <2>2. [task[h] EXCEPT !.pc = "start", !.commit = commit,
                        !.slot = <<draft.slot[1], t, draft.slot[3]>>] \in Task
    BY <1>1, <2>1 DEF Task
  <2>. QED  BY <1>4, <2>2, Counters DEF InterpretTime, TypeOK, Shapes
<1>. QED  BY <1>2, <1>3, <1>4 DEF Answer

\* The steps before a task is created keep the shapes.
LEMMA StartType ==
  ASSUME TypeOK, NEW h \in Handlers,
         \/ WriteStart(h) \/ WriteDuration(h) \/ Reread(h)
         \/ CheckDraft(h) \/ MarkPending(h) \/ ShowPending(h)
  PROVE  Shapes' /\ UNCHANGED rows
<1>1. task[h] \in Task /\ task[h].slot \in Slots /\ draft.slot \in Slots
  BY DEF TypeOK, Task
<1>2. CASE WriteStart(h)
  <2>1. <<task[h].slot[1], task[h].slot[2], draft.slot[3]>> \in Slots
    BY <1>1, SlotParts
  <2>2. task' \in [Handlers -> Task]
    BY <1>2, GotoType, StopType DEF WriteStart
  <2>. QED  BY <1>2, <2>1, <2>2 DEF WriteStart, UpdateTime, TypeOK, Shapes
<1>3. CASE WriteDuration(h)
  <2>1. <<draft.slot[1], draft.slot[2], task[h].slot[3]>> \in Slots
    BY <1>1, SlotParts
  <2>2. task' \in [Handlers -> Task]
    BY <1>3, StopType DEF WriteDuration
  <2>. QED  BY <1>3, <2>1, <2>2 DEF WriteDuration, UpdateTime, TypeOK, Shapes
<1>4. CASE Reread(h)
  <2>1. task' \in [Handlers -> Task]
    BY <1>4, GotoType, StopType DEF Reread
  <2>. QED  BY <1>4, <2>1 DEF Reread, TypeOK, Shapes
<1>5. CASE CheckDraft(h)
  <2>1. [Idle EXCEPT !.pc = "mark", !.slot = draft.slot] \in Task
    BY <1>1, IdleType DEF Task
  <2>2. task' \in [Handlers -> Task]
    BY <1>5, <2>1, StopType DEF CheckDraft, TypeOK
  <2>. QED  BY <1>5, <2>2 DEF CheckDraft, TypeOK, Shapes
<1>6. CASE MarkPending(h)
  <2>1. task' \in [Handlers -> Task]
    BY <1>6, GotoType DEF MarkPending
  <2>. QED  BY <1>6, <2>1 DEF MarkPending, UpdateStatus, TypeOK, Shapes
<1>7. CASE ShowPending(h)
  <2>1. task' \in [Handlers -> Task]
    BY <1>7, GotoType, StopType DEF ShowPending
  <2>. QED  BY <1>7, <2>1, Counters DEF ShowPending, TypeOK, Shapes
<1>. QED  BY <1>2, <1>3, <1>4, <1>5, <1>6, <1>7

\* The steps of a task that adds keep the shapes.
LEMMA AddType ==
  ASSUME TypeOK, NEW h \in Handlers,
         \/ ReadDraft(h) \/ GetEvent(h) \/ WriteEvent(h) \/ VerifyEvent(h)
         \/ RecordSuccess(h) \/ RecordFailure(h) \/ Tell(h)
  PROVE  Shapes' /\ UNCHANGED rows
<1>1. task[h] \in Task /\ task[h].slot \in Slots /\ draft.slot \in Slots
  BY DEF TypeOK, Task
<1>2. CASE ReadDraft(h)
  <2>1. [Idle EXCEPT !.pc = "get", !.slot = SlotRead(h)] \in Task
    BY <1>1, IdleType DEF Task, SlotRead
  <2>2. Quiet \in BOOLEAN
    BY DEF Quiet
  <2>. QED  BY <1>2, <2>1, <2>2 DEF ReadDraft, TypeOK, Shapes
<1>3. CASE GetEvent(h)
  <2>1. PICK found \in {event[Own].status, Unread} :
          /\ IF found = event[Own].status THEN UNCHANGED faults ELSE Fault
          /\ task' = [task EXCEPT ![h].pc = "write", ![h].found = found]
    BY <1>3 DEF GetEvent
  <2>2. [task[h] EXCEPT !.pc = "write", !.found = found] \in Task
    BY <1>1, IdleType DEF TypeOK, Task, Unread
  <2>3. task' \in [Handlers -> Task] /\ faults' \in 0..MaxFaults
    BY <2>1, <2>2, Counters DEF TypeOK
  <2>. QED  BY <1>3, <2>3 DEF GetEvent, TypeOK, Shapes
<1>4. CASE WriteEvent(h)
  <2> DEFINE target == Target(task[h].found)
             written == [event EXCEPT ![target] = [status |-> "live", slot |-> task[h].slot]]
  <2>1. target \in Ids
    BY <1>4, TargetType DEF WriteEvent
  <2>2. written \in [Ids -> [status : {"none", "live", "cancelled"}, slot : Slots]]
    BY <1>1, <2>1 DEF TypeOK
  <2>3. [task[h] EXCEPT !.pc = "verify", !.target = target] \in Task
    BY <1>1, <2>1 DEF Task
  <2> HIDE DEF target, written
  <2>4. \/ /\ event' = written
           /\ task' = [task EXCEPT ![h].pc = "verify", ![h].target = target]
           /\ UNCHANGED faults
        \/ Fault /\ event' \in {event, written} /\ Goto(h, "lost")
        \/ Goto(h, "lost") /\ UNCHANGED <<event, faults>>
    BY <1>4 DEF WriteEvent, target, written
  <2>5. task' \in [Handlers -> Task]
    <3>1. CASE Goto(h, "lost")
      BY <3>1, GotoType
    <3>2. CASE task' = [task EXCEPT ![h].pc = "verify", ![h].target = target]
      BY <2>3, <3>2 DEF TypeOK
    <3>. QED  BY <2>4, <3>1, <3>2
  <2>6. faults' \in 0..MaxFaults
    BY <2>4, Counters DEF TypeOK
  <2>7. event' \in [Ids -> [status : {"none", "live", "cancelled"}, slot : Slots]]
    BY <2>2, <2>4 DEF TypeOK
  <2>. QED  BY <1>4, <2>5, <2>6, <2>7 DEF WriteEvent, TypeOK, Shapes
<1>5. CASE VerifyEvent(h)
  <2>1. Goto(h, "won") \/ Goto(h, "lost")
    BY <1>5 DEF VerifyEvent
  <2>2. task' \in [Handlers -> Task]
    BY <2>1, GotoType
  <2>. QED  BY <1>5, <2>2, Counters DEF VerifyEvent, TypeOK, Shapes
<1>6. CASE RecordSuccess(h) \/ RecordFailure(h)
  <2>1. task' \in [Handlers -> Task]
    BY <1>6, GotoType, StopType DEF RecordSuccess, RecordFailure
  <2>. QED  BY <1>6, <2>1 DEF RecordSuccess, RecordFailure, UpdateStatus, TypeOK, Shapes
<1>7. CASE Tell(h)
  <2>1. task' \in [Handlers -> Task]
    BY <1>7, GotoType, StopType DEF Tell
  <2>. QED  BY <1>7, <2>1, Counters DEF Tell, TypeOK, Shapes
<1>. QED  BY <1>2, <1>3, <1>4, <1>5, <1>6, <1>7

\* An upsert leaves the rows as they were, when another row has the event or
\* the date, or the row in its place, or at the end; and the rows stay unique.
LEMMA RowsPut ==
  ASSUME RowsUnique, NEW r \in Nat,
         NEW row \in [event : Sessions, day : Days], PutRow(r, row)
  PROVE  /\ RowsUnique'
         /\ Len(rows) \in Nat /\ Len(rows') \in Nat /\ Len(rows') >= Len(rows)
         /\ \/ UNCHANGED rows /\ (Refused(r, row) \/ r > Len(rows))
            \/ \E i \in 1..Len(rows') :
                 /\ rows'[i] = row
                 /\ \A k \in 1..Len(rows') : k # i => k \in 1..Len(rows) /\ rows'[k] = rows[k]
<1> DEFINE Row == [event : Sessions, day : Days]
<1>1. rows \in Seq(Row) /\ Len(rows) \in Nat
  BY LenProperties DEF RowsUnique
<1>2. CASE Refused(r, row)
  <2>1. UNCHANGED rows
    BY <1>2 DEF PutRow
  <2>. QED  BY <1>1, <1>2, <2>1 DEF RowsUnique
<1>3. CASE ~Refused(r, row) /\ r = 0
  <2>1. rows' = Append(rows, row)
    BY <1>3 DEF PutRow
  <2>2. /\ rows' \in Seq(Row) /\ Len(rows') = Len(rows) + 1
        /\ \A k \in 1..Len(rows) : rows'[k] = rows[k]
        /\ rows'[Len(rows) + 1] = row
    BY <1>1, <2>1, AppendProperties
  <2>3. \A k \in 1..Len(rows) : rows[k].event # row.event /\ rows[k].day # row.day
    BY <1>1, <1>3 DEF Refused
  <2> HIDE DEF Row
  <2>4. ASSUME NEW i \in 1..Len(rows'), NEW k \in 1..Len(rows'), i # k
        PROVE  rows'[i].event # rows'[k].event /\ rows'[i].day # rows'[k].day
    BY <1>1, <2>2, <2>3, <2>4 DEF RowsUnique, Keyed
  <2>5. RowsUnique'
    BY <2>2, <2>4 DEF RowsUnique, Keyed, Row
  <2>6. Len(rows) + 1 \in 1..Len(rows') /\ Len(rows') >= Len(rows) /\ Len(rows') \in Nat
    BY <1>1, <2>2
  <2>7. \A k \in 1..Len(rows') : k # Len(rows) + 1 => k \in 1..Len(rows) /\ rows'[k] = rows[k]
    BY <1>1, <2>2
  <2>. QED  BY <1>1, <2>2, <2>5, <2>6, <2>7
<1>4. CASE ~Refused(r, row) /\ r # 0 /\ r <= Len(rows)
  <2>1. r \in 1..Len(rows) /\ rows' = [rows EXCEPT ![r] = row]
    BY <1>1, <1>4 DEF PutRow
  <2>2. /\ rows' \in Seq(Row) /\ Len(rows') = Len(rows)
        /\ \A k \in 1..Len(rows) : rows'[k] = IF k = r THEN row ELSE rows[k]
    BY <1>1, <2>1, ExceptSeq
  <2>3. \A k \in 1..Len(rows) : k # r => rows[k].event # row.event /\ rows[k].day # row.day
    BY <1>4 DEF Refused
  <2> HIDE DEF Row
  <2>4. ASSUME NEW i \in 1..Len(rows'), NEW k \in 1..Len(rows'), i # k
        PROVE  rows'[i].event # rows'[k].event /\ rows'[i].day # rows'[k].day
    BY <1>1, <2>2, <2>3, <2>4 DEF RowsUnique, Keyed
  <2>5. RowsUnique'
    BY <2>2, <2>4 DEF RowsUnique, Keyed, Row
  <2>. QED  BY <1>1, <2>1, <2>2, <2>5
<1>5. CASE ~Refused(r, row) /\ r # 0 /\ r > Len(rows)
  <2>1. rows' = [rows EXCEPT ![r] = row] /\ r \notin DOMAIN rows
    BY <1>1, <1>5, LenProperties DEF PutRow
  <2>2. UNCHANGED rows
    BY <1>1, <2>1, LenProperties
  <2>. QED  BY <1>1, <1>5, <2>2 DEF RowsUnique
<1>. QED  BY <1>1, <1>2, <1>3, <1>4, <1>5

\* What a select returns is a row, or none.
LEMMA SelectedType ==
  ASSUME RowsUnique, NEW e, NEW d, NEW r \in Selected(e, d)
  PROVE  r \in Nat /\ r <= Len(rows)
<1>1. Len(rows) \in Nat
  BY LenProperties DEF RowsUnique
<1>. QED  BY <1>1 DEF Selected

\* The steps that record an addition keep the shapes.
LEMMA RecordType ==
  ASSUME TypeOK, NEW h \in Handlers, LoadRow(h) \/ SaveRow(h) \/ MoveAnchor(h)
  PROVE  Shapes'
<1>1. task[h] \in Task /\ task[h].target \in Sessions
  BY IdleType DEF TypeOK, Task
<1>2. CASE LoadRow(h)
  <2>1. PICK r \in Selected(RecordedEvent(h), task[h].slot[1]) :
          task' = [task EXCEPT ![h].pc = "save", ![h].row = r]
    BY <1>2 DEF LoadRow
  <2>2. r \in Nat
    BY SelectedType, TypeParts
  <2>3. [task[h] EXCEPT !.pc = "save", !.row = r] \in Task
    BY <1>1, <2>2 DEF Task
  <2>4. task' \in [Handlers -> Task]
    BY <2>1, <2>3 DEF TypeOK
  <2>. QED  BY <1>2, <2>4 DEF LoadRow, TypeOK, Shapes
<1>3. CASE SaveRow(h)
  <2>1. task' \in [Handlers -> Task]
    BY <1>3, GotoType DEF SaveRow
  <2>. QED  BY <1>3, <2>1 DEF SaveRow, TypeOK, Shapes
<1>4. CASE MoveAnchor(h)
  <2>1. task' \in [Handlers -> Task]
    BY <1>4, StopType DEF MoveAnchor
  <2>. QED  BY <1>1, <1>4, <2>1 DEF MoveAnchor, TypeOK, Shapes
<1>. QED  BY <1>2, <1>3, <1>4

\* A task's upsert, which keeps the rows unique.
LEMMA RowsSaved ==
  ASSUME TypeOK, NEW h \in Handlers, SaveRow(h)
  PROVE  /\ RowsUnique'
         /\ Len(rows) \in Nat /\ Len(rows') \in Nat /\ Len(rows') >= Len(rows)
         /\ LET row == [event |-> task[h].target, day |-> task[h].slot[1]] IN
            \/ UNCHANGED rows /\ (Refused(task[h].row, row) \/ task[h].row > Len(rows))
            \/ \E i \in 1..Len(rows') :
                 /\ rows'[i] = row
                 /\ \A k \in 1..Len(rows') : k # i => k \in 1..Len(rows) /\ rows'[k] = rows[k]
<1> DEFINE row == [event |-> task[h].target, day |-> task[h].slot[1]]
<1>1. row \in [event : Sessions, day : Days] /\ task[h].row \in Nat
  BY SlotParts, IdleType DEF TypeOK, Task
<1>2. PutRow(task[h].row, row) /\ RowsUnique
  BY TypeParts DEF SaveRow, RecordedEvent
<1> HIDE DEF row
<1>3. /\ RowsUnique'
      /\ Len(rows) \in Nat /\ Len(rows') \in Nat /\ Len(rows') >= Len(rows)
      /\ \/ UNCHANGED rows /\ (Refused(task[h].row, row) \/ task[h].row > Len(rows))
         \/ \E i \in 1..Len(rows') :
              /\ rows'[i] = row
              /\ \A k \in 1..Len(rows') : k # i => k \in 1..Len(rows) /\ rows'[k] = rows[k]
  BY <1>1, <1>2, RowsPut
<1>. QED  BY <1>3 DEF row

\* The other writers keep the types, and no row goes.
LEMMA ElsewhereType ==
  ASSUME TypeOK, Elsewhere
  PROVE  Shapes' /\ RowsUnique' /\ Len(rows) \in Nat /\ Len(rows') >= Len(rows)
<1>0. /\ RowsUnique /\ Len(rows) \in Nat
      /\ \A r \in 1..Len(rows) : rows[r].event \in Sessions
  <2>1. rows \in Seq([event : Sessions, day : Days]) /\ Len(rows) \in Nat
    BY LenProperties DEF TypeOK
  <2>2. \A r \in 1..Len(rows) : rows[r] \in [event : Sessions, day : Days]
    BY <2>1, ElementOfSeq
  <2>. QED  BY <2>1, <2>2, TypeParts
<1>1. CASE EnsureAnchor
  BY <1>0, <1>1, IdleType DEF EnsureAnchor, TypeOK, Shapes, RowsUnique
<1>2. CASE RefreshAnchor
  BY <1>0, <1>2, Counters DEF RefreshAnchor, TypeOK, Shapes, RowsUnique
<1>3. ASSUME NEW e \in Sessions, NEW d \in Days, StoreSession(e, d)
      PROVE  Shapes' /\ RowsUnique' /\ Len(rows) \in Nat /\ Len(rows') >= Len(rows)
  <2>1. PICK r \in Selected(e, d) : PutRow(r, [event |-> e, day |-> d])
    BY <1>3 DEF StoreSession
  <2>2. r \in Nat /\ r <= Len(rows)
    BY <1>0, SelectedType
  <2>3. [event |-> e, day |-> d] \in [event : Sessions, day : Days]
    OBVIOUS
  <2>4. RowsUnique' /\ Len(rows') >= Len(rows)
    BY <1>0, <2>1, <2>2, <2>3, RowsPut
  <2>5. Shapes'
    BY <1>3, Counters DEF StoreSession, TypeOK, Shapes
  <2>. QED  BY <1>0, <2>4, <2>5
<1>. QED  BY <1>1, <1>2, <1>3 DEF Elsewhere

\* The user's changes and crashes keep the shapes.
LEMMA UserType ==
  ASSUME TypeOK, User
  PROVE  Shapes' /\ UNCHANGED rows
<1>1. ASSUME NEW e \in Ids, DeleteEvent(e) PROVE Shapes' /\ UNCHANGED rows
  BY <1>1, Counters DEF DeleteEvent, TypeOK, Shapes
<1>2. ASSUME NEW e \in Ids, NEW s \in Slots, MoveEvent(e, s) PROVE Shapes' /\ UNCHANGED rows
  BY <1>2, Counters DEF MoveEvent, TypeOK, Shapes
<1>3. CASE Crash
  <2>1. /\ (stuck \/ draft.status = "pending") \in BOOLEAN
        /\ (lost \/ \E h \in Handlers : task[h].pc \in Recording) \in BOOLEAN
        /\ (clean /\ Quiet) \in BOOLEAN
    OBVIOUS
  <2>. QED  BY <1>3, <2>1, IdleType, Counters DEF Crash, TypeOK, Shapes
<1>. QED  BY <1>1, <1>2, <1>3 DEF User

\* Every step keeps the types.
LEMMA TypeStep == TypeOK /\ [Next]_vars => TypeOK'
<1>. SUFFICES ASSUME TypeOK, [Next]_vars PROVE TypeOK'
  OBVIOUS
<1>1. TypeOK' <=> Shapes' /\ RowsUnique'
  BY DEF TypeOK, Shapes, RowsUnique
<1>2. CASE UNCHANGED rows
  <2>1. RowsUnique'
    BY <1>2, TypeParts DEF RowsUnique
  <2>2. Shapes'
    <3>1. CASE User
      BY <3>1, UserType
    <3>2. ASSUME NEW h \in Handlers, Edit(h) \/ Click(h) \/ Reply(h) \/ Answer(h) \/ Run(h)
          PROVE  Shapes'
      BY <3>2, EditType, AnswerType, StartType, AddType, RecordType DEF Run
    <3>3. CASE UNCHANGED vars
      BY <3>3, TypeParts DEF vars, Shapes
    <3>. QED  BY <3>1, <3>2, <3>3, ElsewhereType DEF Next
  <2>. QED  BY <1>1, <2>1, <2>2
<1>3. ASSUME NEW h \in Handlers, SaveRow(h) PROVE TypeOK'
  BY <1>1, <1>3, RowsSaved, RecordType
<1>4. UNCHANGED rows \/ Elsewhere \/ \E h \in Handlers : SaveRow(h)
  <2>1. ASSUME NEW h \in Handlers, LoadRow(h) \/ MoveAnchor(h) PROVE UNCHANGED rows
    BY <2>1 DEF LoadRow, MoveAnchor
  <2>2. ASSUME NEW h \in Handlers, Edit(h) \/ Click(h) \/ Reply(h) \/ Answer(h) \/ Run(h)
        PROVE  UNCHANGED rows \/ SaveRow(h)
    BY <2>1, <2>2, EditType, AnswerType, StartType, AddType DEF Run
  <2>. QED  BY <2>2, UserType DEF Next, vars
<1>. QED  BY <1>1, <1>2, <1>3, <1>4, ElsewhereType

\* Every variable keeps its shape, and no two session rows are of one event or
\* of one date.
THEOREM TypeCorrect == Spec => []TypeOK
<1>1. Init => TypeOK
  <2>. SUFFICES ASSUME Init PROVE TypeOK
    OBVIOUS
  <2>1. Shapes
    <3>1. draft \in [slot : Slots, status : {"draft", "pending", "success", "failure"}]
      BY IdleType DEF Init
    <3>2. event \in [Ids -> [status : {"none", "live", "cancelled"}, slot : Slots]]
      BY IdleType DEF Init
    <3>3. edits \in 0..MaxEdits /\ faults \in 0..MaxFaults
      BY CardAssumption DEF Init
    <3>. QED  BY <3>1, <3>2, <3>3, IdleType DEF Init, Shapes
  <2>2. RowsUnique
    <3>1. PICK n \in 0..MaxRows : rows \in [1..n -> [event : {Own} \cup Others, day : Days]]
      BY DEF Init
    <3>2. n \in Nat /\ {Own} \cup Others \subseteq Sessions
      BY CardAssumption, IdleType DEF Sessions
    <3>3. rows \in [1..n -> [event : Sessions, day : Days]]
      BY <3>1, <3>2
    <3>4. rows \in Seq([event : Sessions, day : Days])
      <4> DEFINE Row == [event : Sessions, day : Days]
      <4>1. rows \in UNION {[1..k -> Row] : k \in Nat}
        BY <3>2, <3>3, Zenon
      <4> HIDE DEF Row
      <4>2. rows \in Seq(Row)
        BY <4>1, SeqDef, Zenon
      <4>. QED  BY <4>2 DEF Row
    <3>. QED  BY <3>4 DEF Init, RowsUnique
  <2>. QED  BY <2>1, <2>2, TypeParts
<1>. QED  BY <1>1, TypeStep, PTL DEF Spec
----------------------------------------------------------------------------
(* The event on the calendar *)

\* Why no second event can come about: an id is only generated by a task that
\* read the own event as cancelled, which only the user makes it.
OwnFirst ==
  /\ event[Own].status = "cancelled" => deleted
  /\ \A h \in Handlers : task[h].found = "cancelled" => deleted
  /\ deleted \/ \A e \in Ids \ {Own} : event[e].status = "none"

\* Only the steps of one task read the calendar for its id, and write to it.
LEMMA CalendarKinds ==
  ASSUME TypeOK, [Next]_vars
  PROVE  \/ /\ UNCHANGED <<event, deleted>>
            /\ \A h \in Handlers : task'[h].found \in {task[h].found, "none"}
         \/ \E h \in Handlers : GetEvent(h) \/ WriteEvent(h)
         \/ \E e \in Ids : DeleteEvent(e) \/ \E s \in Slots : MoveEvent(e, s)
<1> DEFINE Kept == /\ UNCHANGED <<event, deleted>>
                   /\ \A h \in Handlers : task'[h].found \in {task[h].found, "none"}
<1>0. task \in [Handlers -> Task]
  BY DEF TypeOK
<1>1. ASSUME NEW h \in Handlers, NEW pc, Goto(h, pc), UNCHANGED <<event, deleted>>
      PROVE  Kept
  BY <1>0, <1>1 DEF Goto, Task
<1>2. ASSUME NEW h \in Handlers, Stop(h), UNCHANGED <<event, deleted>>
      PROVE  Kept
  BY <1>0, <1>2 DEF Stop, Idle, Task
<1>3. ASSUME NEW h \in Handlers, Edit(h) PROVE Kept
  <2>1. ASSUME NEW d \in Days, NEW t \in Hours, PickStart(h, d, t) PROVE Kept
    BY <1>0, <2>1 DEF PickStart, Task
  <2>2. ASSUME NEW d \in Days, NEW m \in Minutes, SubmitModal(h, d, m) PROVE Kept
    BY <1>0, <2>2 DEF SubmitModal, Task
  <2>3. CASE \/ \E d \in Days, t \in Hours : PickStartAt(h, d, t)
             \/ \E m \in Minutes : PickDuration(h, m)
    BY <1>0, <2>3 DEF PickStartAt, PickDuration
  <2>. QED  BY <1>3, <2>1, <2>2, <2>3 DEF Edit
<1>4. ASSUME NEW h \in Handlers, Click(h) \/ Reply(h) \/ Answer(h) PROVE Kept
  <2>1. CASE Click(h) \/ InterpretCommit(h) \/ Ignore(h)
    BY <1>1, <1>2, <2>1 DEF Click, InterpretCommit, Ignore
  <2>2. CASE Reply(h)
    BY <1>0, <2>2 DEF Reply, Task
  <2>3. CASE \E t \in Hours, commit \in BOOLEAN : InterpretTime(h, t, commit)
    BY <1>0, <2>3 DEF InterpretTime, Task
  <2>. QED  BY <1>4, <2>1, <2>2, <2>3 DEF Answer
<1>5. ASSUME NEW h \in Handlers,
             \/ WriteStart(h) \/ WriteDuration(h) \/ Reread(h)
             \/ CheckDraft(h) \/ MarkPending(h) \/ ShowPending(h)
      PROVE  Kept
  <2>1. CASE CheckDraft(h)
    <3>1. CASE task' = [task EXCEPT ![h] = [Idle EXCEPT !.pc = "mark", !.slot = draft.slot]]
      BY <1>0, <2>1, <3>1 DEF CheckDraft, Idle, Task
    <3>. QED  BY <1>2, <2>1, <3>1 DEF CheckDraft
  <2>2. CASE WriteStart(h) \/ WriteDuration(h) \/ Reread(h) \/ MarkPending(h) \/ ShowPending(h)
    BY <1>1, <1>2, <2>2 DEF WriteStart, WriteDuration, Reread, MarkPending, ShowPending
  <2>. QED  BY <1>5, <2>1, <2>2
<1>6. ASSUME NEW h \in Handlers,
             \/ ReadDraft(h) \/ VerifyEvent(h) \/ RecordSuccess(h) \/ RecordFailure(h)
             \/ Tell(h) \/ SaveRow(h) \/ MoveAnchor(h)
      PROVE  Kept
  <2>1. CASE ReadDraft(h)
    BY <1>0, <2>1 DEF ReadDraft, Idle, Task
  <2>2. CASE VerifyEvent(h)
    <3>1. UNCHANGED <<event, deleted>> /\ (Goto(h, "won") \/ Goto(h, "lost"))
      BY <2>2 DEF VerifyEvent
    <3>. QED  BY <1>1, <3>1
  <2>3. CASE RecordSuccess(h) \/ RecordFailure(h) \/ Tell(h) \/ SaveRow(h) \/ MoveAnchor(h)
    BY <1>1, <1>2, <2>3 DEF RecordSuccess, RecordFailure, Tell, SaveRow, MoveAnchor
  <2>. QED  BY <1>6, <2>1, <2>2, <2>3
<1>7. ASSUME NEW h \in Handlers, LoadRow(h) PROVE Kept
  <2>1. PICK r : task' = [task EXCEPT ![h].pc = "save", ![h].row = r]
    BY <1>7 DEF LoadRow
  <2>2. UNCHANGED <<event, deleted>>
    BY <1>7 DEF LoadRow
  <2>. QED  BY <1>0, <2>1, <2>2 DEF Task
<1>8. CASE Crash
  BY <1>0, <1>8 DEF Crash, Idle
<1>9. CASE UNCHANGED vars
  BY <1>9 DEF vars
<1>10. CASE Elsewhere
  BY <1>10 DEF Elsewhere, EnsureAnchor, RefreshAnchor, StoreSession
<1>. QED  BY <1>3, <1>4, <1>5, <1>6, <1>7, <1>8, <1>9, <1>10 DEF Next, Run, User

\* Every step keeps the own event first.
LEMMA OwnFirstStep == TypeOK /\ OwnFirst /\ [Next]_vars => OwnFirst'
<1>. SUFFICES ASSUME TypeOK, OwnFirst, [Next]_vars PROVE OwnFirst'
  OBVIOUS
<1>1. Own \in Ids
  BY IdleType
<1>2. CASE /\ UNCHANGED <<event, deleted>>
           /\ \A h \in Handlers : task'[h].found \in {task[h].found, "none"}
  BY <1>2 DEF OwnFirst
<1>3. ASSUME NEW h \in Handlers, GetEvent(h) PROVE OwnFirst'
  <2>1. PICK found \in {event[Own].status, Unread} :
          task' = [task EXCEPT ![h].pc = "write", ![h].found = found]
    BY <1>3 DEF GetEvent
  <2>2. found = "cancelled" => deleted
    BY DEF OwnFirst, Unread
  <2>. QED  BY <1>3, <2>1, <2>2 DEF GetEvent, OwnFirst, TypeOK, Task
<1>4. ASSUME NEW h \in Handlers, WriteEvent(h) PROVE OwnFirst'
  <2>1. \A g \in Handlers : task'[g].found = task[g].found
    <3>1. task' = [task EXCEPT ![h].pc = "lost"]
          \/ \E target : task' = [task EXCEPT ![h].pc = "verify", ![h].target = target]
      BY <1>4 DEF WriteEvent, Goto
    <3>2. CASE task' = [task EXCEPT ![h].pc = "lost"]
      BY <3>2 DEF TypeOK, Task
    <3>3. ASSUME NEW target, task' = [task EXCEPT ![h].pc = "verify", ![h].target = target]
          PROVE  \A g \in Handlers : task'[g].found = task[g].found
      BY <3>3 DEF TypeOK, Task
    <3>. QED  BY <3>1, <3>2, <3>3
  <2>2. event' = event \/ event' = [event EXCEPT ![Target(task[h].found)] =
                                      [status |-> "live", slot |-> task[h].slot]]
    BY <1>4 DEF WriteEvent
  <2>3. UNCHANGED deleted
    BY <1>4 DEF WriteEvent
  <2>4. CASE deleted
    BY <2>3, <2>4 DEF OwnFirst
  <2>5. CASE ~deleted
    <3>1. Target(task[h].found) = Own
      BY <2>5 DEF OwnFirst, Target
    <3>. QED  BY <1>1, <2>1, <2>2, <2>3, <2>5, <3>1 DEF OwnFirst, TypeOK
  <2>. QED  BY <2>4, <2>5
<1>5. ASSUME NEW e \in Ids, DeleteEvent(e) PROVE OwnFirst'
  BY <1>1, <1>5 DEF DeleteEvent, OwnFirst, TypeOK
<1>6. ASSUME NEW e \in Ids, NEW s \in Slots, MoveEvent(e, s) PROVE OwnFirst'
  BY <1>1, <1>6 DEF MoveEvent, OwnFirst, TypeOK
<1>. QED  BY <1>2, <1>3, <1>4, <1>5, <1>6, CalendarKinds

\* NoSecondEvent: clicks, retries and replies leave at most the card's own
\* event, unless the user deleted that one, before or meanwhile.
THEOREM NoSecondEventCorrect == Spec => []NoSecondEvent
<1>1. Init => OwnFirst
  <2>. SUFFICES ASSUME Init PROVE OwnFirst
    OBVIOUS
  <2>1. \A e \in Ids \ {Own} : event[e].status = "none"
    BY DEF Init
  <2>2. \A h \in Handlers : task[h].found = "none"
    BY DEF Init, Idle
  <2>. QED  BY <2>1, <2>2 DEF Init, OwnFirst
<1>2. TypeOK /\ OwnFirst => NoSecondEvent
  BY DEF OwnFirst, NoSecondEvent, Live
<1>. QED  BY <1>1, <1>2, OwnFirstStep, TypeCorrect, PTL DEF Spec

\* SettledStays: once the session is added and no task is left, nothing starts
\* another one.
THEOREM SettledStaysCorrect == Spec => SettledStays
<1>1. TypeOK /\ [Next]_vars => [Settled => Settled']_vars
  <2>. SUFFICES ASSUME TypeOK, [Next]_vars, Settled PROVE Settled'
    OBVIOUS
  <2> DEFINE Resting == {"idle", "reply", "start", "minutes", "reread", "click"}
  <2>1. /\ task \in [Handlers -> Task] /\ ~Unsettled(draft.status)
        /\ draft.status = "success"
        /\ \A h \in Handlers : task[h].pc \in Resting
    BY DEF TypeOK, Settled, Unsettled
  <2>2. ASSUME NEW h \in Handlers, Edit(h) PROVE Settled'
    <3>1. draft'.status = draft.status
      BY <2>2 DEF Edit, PickStart, PickStartAt, PickDuration, SubmitModal, UpdateTime, TypeOK
    <3>2. \A g \in Handlers : task'[g].pc \in Resting
      <4>1. ASSUME NEW d \in Days, NEW t \in Hours, PickStart(h, d, t)
            PROVE  \A g \in Handlers : task'[g].pc \in Resting
        BY <2>1, <4>1 DEF PickStart, Task
      <4>2. ASSUME NEW d \in Days, NEW m \in Minutes, SubmitModal(h, d, m)
            PROVE  \A g \in Handlers : task'[g].pc \in Resting
        BY <2>1, <4>2 DEF SubmitModal, Task
      <4>3. CASE \/ \E d \in Days, t \in Hours : PickStartAt(h, d, t)
                 \/ \E m \in Minutes : PickDuration(h, m)
        BY <2>1, <4>3 DEF PickStartAt, PickDuration
      <4>. QED  BY <2>2, <4>1, <4>2, <4>3 DEF Edit
    <3>. QED  BY <2>1, <3>1, <3>2 DEF Settled
  <2>3. ASSUME NEW h \in Handlers, Click(h) \/ Reply(h) \/ Answer(h) PROVE Settled'
    <3>1. \A g \in Handlers : task'[g].pc \in Resting
      <4>1. CASE Click(h) \/ InterpretCommit(h) \/ Ignore(h)
        BY <2>1, <4>1 DEF Click, InterpretCommit, Ignore, Goto, Stop, Idle, Task
      <4>2. CASE Reply(h)
        BY <2>1, <4>2 DEF Reply, Task
      <4>3. CASE \E t \in Hours, commit \in BOOLEAN : InterpretTime(h, t, commit)
        BY <2>1, <4>3 DEF InterpretTime, Task
      <4>. QED  BY <2>3, <4>1, <4>2, <4>3 DEF Answer
    <3>2. UNCHANGED draft
      BY <2>3 DEF Click, Reply, Answer, InterpretTime, InterpretCommit, Ignore
    <3>. QED  BY <2>1, <3>1, <3>2 DEF Settled
  <2>4. ASSUME NEW h \in Handlers, WriteStart(h) \/ WriteDuration(h) PROVE Settled'
    <3>1. draft'.status = draft.status
      BY <2>4 DEF WriteStart, WriteDuration, UpdateTime, TypeOK
    <3>2. \A g \in Handlers : task'[g].pc \in Resting
      BY <2>1, <2>4 DEF WriteStart, WriteDuration, Goto, Stop, Idle, Task
    <3>. QED  BY <2>1, <3>1, <3>2 DEF Settled
  <2>5. ASSUME NEW h \in Handlers, Reread(h) \/ CheckDraft(h) PROVE Settled'
    <3>1. \A g \in Handlers : task'[g].pc \in Resting
      BY <2>1, <2>5 DEF Reread, CheckDraft, CanStart, Goto, Stop, Idle, Task
    <3>2. UNCHANGED draft
      BY <2>5 DEF Reread, CheckDraft
    <3>. QED  BY <2>1, <3>1, <3>2 DEF Settled
  <2>6. ASSUME NEW h \in Handlers, Run(h) PROVE Settled'
    <3>1. task[h].pc \in Resting
      BY <2>1
    <3>. QED
      BY <2>4, <2>5, <2>6, <3>1
      DEF Run, MarkPending, ShowPending, ReadDraft, GetEvent, WriteEvent, VerifyEvent,
          RecordSuccess, RecordFailure, Tell, LoadRow, SaveRow, MoveAnchor
  <2>7. CASE User
    <3>1. UNCHANGED draft
      BY <2>7 DEF User, DeleteEvent, MoveEvent, Crash
    <3>2. \A g \in Handlers : task'[g].pc \in Resting
      BY <2>1, <2>7 DEF User, DeleteEvent, MoveEvent, Crash, Idle
    <3>. QED  BY <2>1, <3>1, <3>2 DEF Settled
  <2>8. CASE UNCHANGED vars
    BY <2>1, <2>8 DEF vars, Settled
  <2>9. CASE Elsewhere
    BY <2>1, <2>9 DEF Elsewhere, EnsureAnchor, RefreshAnchor, StoreSession, Settled
  <2>. QED  BY <2>2, <2>3, <2>6, <2>7, <2>8, <2>9 DEF Next
<1>. QED  BY <1>1, TypeCorrect, PTL DEF Spec, SettledStays
----------------------------------------------------------------------------
(* What a card that says "added" says of the calendar, the rows, the anchor *)

OnTime(e) == event[e].status = "live" /\ event[e].slot = draft.slot

\* A session row names an event that is there, and is of the draft's date
\* unless another session holds that.
RowThere ==
  \E r \in 1..Len(rows) :
    /\ rows[r].event \in Live
    /\ \/ rows[r].day = draft.slot[1]
       \/ \E k \in 1..Len(rows) : rows[k].day = draft.slot[1] /\ rows[k].event \in Others

AnchorThere == anchor \in Live \cup {Own} \cup Others

\* A handler that reads and edits, or is about to create its task.
Outside == {"idle", "reply", "start", "minutes", "reread", "click", "mark", "show", "add"}

\* No id is generated, and none in use but of other sessions, until the own
\* event was cancelled.
OwnAlone ==
  event[Own].status # "cancelled" =>
    /\ anchor \in {Own} \cup Others
    /\ \A e \in Ids \ {Own} : event[e].status = "none"
    /\ \A h \in Handlers : task[h].target = Own /\ task[h].found # "cancelled"
    /\ \A r \in 1..Len(rows) : rows[r].event \in {Own} \cup Others

\* A generated id that is in use is the id of an event there is or was, and no
\* two tasks were given the same.
Generated ==
  /\ \A h \in Handlers : task[h].target = Own \/ event[task[h].target].status # "none"
  /\ \A r \in 1..Len(rows) :
       rows[r].event \in {Own} \cup Others \/ event[rows[r].event].status # "none"
  /\ \A g, h \in Handlers :
       g # h /\ task[g].target = task[h].target => task[h].target = Own

\* A row with a generated id was saved by the task the id was generated for,
\* or by the fallback, and what a task loaded is still there.
Unsaved ==
  /\ \A h \in Handlers : task[h].pc \in {"verify", "won", "tell", "load"} =>
       \/ crossed
       \/ task[h].target = Own
       \/ \A r \in 1..Len(rows) : rows[r].event # task[h].target
  /\ \A h \in Handlers : task[h].row <= Len(rows)

IdsInv == OwnAlone /\ Generated /\ Unsaved

\* Since the last task to begin alone: all of them add at the draft's time, and
\* what was verified is on the calendar.
SameTime ==
  /\ \A h \in Handlers : Adding(h) => task[h].slot = draft.slot
  /\ \A h \in Handlers : task[h].pc \in {"won"} \cup Recording => OnTime(task[h].target)

\* No row stands in the way of the one a task is about to save, but one that
\* serves as well; a task that saved left such a row.
RowsReady == ~crossed =>
  /\ \A h \in Handlers : task[h].pc = "save" =>
       \/ RowThere
       \/ \A k \in 1..Len(rows) : k # task[h].row =>
            rows[k].event # task[h].target /\ rows[k].day # draft.slot[1]
  /\ \A h \in Handlers : task[h].pc = "anchor" => RowThere

\* A success has its event, or a task is under way that will find out; and its
\* records, or a task is under way that will write them.
SuccessHolds ==
  draft.status = "success" =>
    /\ \/ \E e \in Ids : OnTime(e)
       \/ \E h \in Handlers : Adding(h) /\ task[h].pc \notin Recording
    /\ crossed \/ lost \/ (RowThere /\ AnchorThere) \/ \E h \in Handlers : Adding(h)

CleanInv == clean => SameTime /\ RowsReady /\ SuccessHolds

\* What a handler does before its task starts leaves the calendar and the
\* records alone, and ends a clean period when it changes the time.
Prepares(h) ==
  /\ UNCHANGED <<event, rows, anchor, lost, crossed>>
  /\ draft'.status = "success" => draft.status = "success"
  /\ clean' => clean /\ draft'.slot = draft.slot
  /\ task[h].pc \in Outside /\ task'[h].pc \in Outside
  /\ task'[h].target \in {task[h].target, Own}
  /\ task'[h].found \in {task[h].found, "none"}
  /\ task'[h].row \in {task[h].row, 0}
  /\ \A g \in Handlers \ {h} : task'[g] = task[g]

\* The handler goes on, or stops, and no other moves.
LEMMA Moves ==
  ASSUME TypeOK, NEW h \in Handlers
  PROVE  /\ \A pc : Goto(h, pc) =>
              /\ task'[h].pc = pc /\ task'[h].slot = task[h].slot
              /\ task'[h].found = task[h].found /\ task'[h].target = task[h].target
              /\ task'[h].row = task[h].row
              /\ \A g \in Handlers \ {h} : task'[g] = task[g]
         /\ Stop(h) =>
              /\ task'[h].pc = "idle" /\ task'[h].found = "none"
              /\ task'[h].target = Own /\ task'[h].row = 0
              /\ \A g \in Handlers \ {h} : task'[g] = task[g]
<1>1. task \in [Handlers -> Task]
  BY DEF TypeOK
<1>2. ASSUME NEW pc, Goto(h, pc)
      PROVE  /\ task'[h].pc = pc /\ task'[h].slot = task[h].slot
             /\ task'[h].found = task[h].found /\ task'[h].target = task[h].target
             /\ task'[h].row = task[h].row
             /\ \A g \in Handlers \ {h} : task'[g] = task[g]
  BY <1>1, <1>2 DEF Goto, Task
<1>3. Stop(h) =>
        /\ task'[h].pc = "idle" /\ task'[h].found = "none"
        /\ task'[h].target = Own /\ task'[h].row = 0
        /\ \A g \in Handlers \ {h} : task'[g] = task[g]
  BY <1>1 DEF Stop, Idle
<1>. QED  BY <1>2, <1>3

LEMMA PrepareKinds ==
  ASSUME TypeOK, NEW h \in Handlers,
         \/ Edit(h) \/ Click(h) \/ Reply(h) \/ Answer(h)
         \/ WriteStart(h) \/ WriteDuration(h) \/ Reread(h)
         \/ CheckDraft(h) \/ MarkPending(h) \/ ShowPending(h)
  PROVE  Prepares(h)
<1>0. task \in [Handlers -> Task] /\ draft.slot \in Slots /\ clean \in BOOLEAN
  BY DEF TypeOK
<1>1. CASE Edit(h)
  <2>1. ASSUME NEW d \in Days, NEW t \in Hours, PickStart(h, d, t) PROVE Prepares(h)
    BY <1>0, <2>1 DEF PickStart, Task, Prepares, Outside
  <2>2. ASSUME NEW d \in Days, NEW m \in Minutes, SubmitModal(h, d, m) PROVE Prepares(h)
    BY <1>0, <2>2 DEF SubmitModal, Task, Prepares, Outside
  <2>3. ASSUME NEW d \in Days, NEW t \in Hours, PickStartAt(h, d, t) PROVE Prepares(h)
    BY <1>0, <2>3 DEF PickStartAt, UpdateTime, TypeOK, Prepares, Outside
  <2>4. ASSUME NEW m \in Minutes, PickDuration(h, m) PROVE Prepares(h)
    BY <1>0, <2>4 DEF PickDuration, UpdateTime, TypeOK, Prepares, Outside
  <2>. QED  BY <1>1, <2>1, <2>2, <2>3, <2>4 DEF Edit
<1>2. CASE Click(h) \/ InterpretCommit(h) \/ Ignore(h) \/ Reread(h)
  <2>1. /\ UNCHANGED <<event, rows, anchor, lost, crossed, draft, clean>>
        /\ task[h].pc \in {"idle", "reply", "reread"} /\ (Goto(h, "click") \/ Stop(h))
    BY <1>2 DEF Click, InterpretCommit, Ignore, Reread
  <2>. QED  BY <2>1, Moves DEF Prepares, Outside
<1>3. CASE Reply(h)
  BY <1>0, <1>3 DEF Reply, Task, Prepares, Outside
<1>4. ASSUME NEW t \in Hours, NEW commit \in BOOLEAN, InterpretTime(h, t, commit)
      PROVE  Prepares(h)
  BY <1>0, <1>4 DEF InterpretTime, Task, Prepares, Outside
<1>5. CASE WriteStart(h) \/ WriteDuration(h)
  <2>1. /\ UNCHANGED <<event, rows, anchor, lost, crossed>>
        /\ draft'.status = draft.status /\ (clean' => clean /\ draft'.slot = draft.slot)
    BY <1>0, <1>5 DEF WriteStart, WriteDuration, UpdateTime, TypeOK
  <2>2. /\ task[h].pc \in {"start", "minutes"}
        /\ Goto(h, "minutes") \/ Goto(h, "reread") \/ Stop(h)
    BY <1>5 DEF WriteStart, WriteDuration
  <2>. QED  BY <2>1, <2>2, Moves DEF Prepares, Outside
<1>6. CASE CheckDraft(h)
  <2>1. \/ task' = [task EXCEPT ![h] = [Idle EXCEPT !.pc = "mark", !.slot = draft.slot]]
        \/ Stop(h)
    BY <1>6 DEF CheckDraft
  <2>2. task[h].pc = "click" /\ UNCHANGED <<event, rows, anchor, lost, crossed, draft, clean>>
    BY <1>6 DEF CheckDraft
  <2>3. CASE Stop(h)
    BY <2>2, <2>3, Moves DEF Prepares, Outside
  <2>4. CASE task' = [task EXCEPT ![h] = [Idle EXCEPT !.pc = "mark", !.slot = draft.slot]]
    BY <1>0, <2>2, <2>4 DEF Idle, Task, Prepares, Outside
  <2>. QED  BY <2>1, <2>3, <2>4
<1>7. CASE MarkPending(h) \/ ShowPending(h)
  <2>1. /\ UNCHANGED <<event, rows, anchor, lost, crossed, clean>>
        /\ draft'.slot = draft.slot /\ (draft'.status = "success" => draft.status = "success")
    BY <1>0, <1>7 DEF MarkPending, ShowPending, UpdateStatus, TypeOK
  <2>2. /\ task[h].pc \in {"mark", "show"}
        /\ Goto(h, "show") \/ Goto(h, "add") \/ Stop(h)
    BY <1>7 DEF MarkPending, ShowPending
  <2>. QED  BY <2>1, <2>2, Moves DEF Prepares, Outside
<1>. QED  BY <1>1, <1>2, <1>3, <1>4, <1>5, <1>6, <1>7 DEF Answer

\* A write of the calendar: of the task's target, which was not cancelled, at
\* the task's time, if of anything; and the task goes on to verify it.
LEMMA Writes ==
  ASSUME TypeOK, NEW h \in Handlers, WriteEvent(h)
  PROVE  LET e == Target(task[h].found) IN
         /\ e \in Ids
         /\ e # Own => event[e].status = "none" /\ task[h].found = "cancelled"
         /\ \/ UNCHANGED event
            \/ /\ event[e].status # "cancelled"
               /\ event' = [event EXCEPT ![e] = [status |-> "live", slot |-> task[h].slot]]
         /\ task'[h].slot = task[h].slot /\ task'[h].found = task[h].found
         /\ task'[h].row = task[h].row
         /\ \A g \in Handlers \ {h} : task'[g] = task[g]
         /\ \/ task'[h].pc = "lost" /\ task'[h].target = task[h].target
            \/ task'[h].pc = "verify" /\ task'[h].target = e /\ event'[e].status = "live"
<1> DEFINE e == Target(task[h].found)
           written == [event EXCEPT ![e] = [status |-> "live", slot |-> task[h].slot]]
<1>1. task \in [Handlers -> Task] /\ task[h] \in Task
  BY DEF TypeOK
<1>2. task[h].found = "cancelled" => \E k \in 1..Servers : event[k].status = "none"
  BY DEF WriteEvent
<1>3. e \in Ids
  BY <1>2, TargetType
<1>4. e # Own => event[e].status = "none" /\ task[h].found = "cancelled"
  BY <1>2 DEF Target
<1>5. Writable(task[h].found, e) => event[e].status # "cancelled"
  BY DEF Writable
<1>6. event'[e].status = "live" \/ event' # written
  BY <1>3 DEF TypeOK
<1> HIDE DEF e, written
<1>7. \/ /\ Writable(task[h].found, e)
         /\ event' = written
         /\ task' = [task EXCEPT ![h].pc = "verify", ![h].target = e]
      \/ /\ Goto(h, "lost")
         /\ UNCHANGED event \/ (Writable(task[h].found, e) /\ event' = written)
  BY DEF WriteEvent, e, written
<1>8. CASE Goto(h, "lost")
  BY <1>3, <1>4, <1>5, <1>7, <1>8, Moves DEF e, written
<1>9. CASE /\ Writable(task[h].found, e) /\ event' = written
           /\ task' = [task EXCEPT ![h].pc = "verify", ![h].target = e]
  <2>1. /\ task'[h].slot = task[h].slot /\ task'[h].found = task[h].found
        /\ task'[h].row = task[h].row /\ task'[h].pc = "verify" /\ task'[h].target = e
        /\ \A g \in Handlers \ {h} : task'[g] = task[g]
    BY <1>1, <1>9 DEF Task
  <2>. QED  BY <1>3, <1>4, <1>5, <1>6, <1>9, <2>1 DEF e, written
<1>. QED  BY <1>7, <1>8, <1>9

\* Every other step of a task moves no event, and at most one row.
LEMMA OtherMoves ==
  ASSUME TypeOK, NEW h \in Handlers
  PROVE  /\ ReadDraft(h) =>
              /\ task'[h].pc = "get" /\ task'[h].slot = draft.slot /\ task'[h].row = 0
              /\ task'[h].target = Own /\ task'[h].found = "none"
              /\ \A g \in Handlers \ {h} : task'[g] = task[g]
         /\ GetEvent(h) =>
              /\ task'[h].pc = "write" /\ task'[h].slot = task[h].slot
              /\ task'[h].row = task[h].row /\ task'[h].target = task[h].target
              /\ task'[h].found \in {event[Own].status, "none"}
              /\ \A g \in Handlers \ {h} : task'[g] = task[g]
         /\ LoadRow(h) =>
              /\ task'[h].pc = "save" /\ task'[h].slot = task[h].slot
              /\ task'[h].target = task[h].target /\ task'[h].found = task[h].found
              /\ task'[h].row \in {0} \cup 1..Len(rows)
              /\ \A g \in Handlers \ {h} : task'[g] = task[g]
              /\ \/ task'[h].row = 0 /\ \A r \in 1..Len(rows) :
                      rows[r].event # task[h].target /\ rows[r].day # task[h].slot[1]
                 \/ /\ task'[h].row \in 1..Len(rows)
                    /\ \/ rows[task'[h].row].event = task[h].target
                       \/ rows[task'[h].row].day = task[h].slot[1]
<1>1. task \in [Handlers -> Task]
  BY DEF TypeOK
<1>2. CASE ReadDraft(h)
  BY <1>1, <1>2 DEF ReadDraft, SlotRead, Idle, GetEvent, LoadRow
<1>3. CASE GetEvent(h)
  <2>1. PICK found \in {event[Own].status, "none"} :
          task' = [task EXCEPT ![h].pc = "write", ![h].found = found]
    BY <1>3 DEF GetEvent, Unread
  <2>. QED  BY <1>1, <1>3, <2>1 DEF Task, GetEvent, ReadDraft, LoadRow
<1>4. CASE LoadRow(h)
  <2> DEFINE found == {r \in 1..Len(rows) : \/ rows[r].event = task[h].target
                                            \/ rows[r].day = task[h].slot[1]}
  <2>1. PICK r \in IF found = {} THEN {0} ELSE found :
          task' = [task EXCEPT ![h].pc = "save", ![h].row = r]
    BY <1>4 DEF LoadRow, RecordedEvent, Selected
  <2>2. /\ task'[h].pc = "save" /\ task'[h].slot = task[h].slot
        /\ task'[h].target = task[h].target /\ task'[h].found = task[h].found
        /\ task'[h].row = r /\ \A g \in Handlers \ {h} : task'[g] = task[g]
    BY <1>1, <2>1 DEF Task
  <2>3. CASE found = {}
    BY <1>4, <2>1, <2>2, <2>3 DEF LoadRow, GetEvent, ReadDraft
  <2>4. CASE found # {}
    BY <1>4, <2>1, <2>2, <2>4 DEF LoadRow, GetEvent, ReadDraft
  <2>. QED  BY <2>3, <2>4
<1>. QED  BY <1>2, <1>3, <1>4

\* Ids are generated, stored and saved in the order the invariant says.
LEMMA IdsStep == TypeOK /\ IdsInv /\ [Next]_vars => IdsInv'
<1>. SUFFICES ASSUME TypeOK, IdsInv, [Next]_vars PROVE IdsInv'
  OBVIOUS
<1>0. /\ task \in [Handlers -> Task] /\ Len(rows) \in Nat /\ Own \in Ids
      /\ \A r \in 1..Len(rows) : rows[r].event \in Sessions
      /\ Sessions = Ids \cup Others /\ \A e \in Ids : e \notin Others
      /\ \A g \in Handlers : task[g].target \in Ids /\ task[g].row \in Nat
      /\ event \in [Ids -> [status : {"none", "live", "cancelled"}, slot : Slots]]
  <2>1. rows \in Seq([event : Sessions, day : Days]) /\ Len(rows) \in Nat
    BY LenProperties DEF TypeOK
  <2>2. \A r \in 1..Len(rows) : rows[r] \in [event : Sessions, day : Days]
    BY <2>1, ElementOfSeq
  <2>. QED  BY <2>1, <2>2, IdleType, CardAssumption DEF TypeOK, Task, Sessions
<1>1. ASSUME NEW h \in Handlers, UNCHANGED <<event, rows, anchor>>, crossed => crossed',
             task'[h].target \in {task[h].target, Own},
             task'[h].found \in {task[h].found, "none"},
             task'[h].row <= Len(rows),
             task'[h].pc \in {"verify", "won", "tell", "load"}
               => task'[h].target = Own \/ task[h].pc \in {"verify", "won", "tell", "load"},
             \A g \in Handlers \ {h} : task'[g] = task[g]
      PROVE  IdsInv'
  <2>1. OwnAlone'
    BY <1>1 DEF IdsInv, OwnAlone
  <2>2. Generated'
    BY <1>1 DEF IdsInv, Generated
  <2>3. Unsaved'
    BY <1>1 DEF IdsInv, Unsaved
  <2>. QED  BY <2>1, <2>2, <2>3 DEF IdsInv
<1>2. \A g \in Handlers : task[g].row <= Len(rows) /\ 0 <= Len(rows)
  BY <1>0 DEF IdsInv, Unsaved
<1>3. ASSUME NEW h \in Handlers, Prepares(h) PROVE IdsInv'
  BY <1>1, <1>2, <1>3 DEF Prepares, Outside
<1>4. ASSUME NEW h \in Handlers, ReadDraft(h) PROVE IdsInv'
  <2>1. UNCHANGED <<event, rows, anchor>> /\ crossed' = (crossed /\ ~Quiet)
    BY <1>4 DEF ReadDraft
  <2>2. /\ task'[h].pc = "get" /\ task'[h].row = 0
        /\ task'[h].target = Own /\ task'[h].found = "none"
        /\ \A g \in Handlers \ {h} : task'[g] = task[g]
    BY <1>4, OtherMoves
  <2>3. CASE ~Quiet
    BY <1>1, <1>2, <2>1, <2>2, <2>3
  <2>4. CASE Quiet
    <3>1. OwnAlone'
      BY <2>1, <2>2 DEF IdsInv, OwnAlone
    <3>2. Generated'
      BY <2>1, <2>2 DEF IdsInv, Generated
    <3>3. Unsaved'
      BY <1>2, <2>1, <2>2, <2>4 DEF IdsInv, Unsaved, Quiet, Adding
    <3>. QED  BY <3>1, <3>2, <3>3 DEF IdsInv
  <2>. QED  BY <2>3, <2>4
<1>5. ASSUME NEW h \in Handlers, GetEvent(h) PROVE IdsInv'
  <2>1. UNCHANGED <<event, rows, anchor, crossed>>
    BY <1>5 DEF GetEvent
  <2>2. /\ task'[h].pc = "write" /\ task'[h].row = task[h].row
        /\ task'[h].target = task[h].target
        /\ task'[h].found \in {event[Own].status, "none"}
        /\ \A g \in Handlers \ {h} : task'[g] = task[g]
    BY <1>5, OtherMoves
  <2>3. OwnAlone'
    BY <2>1, <2>2 DEF IdsInv, OwnAlone
  <2>4. Generated'
    BY <2>1, <2>2 DEF IdsInv, Generated
  <2>5. Unsaved'
    BY <2>1, <2>2 DEF IdsInv, Unsaved
  <2>. QED  BY <2>3, <2>4, <2>5 DEF IdsInv
<1>6. ASSUME NEW h \in Handlers, WriteEvent(h) PROVE IdsInv'
  <2> DEFINE e == Target(task[h].found)
  <2>1. /\ e \in Ids
        /\ e # Own => event[e].status = "none" /\ task[h].found = "cancelled"
        /\ \/ UNCHANGED event
           \/ /\ event[e].status # "cancelled"
              /\ event' = [event EXCEPT ![e] = [status |-> "live", slot |-> task[h].slot]]
        /\ task'[h].found = task[h].found /\ task'[h].row = task[h].row
        /\ \A g \in Handlers \ {h} : task'[g] = task[g]
        /\ \/ task'[h].pc = "lost" /\ task'[h].target = task[h].target
           \/ task'[h].pc = "verify" /\ task'[h].target = e /\ event'[e].status = "live"
    BY <1>6, Writes
  <2> HIDE DEF e
  <2>2. UNCHANGED <<rows, anchor, crossed>>
    BY <1>6 DEF WriteEvent
  <2>3. /\ \A k \in Ids : event'[k].status = event[k].status
              \/ (event'[k].status = "live" /\ event[k].status # "cancelled")
        /\ event'[Own].status # "cancelled" => event[Own].status # "cancelled"
    BY <1>0, <2>1
  <2>4. OwnAlone'
    BY <1>0, <2>1, <2>2, <2>3 DEF IdsInv, OwnAlone
  <2>5. e # Own => (\A g \in Handlers : task[g].target # e)
                    /\ \A r \in 1..Len(rows) : rows[r].event # e
    BY <1>0, <2>1 DEF IdsInv, Generated
  <2>6. Generated'
    <3>1. \A g \in Handlers : task'[g].target = Own \/ event'[task'[g].target].status # "none"
      BY <1>0, <2>1, <2>3 DEF IdsInv, Generated
    <3>2. \A r \in 1..Len(rows) :
            rows[r].event \in {Own} \cup Others \/ event'[rows[r].event].status # "none"
      BY <1>0, <2>3 DEF IdsInv, Generated
    <3>3. \A f, g \in Handlers :
            f # g /\ task'[f].target = task'[g].target => task'[g].target = Own
      <4>1. CASE task'[h].target = task[h].target
        BY <2>1, <4>1 DEF IdsInv, Generated
      <4>2. CASE task'[h].target = e
        BY <2>1, <2>5, <4>2 DEF IdsInv, Generated
      <4>. QED  BY <2>1, <4>1, <4>2
    <3>. QED  BY <2>2, <3>1, <3>2, <3>3 DEF Generated
  <2>7. Unsaved'
    BY <2>1, <2>2, <2>5 DEF IdsInv, Unsaved
  <2>. QED  BY <2>4, <2>6, <2>7 DEF IdsInv
<1>7. ASSUME NEW h \in Handlers,
             VerifyEvent(h) \/ RecordSuccess(h) \/ RecordFailure(h) \/ Tell(h)
      PROVE  IdsInv'
  <2>1. /\ UNCHANGED <<event, rows, anchor, crossed>>
        /\ \/ task[h].pc \in {"verify", "won", "tell"} /\ \E pc : Goto(h, pc)
           \/ Stop(h)
    BY <1>7 DEF VerifyEvent, RecordSuccess, RecordFailure, Tell
  <2>2. CASE Stop(h)
    BY <1>1, <1>2, <2>1, <2>2, Moves
  <2>3. ASSUME NEW pc, task[h].pc \in {"verify", "won", "tell"}, Goto(h, pc)
        PROVE  IdsInv'
    BY <1>1, <1>2, <2>1, <2>3, Moves
  <2>. QED  BY <2>1, <2>2, <2>3
<1>8. ASSUME NEW h \in Handlers, LoadRow(h) PROVE IdsInv'
  <2>1. UNCHANGED <<event, rows, anchor, crossed>>
    BY <1>8 DEF LoadRow
  <2>2. task'[h].row <= Len(rows)
    BY <1>0, <1>8, OtherMoves
  <2>. QED  BY <1>1, <1>8, <2>1, <2>2, OtherMoves
<1>9. ASSUME NEW h \in Handlers, SaveRow(h) PROVE IdsInv'
  <2>1. UNCHANGED <<event, anchor, crossed>> /\ task[h].pc = "save" /\ Goto(h, "anchor")
    BY <1>9 DEF SaveRow
  <2>2. /\ task'[h].pc = "anchor" /\ task'[h].row = task[h].row
        /\ task'[h].found = task[h].found /\ task'[h].target = task[h].target
        /\ \A g \in Handlers \ {h} : task'[g] = task[g]
    BY <2>1, Moves
  <2>3. /\ Len(rows') \in Nat /\ Len(rows') >= Len(rows)
        /\ \A k \in 1..Len(rows') :
             \/ rows'[k].event = task[h].target
             \/ k \in 1..Len(rows) /\ rows'[k] = rows[k]
    <3> DEFINE row == [event |-> task[h].target, day |-> task[h].slot[1]]
    <3>1. /\ Len(rows') \in Nat /\ Len(rows') >= Len(rows)
          /\ \/ UNCHANGED rows
             \/ \E r \in 1..Len(rows') :
                  /\ rows'[r] = row
                  /\ \A k \in 1..Len(rows') : k # r => k \in 1..Len(rows) /\ rows'[k] = rows[k]
      BY <1>9, RowsSaved
    <3>2. row.event = task[h].target
      OBVIOUS
    <3> HIDE DEF row
    <3>. QED  BY <1>0, <3>1, <3>2
  <2>4. OwnAlone'
    BY <2>1, <2>2, <2>3 DEF IdsInv, OwnAlone
  <2>5. Generated'
    <3>1. \A r \in 1..Len(rows') :
            rows'[r].event \in {Own} \cup Others \/ event'[rows'[r].event].status # "none"
      BY <2>1, <2>3 DEF IdsInv, Generated
    <3>. QED  BY <2>1, <2>2, <3>1 DEF IdsInv, Generated
  <2>6. Unsaved'
    <3>1. ASSUME NEW g \in Handlers, task'[g].pc \in {"verify", "won", "tell", "load"},
                 ~crossed', task'[g].target # Own, NEW r \in 1..Len(rows')
          PROVE  rows'[r].event # task'[g].target
      <4>1. g # h /\ task'[g] = task[g]
        BY <2>2, <3>1
      <4>2. task[g].target # task[h].target
        BY <3>1, <4>1 DEF IdsInv, Generated
      <4>. QED  BY <2>1, <2>3, <3>1, <4>1, <4>2 DEF IdsInv, Unsaved
    <3>2. \A g \in Handlers : task'[g].row <= Len(rows')
      BY <1>0, <1>2, <2>2, <2>3
    <3>. QED  BY <3>1, <3>2 DEF Unsaved
  <2>. QED  BY <2>4, <2>5, <2>6 DEF IdsInv
<1>10. ASSUME NEW h \in Handlers, MoveAnchor(h) PROVE IdsInv'
  <2>1. /\ UNCHANGED <<event, rows, crossed>> /\ Stop(h)
        /\ anchor' = IF task[h].target # Own THEN task[h].target ELSE anchor
    BY <1>10 DEF MoveAnchor
  <2>2. /\ task'[h].pc = "idle" /\ task'[h].found = "none"
        /\ task'[h].target = Own /\ task'[h].row = 0
        /\ \A g \in Handlers \ {h} : task'[g] = task[g]
    BY <2>1, Moves
  <2>3. OwnAlone'
    BY <2>1, <2>2 DEF IdsInv, OwnAlone
  <2>4. Generated'
    BY <2>1, <2>2 DEF IdsInv, Generated
  <2>5. Unsaved'
    BY <1>2, <2>1, <2>2 DEF IdsInv, Unsaved
  <2>. QED  BY <2>3, <2>4, <2>5 DEF IdsInv
<1>11. ASSUME NEW e \in Ids,
              \/ DeleteEvent(e)
              \/ \E s \in Slots : MoveEvent(e, s)
       PROVE  IdsInv'
  <2>1. /\ UNCHANGED <<rows, anchor, task, crossed>>
        /\ \A k \in Ids : /\ event'[k].status = "none" <=> event[k].status = "none"
                          /\ event'[k].status # "cancelled" => event[k].status # "cancelled"
    BY <1>0, <1>11 DEF DeleteEvent, MoveEvent
  <2>2. OwnAlone'
    BY <1>0, <2>1 DEF IdsInv, OwnAlone
  <2>3. Generated'
    BY <1>0, <2>1 DEF IdsInv, Generated
  <2>4. Unsaved'
    BY <2>1 DEF IdsInv, Unsaved
  <2>. QED  BY <2>2, <2>3, <2>4 DEF IdsInv
<1>12. CASE Crash
  <2>1. /\ UNCHANGED <<event, rows, anchor, crossed>>
        /\ \A g \in Handlers : /\ task'[g].pc = "idle" /\ task'[g].target = Own
                               /\ task'[g].row = 0 /\ task'[g].found = "none"
    BY <1>12 DEF Crash, Idle
  <2>2. OwnAlone'
    BY <2>1 DEF IdsInv, OwnAlone
  <2>3. Generated'
    BY <2>1 DEF IdsInv, Generated
  <2>4. Unsaved'
    BY <1>0, <2>1 DEF IdsInv, Unsaved
  <2>. QED  BY <2>2, <2>3, <2>4 DEF IdsInv
<1>13. CASE UNCHANGED vars
  BY <1>13 DEF vars, IdsInv, OwnAlone, Generated, Unsaved
<1>14. CASE EnsureAnchor
  <2>1. UNCHANGED <<event, rows, task, crossed>> /\ anchor' = Own
    BY <1>14 DEF EnsureAnchor
  <2>. QED  BY <2>1 DEF IdsInv, OwnAlone, Generated, Unsaved
<1>15. CASE RefreshAnchor
  <2>1. /\ UNCHANGED <<event, rows, task>> /\ crossed'
        /\ \E r \in 1..Len(rows) : anchor' = rows[r].event
    BY <1>15 DEF RefreshAnchor
  <2>. QED  BY <2>1 DEF IdsInv, OwnAlone, Generated, Unsaved
<1>16. ASSUME NEW e \in Sessions, NEW d \in Days, StoreSession(e, d) PROVE IdsInv'
  <2>1. /\ UNCHANGED <<event, anchor, task>> /\ crossed'
        /\ e \in Ids => event[e].status # "none"
    BY <1>16 DEF StoreSession
  <2>2. /\ Len(rows') \in Nat /\ Len(rows') >= Len(rows)
        /\ \A k \in 1..Len(rows') :
             rows'[k].event = e \/ (k \in 1..Len(rows) /\ rows'[k] = rows[k])
    <3> DEFINE row == [event |-> e, day |-> d]
    <3>1. PICK r \in Selected(e, d) : PutRow(r, row)
      BY <1>16 DEF StoreSession
    <3>2. RowsUnique /\ r \in Nat /\ row \in [event : Sessions, day : Days] /\ row.event = e
      BY TypeParts, SelectedType
    <3> HIDE DEF row
    <3>3. /\ Len(rows') \in Nat /\ Len(rows') >= Len(rows)
          /\ \/ UNCHANGED rows
             \/ \E i \in 1..Len(rows') :
                  /\ rows'[i] = row
                  /\ \A k \in 1..Len(rows') : k # i => k \in 1..Len(rows) /\ rows'[k] = rows[k]
      BY <3>1, <3>2, RowsPut
    <3>. QED  BY <3>2, <3>3
  <2>3. OwnAlone'
    BY <1>0, <2>1, <2>2 DEF IdsInv, OwnAlone
  <2>4. Generated'
    <3>1. \A r \in 1..Len(rows') :
            rows'[r].event \in {Own} \cup Others \/ event'[rows'[r].event].status # "none"
      BY <1>0, <2>1, <2>2 DEF IdsInv, Generated
    <3>. QED  BY <2>1, <3>1 DEF IdsInv, Generated
  <2>5. Unsaved'
    BY <1>0, <1>2, <2>1, <2>2 DEF Unsaved
  <2>. QED  BY <2>3, <2>4, <2>5 DEF IdsInv
<1>. QED
  BY <1>3, <1>4, <1>5, <1>6, <1>7, <1>8, <1>9, <1>10, <1>11, <1>12, <1>13, <1>14, <1>15,
     <1>16, PrepareKinds
  DEF Next, Run, User, Elsewhere

\* A clean period stays as the invariant says, and so ends a success.
LEMMA CleanStep == TypeOK /\ IdsInv /\ CleanInv /\ [Next]_vars => CleanInv'
<1>. SUFFICES ASSUME TypeOK, IdsInv, CleanInv, [Next]_vars, clean' PROVE (SameTime /\ RowsReady /\ SuccessHolds)'
  BY DEF CleanInv
<1> DEFINE Same == /\ UNCHANGED <<event, rows, anchor>>
                   /\ draft'.slot = draft.slot
                   /\ clean
<1>0. /\ task \in [Handlers -> Task] /\ Len(rows) \in Nat /\ Own \in Ids
      /\ draft.slot \in Slots
      /\ \A g \in Handlers : task[g].target \in Ids /\ task[g].row \in Nat
      /\ event \in [Ids -> [status : {"none", "live", "cancelled"}, slot : Slots]]
  BY IdleType, LenProperties DEF TypeOK, Task
\* While nothing moves but one handler:
<1>1. ASSUME NEW h \in Handlers, Same, SameTime, RowsReady, SuccessHolds,
             \A g \in Handlers \ {h} : task'[g] = task[g],
             Adding(h)' => task'[h].slot = draft.slot,
             task'[h].pc \in {"won"} \cup Recording => OnTime(task'[h].target),
             task'[h].pc # "save", crossed \/ (task'[h].pc = "anchor" => RowThere),
             draft'.status = "success" => draft.status = "success",
             lost => lost', crossed => crossed',
             (Adding(h) => Adding(h)' /\ task[h].pc \notin Recording /\ task'[h].pc \notin Recording)
                \/ draft'.status # "success"
      PROVE  (SameTime /\ RowsReady /\ SuccessHolds)'
  <2>1. SameTime'
    BY <1>1 DEF SameTime, OnTime, Adding
  <2>2. RowThere <=> RowThere'
    BY <1>1 DEF RowThere, Live
  <2>3. RowsReady'
    BY <1>1, <2>2 DEF RowsReady
  <2>4. AnchorThere <=> AnchorThere'
    BY <1>1 DEF AnchorThere, Live
  <2>5. SuccessHolds'
    BY <1>1, <2>2, <2>4 DEF SuccessHolds, OnTime, Adding, Recording
  <2>. QED  BY <2>1, <2>3, <2>5
<1>2. ASSUME NEW h \in Handlers, Prepares(h) PROVE (SameTime /\ RowsReady /\ SuccessHolds)'
  BY <1>1, <1>2 DEF Prepares, Outside, Adding, Recording, CleanInv
<1>3. ASSUME NEW h \in Handlers, ReadDraft(h) PROVE (SameTime /\ RowsReady /\ SuccessHolds)'
  <2>1. /\ UNCHANGED <<event, rows, anchor, draft, lost>> /\ task[h].pc = "add"
        /\ clean \/ Quiet
        /\ crossed' = (crossed /\ ~Quiet)
    BY <1>3 DEF ReadDraft
  <2>2. /\ task'[h].pc = "get" /\ task'[h].slot = draft.slot
        /\ \A g \in Handlers \ {h} : task'[g] = task[g]
    BY <1>3, OtherMoves
  <2>3. CASE ~Quiet
    BY <1>1, <2>1, <2>2, <2>3 DEF Adding, Recording, CleanInv
  <2>4. CASE Quiet
    <3>1. SameTime'
      BY <2>1, <2>2, <2>4 DEF SameTime, Quiet, Adding, Recording
    <3>2. RowsReady'
      BY <2>2, <2>4 DEF RowsReady, Quiet, Adding
    <3>3. SuccessHolds'
      BY <2>2 DEF SuccessHolds, Adding, Recording
    <3>. QED  BY <3>1, <3>2, <3>3
  <2>. QED  BY <2>1, <2>3, <2>4
<1>4. ASSUME NEW h \in Handlers, GetEvent(h) PROVE (SameTime /\ RowsReady /\ SuccessHolds)'
  <2>1. /\ UNCHANGED <<event, rows, anchor, draft, lost, clean, crossed>> /\ task[h].pc = "get"
    BY <1>4 DEF GetEvent
  <2>2. /\ task'[h].pc = "write" /\ task'[h].slot = task[h].slot
        /\ \A g \in Handlers \ {h} : task'[g] = task[g]
    BY <1>4, OtherMoves
  <2>. QED  BY <1>1, <2>1, <2>2 DEF Adding, Recording, CleanInv, SameTime
<1>5. ASSUME NEW h \in Handlers, WriteEvent(h) PROVE (SameTime /\ RowsReady /\ SuccessHolds)'
  <2>1. UNCHANGED <<rows, anchor, draft, lost, clean, crossed>> /\ task[h].pc = "write"
    BY <1>5 DEF WriteEvent
  <2>2. SameTime /\ RowsReady /\ SuccessHolds /\ task[h].slot = draft.slot
    BY <2>1 DEF CleanInv, SameTime, Adding
  <2>3. /\ Target(task[h].found) \in Ids
        /\ \/ UNCHANGED event
           \/ event' = [event EXCEPT ![Target(task[h].found)] =
                          [status |-> "live", slot |-> draft.slot]]
        /\ task'[h].slot = draft.slot /\ task'[h].pc \in {"lost", "verify"}
        /\ \A g \in Handlers \ {h} : task'[g] = task[g]
    BY <1>5, <2>2, Writes
  <2>4. \A e \in Ids : (OnTime(e) => OnTime(e)') /\ (e \in Live => e \in Live')
    BY <1>0, <2>1, <2>3 DEF OnTime, Live
  <2>5. (RowThere => RowThere') /\ (AnchorThere => AnchorThere')
    BY <2>1, <2>4 DEF RowThere, AnchorThere, Live
  <2>6. SameTime'
    BY <1>0, <2>1, <2>2, <2>3, <2>4 DEF SameTime, Adding, Recording
  <2>7. RowsReady'
    BY <2>1, <2>2, <2>3, <2>5 DEF RowsReady
  <2>8. SuccessHolds'
    BY <2>1, <2>2, <2>3, <2>4, <2>5 DEF SuccessHolds, Adding, Recording
  <2>. QED  BY <2>6, <2>7, <2>8
<1>6. ASSUME NEW h \in Handlers, VerifyEvent(h) PROVE (SameTime /\ RowsReady /\ SuccessHolds)'
  <2>1. /\ UNCHANGED <<event, rows, anchor, draft, lost, clean, crossed>> /\ task[h].pc = "verify"
        /\ \/ Goto(h, "lost")
           \/ Goto(h, "won") /\ Confirmed(task[h].target, task[h].slot)
    BY <1>6 DEF VerifyEvent
  <2>2. SameTime /\ RowsReady /\ SuccessHolds /\ task[h].slot = draft.slot
    BY <2>1 DEF CleanInv, SameTime, Adding
  <2>3. /\ task'[h].slot = draft.slot /\ task'[h].target = task[h].target
        /\ \/ task'[h].pc = "lost"
           \/ task'[h].pc = "won" /\ OnTime(task[h].target)
        /\ \A g \in Handlers \ {h} : task'[g] = task[g]
    BY <2>1, <2>2, Moves DEF Confirmed, OnTime
  <2>. QED  BY <1>1, <2>1, <2>2, <2>3 DEF Adding, Recording
<1>7. ASSUME NEW h \in Handlers, RecordSuccess(h) PROVE (SameTime /\ RowsReady /\ SuccessHolds)'
  <2>1. /\ UNCHANGED <<event, rows, anchor, lost, clean, crossed>> /\ task[h].pc = "won"
        /\ draft'.slot = draft.slot /\ Goto(h, "tell")
    BY <1>7 DEF RecordSuccess, UpdateStatus, TypeOK
  <2>2. SameTime /\ RowsReady /\ task[h].slot = draft.slot /\ OnTime(task[h].target)
    BY <2>1 DEF CleanInv, SameTime, Adding
  <2>3. /\ task'[h].slot = draft.slot /\ task'[h].target = task[h].target
        /\ task'[h].pc = "tell" /\ \A g \in Handlers \ {h} : task'[g] = task[g]
    BY <2>1, <2>2, Moves
  <2>4. SameTime'
    BY <2>1, <2>2, <2>3 DEF SameTime, Adding, OnTime, Recording
  <2>5. RowThere => RowThere'
    BY <2>1 DEF RowThere, Live
  <2>6. RowsReady'
    BY <2>1, <2>2, <2>3, <2>5 DEF RowsReady
  <2>7. Adding(h)' /\ \E e \in Ids : OnTime(e)'
    BY <1>0, <2>1, <2>2, <2>3 DEF Adding, OnTime
  <2>8. SuccessHolds'
    BY <2>7 DEF SuccessHolds
  <2>. QED  BY <2>4, <2>6, <2>8
<1>8. ASSUME NEW h \in Handlers, RecordFailure(h) PROVE (SameTime /\ RowsReady /\ SuccessHolds)'
  <2>1. /\ UNCHANGED <<event, rows, anchor, lost, clean, crossed>> /\ Stop(h)
        /\ draft'.slot = draft.slot /\ draft'.status = "failure"
    BY <1>8 DEF RecordFailure, UpdateStatus, TypeOK
  <2>2. task'[h].pc = "idle" /\ \A g \in Handlers \ {h} : task'[g] = task[g]
    BY <2>1, Moves
  <2>. QED  BY <1>1, <2>1, <2>2 DEF Adding, Recording, CleanInv
<1>9. ASSUME NEW h \in Handlers, Tell(h) PROVE (SameTime /\ RowsReady /\ SuccessHolds)'
  <2>1. /\ UNCHANGED <<event, rows, anchor, draft, clean, crossed>> /\ task[h].pc = "tell"
        /\ (Goto(h, "load") /\ UNCHANGED lost) \/ (Stop(h) /\ lost')
    BY <1>9 DEF Tell
  <2>2. /\ SameTime /\ RowsReady /\ SuccessHolds
        /\ task[h].slot = draft.slot /\ OnTime(task[h].target)
    BY <2>1 DEF CleanInv, SameTime, Adding, Recording
  <2>3. /\ \A g \in Handlers \ {h} : task'[g] = task[g]
        /\ \/ /\ task'[h].slot = draft.slot /\ task'[h].target = task[h].target
              /\ task'[h].pc = "load" /\ UNCHANGED lost
           \/ task'[h].pc = "idle" /\ lost'
    BY <2>1, <2>2, Moves
  <2>4. SameTime'
    BY <2>1, <2>2, <2>3 DEF SameTime, Adding, OnTime, Recording
  <2>5. RowThere <=> RowThere'
    BY <2>1 DEF RowThere, Live
  <2>6. RowsReady'
    BY <2>1, <2>2, <2>3, <2>5 DEF RowsReady
  <2>7. \E e \in Ids : OnTime(e)'
    BY <1>0, <2>1, <2>2 DEF OnTime
  <2>8. lost' \/ Adding(h)'
    BY <2>3 DEF Adding
  <2>9. SuccessHolds'
    BY <2>7, <2>8 DEF SuccessHolds
  <2>. QED  BY <2>4, <2>6, <2>9
<1>10. ASSUME NEW h \in Handlers, LoadRow(h) PROVE (SameTime /\ RowsReady /\ SuccessHolds)'
  <2>1. UNCHANGED <<event, rows, anchor, draft, clean, lost, crossed>> /\ task[h].pc = "load"
    BY <1>10 DEF LoadRow
  <2>2. /\ SameTime /\ RowsReady /\ SuccessHolds
        /\ task[h].slot = draft.slot /\ OnTime(task[h].target)
    BY <2>1 DEF CleanInv, SameTime, Adding, Recording
  <2>3. /\ task'[h].pc = "save" /\ task'[h].slot = draft.slot
        /\ task'[h].target = task[h].target
        /\ \A g \in Handlers \ {h} : task'[g] = task[g]
    BY <1>10, <2>2, OtherMoves
  <2>4. \/ crossed \/ RowThere
        \/ \A k \in 1..Len(rows) : k # task'[h].row =>
             rows[k].event # task[h].target /\ rows[k].day # draft.slot[1]
    <3>1. \A r, k \in 1..Len(rows) :
            r # k => rows[r].event # rows[k].event /\ rows[r].day # rows[k].day
      BY DEF TypeOK, Keyed
    <3>2. \/ task'[h].row = 0 /\ \A r \in 1..Len(rows) :
                rows[r].event # task[h].target /\ rows[r].day # draft.slot[1]
          \/ /\ task'[h].row \in 1..Len(rows)
             /\ \/ rows[task'[h].row].event = task[h].target
                \/ rows[task'[h].row].day = draft.slot[1]
      BY <1>10, <2>2, OtherMoves
    \* The own event's row and another session's, which holds the date:
    <3>3. ASSUME task[h].target = Own, NEW r \in 1..Len(rows), NEW k \in 1..Len(rows),
                 r # k, rows[r].event = Own, rows[k].day = draft.slot[1]
          PROVE  RowThere
      <4>1. rows[k].event \in Others
        BY <2>2, <3>1, <3>3 DEF IdsInv, OwnAlone, OnTime
      <4>2. Own \in Live
        BY <1>0, <2>2, <3>3 DEF OnTime, Live
      <4>. QED  BY <3>3, <4>1, <4>2 DEF RowThere
    <3>4. CASE task[h].target = Own
      BY <3>1, <3>2, <3>3, <3>4
    <3>5. CASE task[h].target # Own /\ ~crossed
      <4>1. \A r \in 1..Len(rows) : rows[r].event # task[h].target
        BY <2>1, <3>5 DEF IdsInv, Unsaved
      <4>. QED  BY <3>1, <3>2, <4>1
    <3>. QED  BY <3>4, <3>5
  <2>5. SameTime'
    BY <2>1, <2>2, <2>3 DEF SameTime, Adding, OnTime, Recording
  <2>6. RowThere <=> RowThere'
    BY <2>1 DEF RowThere, Live
  <2>7. RowsReady'
    BY <2>1, <2>2, <2>3, <2>4, <2>6 DEF RowsReady
  <2>8. \E e \in Ids : OnTime(e)'
    BY <1>0, <2>1, <2>2 DEF OnTime
  <2>9. Adding(h)'
    BY <2>3 DEF Adding
  <2>10. SuccessHolds'
    BY <2>8, <2>9 DEF SuccessHolds
  <2>. QED  BY <2>5, <2>7, <2>10
<1>11. ASSUME NEW h \in Handlers, SaveRow(h) PROVE (SameTime /\ RowsReady /\ SuccessHolds)'
  <2>1. UNCHANGED <<event, anchor, draft, clean, lost, crossed>> /\ task[h].pc = "save" /\ Goto(h, "anchor")
    BY <1>11 DEF SaveRow
  <2>2. /\ SameTime /\ RowsReady /\ SuccessHolds
        /\ task[h].slot = draft.slot /\ OnTime(task[h].target)
    BY <2>1 DEF CleanInv, SameTime, Adding, Recording
  <2>3. /\ task'[h].pc = "anchor" /\ task'[h].slot = draft.slot
        /\ task'[h].target = task[h].target
        /\ \A g \in Handlers \ {h} : task'[g] = task[g]
    BY <2>1, <2>2, Moves
  <2>4. task[h].target \in Live'
    BY <1>0, <2>1, <2>2 DEF OnTime, Live
  <2>5. crossed \/ RowThere'
    <3> DEFINE row == [event |-> task[h].target, day |-> task[h].slot[1]]
    <3>1. CASE UNCHANGED rows /\ Refused(task[h].row, row) /\ ~crossed
      <4>1. \E k \in 1..Len(rows) :
              k # task[h].row /\ (rows[k].event = task[h].target \/ rows[k].day = draft.slot[1])
        BY <2>2, <3>1 DEF Refused
      <4>2. RowThere
        BY <2>1, <2>2, <3>1, <4>1 DEF RowsReady
      <4>. QED  BY <2>1, <3>1, <4>2 DEF RowThere, Live
    <3>2. CASE \E r \in 1..Len(rows') : rows'[r] = row
      <4>1. PICK r \in 1..Len(rows') : rows'[r] = row
        BY <3>2
      <4>2. rows'[r].event = task[h].target /\ rows'[r].day = draft'.slot[1]
        BY <2>1, <2>2, <4>1
      <4>. QED  BY <2>4, <4>2 DEF RowThere
    <3>3. task[h].row <= Len(rows)
      BY DEF IdsInv, Unsaved
    <3>. QED  BY <1>0, <1>11, <3>1, <3>2, <3>3, RowsSaved
  <2>6. SameTime'
    BY <2>1, <2>2, <2>3 DEF SameTime, Adding, OnTime, Recording
  <2>7. RowsReady'
    BY <2>1, <2>5 DEF RowsReady
  <2>8. \E e \in Ids : OnTime(e)'
    BY <1>0, <2>1, <2>2 DEF OnTime
  <2>9. Adding(h)'
    BY <2>3 DEF Adding
  <2>10. SuccessHolds'
    BY <2>8, <2>9 DEF SuccessHolds
  <2>. QED  BY <2>6, <2>7, <2>10
<1>12. ASSUME NEW h \in Handlers, MoveAnchor(h) PROVE (SameTime /\ RowsReady /\ SuccessHolds)'
  <2>1. /\ UNCHANGED <<event, rows, draft, clean, lost, crossed>> /\ task[h].pc = "anchor" /\ Stop(h)
        /\ anchor' = IF task[h].target # Own THEN task[h].target ELSE anchor
    BY <1>12 DEF MoveAnchor
  <2>2. /\ SameTime /\ RowsReady /\ SuccessHolds
        /\ task[h].slot = draft.slot /\ OnTime(task[h].target)
    BY <2>1 DEF CleanInv, SameTime, Adding, Recording
  <2>3. task'[h].pc = "idle" /\ \A g \in Handlers \ {h} : task'[g] = task[g]
    BY <2>1, Moves
  <2>4. (crossed \/ RowThere') /\ (RowThere => RowThere')
    BY <2>1, <2>2 DEF RowsReady, RowThere, Live
  <2>5. AnchorThere'
    <3>1. CASE task[h].target = Own
      <4>1. anchor' \in {Own} \cup Others
        BY <2>1, <2>2, <3>1 DEF IdsInv, OwnAlone, OnTime
      <4>. QED  BY <4>1 DEF AnchorThere
    <3>2. CASE task[h].target # Own
      BY <1>0, <2>1, <2>2, <3>2 DEF AnchorThere, OnTime, Live
    <3>. QED  BY <3>1, <3>2
  <2>6. SameTime'
    BY <2>1, <2>2, <2>3 DEF SameTime, Adding, OnTime, Recording
  <2>7. RowsReady'
    BY <2>1, <2>2, <2>3, <2>4 DEF RowsReady
  <2>8. \E e \in Ids : OnTime(e)'
    BY <1>0, <2>1, <2>2 DEF OnTime
  <2>9. SuccessHolds'
    BY <2>1, <2>4, <2>5, <2>8 DEF SuccessHolds
  <2>. QED  BY <2>6, <2>7, <2>9
<1>13. ASSUME NEW e \in Ids, DeleteEvent(e) \/ \E s \in Slots : MoveEvent(e, s)
       PROVE  FALSE
  BY <1>13 DEF DeleteEvent, MoveEvent
<1>14. CASE Crash
  <2>1. /\ UNCHANGED <<event, rows, anchor, draft, crossed>> /\ clean /\ Quiet
        /\ (lost => lost')
        /\ \A g \in Handlers : task'[g].pc = "idle"
    BY <1>14 DEF Crash, Idle
  <2>2. SameTime'
    BY <2>1 DEF SameTime, Adding, Recording
  <2>3. RowsReady'
    BY <2>1 DEF RowsReady
  <2>4. (RowThere <=> RowThere') /\ (AnchorThere <=> AnchorThere')
    BY <2>1 DEF RowThere, AnchorThere, Live
  <2>5. SuccessHolds'
    BY <2>1, <2>4 DEF CleanInv, SuccessHolds, OnTime, Quiet
  <2>. QED  BY <2>2, <2>3, <2>5
<1>15. CASE UNCHANGED vars
  BY <1>15
  DEF vars, CleanInv, SameTime, RowsReady, SuccessHolds, OnTime, RowThere, AnchorThere, Live,
      Adding
<1>16. CASE EnsureAnchor
  <2>1. UNCHANGED <<event, rows, draft, task, clean, lost, crossed>> /\ anchor' = Own
    BY <1>16 DEF EnsureAnchor
  <2>2. (RowThere <=> RowThere') /\ AnchorThere'
    BY <2>1 DEF RowThere, AnchorThere, Live
  <2>3. (SameTime /\ RowsReady)'
    BY <2>1, <2>2 DEF CleanInv, SameTime, RowsReady, OnTime, Adding
  <2>4. SuccessHolds'
    BY <2>1, <2>2 DEF CleanInv, SuccessHolds, OnTime, Adding
  <2>. QED  BY <2>3, <2>4
<1>17. ASSUME RefreshAnchor \/ \E e \in Sessions, d \in Days : StoreSession(e, d)
       PROVE  (SameTime /\ RowsReady /\ SuccessHolds)'
  <2>1. UNCHANGED <<event, draft, task, clean, lost>> /\ crossed'
    BY <1>17 DEF RefreshAnchor, StoreSession
  <2>2. (SameTime /\ RowsReady)'
    BY <2>1 DEF CleanInv, SameTime, RowsReady, OnTime, Adding
  <2>3. SuccessHolds'
    BY <2>1 DEF CleanInv, SuccessHolds, OnTime, Adding
  <2>. QED  BY <2>2, <2>3
<1>. QED
  BY <1>2, <1>3, <1>4, <1>5, <1>6, <1>7, <1>8, <1>9, <1>10, <1>11, <1>12, <1>13, <1>14,
     <1>15, <1>16, <1>17, PrepareKinds
  DEF Next, Run, User, Elsewhere

LEMMA RecordsInductive == Spec => [](IdsInv /\ CleanInv)
<1>1. Init => IdsInv /\ CleanInv
  <2>. SUFFICES ASSUME Init PROVE IdsInv /\ CleanInv
    OBVIOUS
  <2>1. /\ \A h \in Handlers : /\ task[h].target = Own /\ task[h].found = "none"
                               /\ task[h].row = 0 /\ task[h].pc = "idle"
        /\ draft.status = "draft" /\ anchor = Own
    BY DEF Init, Idle
  <2>2. Len(rows) \in Nat /\ \A r \in 1..Len(rows) : rows[r].event \in {Own} \cup Others
    <3>1. PICK n \in 0..MaxRows : rows \in [1..n -> [event : {Own} \cup Others, day : Days]]
      BY DEF Init
    <3>2. n \in Nat
      BY CardAssumption
    <3>3. Len(rows) = n
      BY <3>1, <3>2
    <3>. QED  BY <3>1, <3>2, <3>3
  <2>3. \A e \in Ids \ {Own} : event[e].status = "none"
    BY DEF Init
  <2>5. IdsInv
    BY <2>1, <2>2, <2>3 DEF IdsInv, OwnAlone, Generated, Unsaved
  <2>4. CleanInv
    BY <2>1 DEF CleanInv, SameTime, RowsReady, SuccessHolds, Adding, Recording
  <2>. QED  BY <2>4, <2>5
<1>. QED  BY <1>1, IdsStep, CleanStep, TypeCorrect, PTL DEF Spec

\* SuccessIsOnCalendar: a card that says the session was added tells of an
\* event at the draft's time, if neither was changed since.
THEOREM SuccessCorrect == Spec => []SuccessIsOnCalendar
<1>1. CleanInv => SuccessIsOnCalendar
  BY DEF CleanInv, SuccessHolds, SuccessIsOnCalendar, Quiet, OnTime, Live
<1>. QED  BY <1>1, RecordsInductive, PTL

\* RecordsFollow: and then a session row names a live event, and is of the
\* draft's date unless another session holds that, and the anchor names no dead
\* event but the own one, if nobody else wrote rows or took the anchor from one.
THEOREM RecordsCorrect == Spec => []RecordsFollow
<1>1. CleanInv => RecordsFollow
  BY DEF CleanInv, SuccessHolds, RecordsFollow, Quiet, RowThere, AnchorThere
<1>. QED  BY <1>1, RecordsInductive, PTL
=============================================================================
