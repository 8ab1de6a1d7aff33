----------------------- MODULE HauntingServiceProofs -----------------------
(* What the follow-up service guarantees for any set of messages, topics,  *)
(* tasks, callers, specs and settings.                                     *)
EXTENDS HauntingService, TLAPS

\* A request that passed schedule_followup's guards is well formed.
LEMMA RequestedType ==
  ASSUME NEW m \in Messages, NEW t \in Topics \cup {None},
         NEW k \in Tasks \cup {None}, NEW spec \in Specs,
         NEW s \in Settings \cup {None}, Schedulable(spec, s)
  PROVE  Requested(m, t, k, spec, s) \in Request
<1> DEFINE d == IF spec.max # None THEN spec.max
                ELSE IF s # None THEN s["max"] ELSE 2
           b == IF spec.cancel # None THEN spec.cancel
                ELSE IF s # None THEN s["cancel"] ELSE TRUE
<1>1. spec \in Spec_ /\ None \notin Nat
  BY HauntingAssumption
<1>2. d \in Nat
  BY <1>1 DEF Spec_, Settings
<1>3. d >= 1
  BY DEF Schedulable, Effective, Default
<1>4. b \in BOOLEAN
  BY <1>1 DEF Spec_, Settings
<1>5. d \in Nat \ {0}
  BY <1>2, <1>3
<1>6. Requested(m, t, k, spec, s)
        = [msg |-> m, topic |-> t, task |-> k, max |-> d, cancel |-> b]
  BY DEF Requested, Effective, Default
<1> HIDE DEF d, b
<1>7. QED  BY <1>4, <1>5, <1>6 DEF Request

\* Storing a record keeps the types, whoever asked for it.
LEMMA CommitType ==
  ASSUME TypeOK, NEW r \in Request, Commit(r)
  PROVE  /\ pending' \in [Messages -> Record \cup {None}]
         /\ topicIndex' \in [Topics -> SUBSET Messages]
         /\ taskIndex' \in [Tasks -> SUBSET Messages]
         /\ jobs' \subseteq Messages
         /\ schedules' \in 0..MaxSchedules
         /\ quota' \in [Gens -> Nat]
         /\ misfired' \subseteq Messages
<1> DEFINE g == schedules + 1
<1>1. g \in Gens
  BY HauntingAssumption DEF Commit, TypeOK, Gens
<1>2. [topic |-> r.topic, task |-> r.task, max |-> r.max, cancel |-> r.cancel,
       attempt |-> 0, gen |-> g] \in Record
  BY <1>1 DEF Request, Record
<1>3. pending' \in [Messages -> Record \cup {None}]
  BY <1>2 DEF Commit, TypeOK, Request
<1>4. topicIndex' \in [Topics -> SUBSET Messages] /\ taskIndex' \in [Tasks -> SUBSET Messages]
  BY DEF Commit, TypeOK, Reindexed, Request
<1>5. jobs' \subseteq Messages /\ misfired' \subseteq Messages
  BY DEF Commit, TypeOK, Request
<1>6. schedules' \in 0..MaxSchedules
  BY HauntingAssumption DEF Commit, TypeOK
<1>7. quota' \in [Gens -> Nat]
  BY <1>1 DEF Commit, TypeOK, Request
<1> QED  BY <1>3, <1>4, <1>5, <1>6, <1>7

\* Removing records keeps the types.
LEMMA RemoveType ==
  ASSUME TypeOK, NEW ids \in SUBSET Messages, Remove(ids)
  PROVE  /\ pending' \in [Messages -> Record \cup {None}]
         /\ topicIndex' \in [Topics -> SUBSET Messages]
         /\ taskIndex' \in [Tasks -> SUBSET Messages]
         /\ jobs' \subseteq Messages
         /\ misfired' \subseteq Messages
BY DEF Remove, TypeOK

\* The ids found through the indexes are message ids.
LEMMA IndexedType ==
  ASSUME TypeOK, NEW t \in Topics \cup {None}, NEW k \in Tasks \cup {None}
  PROVE  Indexed(t, k) \subseteq Messages
BY DEF TypeOK, Indexed

\* The service starts with empty tables of the right shape.
LEMMA InitType == Init => TypeOK
BY HauntingAssumption DEF Init, TypeOK, Idle, Run, Gens

\* Every action of the service keeps the shape of every variable.
LEMMA TypeStep == TypeOK /\ [Next]_vars => TypeOK'
<1> SUFFICES ASSUME TypeOK, [Next]_vars PROVE TypeOK'
  OBVIOUS
<1>1. ASSUME NEW m \in Messages, NEW t \in Topics \cup {None},
             NEW k \in Tasks \cup {None}, NEW s \in Specs, NEW c \in Callers,
             BeginSchedule(c, m, t, k, s)
      PROVE  TypeOK'
  <2>1. Requested(m, t, k, s, settings) \in Request
    BY <1>1, RequestedType DEF BeginSchedule, TypeOK, history
  <2> QED  BY <1>1, <2>1 DEF BeginSchedule, TypeOK, history
<1>2. ASSUME NEW m \in Messages, NEW t \in Topics \cup {None},
             NEW k \in Tasks \cup {None}, NEW s \in Specs,
             ScheduleAnonymous(m, t, k, s)
      PROVE  TypeOK'
  <2>1. Requested(m, t, k, s, None) \in Request
    BY <1>2, RequestedType DEF ScheduleAnonymous
  <2> QED  BY <1>2, <2>1, CommitType DEF ScheduleAnonymous, Commit, TypeOK
<1>3. ASSUME NEW c \in Callers, FinishSchedule(c) PROVE TypeOK'
  <2>1. call[c] \in Request
    BY <1>3 DEF FinishSchedule, TypeOK
  <2>2. Commit(call[c])
    BY <1>3 DEF FinishSchedule
  <2>3. call' \in [Callers -> Request \cup {None}]
    BY <1>3 DEF FinishSchedule, TypeOK
  <2> QED  BY <1>3, <2>1, <2>2, <2>3, CommitType DEF FinishSchedule, Commit, TypeOK
<1>4. ASSUME NEW t \in Topics \cup {None}, NEW k \in Tasks \cup {None},
             NEW msgs \in {{}} \cup {{m} : m \in Messages}, CancelFollowups(msgs, t, k)
      PROVE  TypeOK'
  <2>1. msgs \cup Indexed(t, k) \in SUBSET Messages
    BY IndexedType
  <2> QED  BY <1>4, <2>1, RemoveType DEF CancelFollowups, TypeOK, history
<1>5. ASSUME NEW t \in Topics \cup {None}, NEW k \in Tasks \cup {None},
             RecordUserActivity(t, k)
      PROVE  TypeOK'
  <2>1. {m \in Indexed(t, k) : Live(m) /\ pending[m].cancel} \in SUBSET Messages
    BY IndexedType
  <2> QED  BY <1>5, <2>1, RemoveType DEF RecordUserActivity, TypeOK, history
<1>6. ASSUME NEW row \in SettingsRows, UpsertSettings(row) PROVE TypeOK'
  BY <1>6, HauntingAssumption DEF UpsertSettings, TypeOK, history
<1>7. ASSUME NEW m \in Messages, FireJob(m) \/ BeginDispatch(m) PROVE TypeOK'
  <2>1. CASE FireJob(m)
    BY <2>1 DEF FireJob, TypeOK, history, Run
  <2>2. CASE BeginDispatch(m)
    BY <2>2 DEF BeginDispatch, TypeOK, Idle, Live, Record, Run
  <2> QED  BY <1>7, <2>1, <2>2
<1>8. ASSUME NEW m \in Messages, HandleDue(m) PROVE TypeOK'
  BY <1>8 DEF HandleDue, TypeOK, history, Live, Record, Run
<1>9. ASSUME NEW m \in Messages, Deliver(m) PROVE TypeOK'
  <2>1. dispatch[m].gen \in Gens
    BY <1>9 DEF Deliver, TypeOK, Run
  <2>2. late' \subseteq Gens /\ delivered' \in [Gens -> Nat] /\ dispatch' \in [Messages -> Run]
    BY <1>9, <2>1 DEF Deliver, TypeOK, Run
  <2> QED  BY <1>9, <2>2 DEF Deliver, TypeOK
<1>10. ASSUME NEW m \in Messages, FinishDispatch(m) PROVE TypeOK'
  <2>1. dispatch' \in [Messages -> Run]
    BY <1>10 DEF FinishDispatch, TypeOK, Idle, Run
  <2>2. CASE ~Live(m)
    BY <1>10, <2>1, <2>2 DEF FinishDispatch, TypeOK, history
  <2>3. CASE Live(m) /\ Exhausted(pending[m])
    BY <1>10, <2>1, <2>3, RemoveType DEF FinishDispatch, TypeOK, history
  <2>4. CASE Live(m) /\ ~Exhausted(pending[m])
    <3>1. pending[m] \in Record
      BY <2>4 DEF TypeOK, Live
    <3>2. [pending[m] EXCEPT !.attempt = @ + 1] \in Record
      BY <3>1 DEF Record
    <3>3. pending' = [pending EXCEPT ![m] = [pending[m] EXCEPT !.attempt = @ + 1]]
      BY <1>10, <2>4 DEF FinishDispatch
    <3>4. pending' \in [Messages -> Record \cup {None}]
      BY <3>2, <3>3 DEF TypeOK
    <3> QED  BY <1>10, <2>1, <2>4, <3>4 DEF FinishDispatch, TypeOK, history
  <2> QED  BY <2>2, <2>3, <2>4
<1>11. ASSUME NEW m \in Messages, Misfire(m) PROVE TypeOK'
  BY <1>11 DEF Misfire, TypeOK, history
<1>12. ASSUME NEW m \in Messages, DispatchFails(m) PROVE TypeOK'
  BY <1>12 DEF DispatchFails, TypeOK, history, Run
<1>13. CASE UNCHANGED vars
  BY <1>13 DEF vars, history, TypeOK
<1> QED
  BY <1>1, <1>2, <1>3, <1>4, <1>5, <1>6, <1>7, <1>8, <1>9, <1>10, <1>11, <1>12,
     <1>13 DEF Next, Schedule, Cancel, Dispatch

\* Every variable keeps its shape, whatever the ids, specs and settings.
THEOREM TypeCorrect == Spec => []TypeOK
BY InitType, TypeStep, PTL DEF Spec
----------------------------------------------------------------------------
\* What a step can do to the table: store a requested record, remove some
\* records, move one dispatch on, or leave table and dispatches alone.
LEMMA StepKinds ==
  ASSUME TypeOK, [Next]_vars
  PROVE  \/ \E r \in Request : Commit(r) /\ UNCHANGED dispatch
         \/ \E ids \in SUBSET Messages :
              Remove(ids) /\ UNCHANGED <<dispatch, schedules, history>>
         \/ UNCHANGED <<pending, topicIndex, taskIndex, jobs, dispatch,
                        misfired, schedules, history>>
         \/ \E m \in Messages : FireJob(m) \/ BeginDispatch(m) \/ HandleDue(m) \/ Deliver(m)
              \/ FinishDispatch(m) \/ Misfire(m) \/ DispatchFails(m)
<1>1. ASSUME NEW m \in Messages, NEW t \in Topics \cup {None},
             NEW k \in Tasks \cup {None}, NEW s \in Specs,
             ScheduleAnonymous(m, t, k, s)
      PROVE  \E r \in Request : Commit(r) /\ UNCHANGED dispatch
  BY <1>1, RequestedType DEF ScheduleAnonymous
<1>2. ASSUME NEW c \in Callers, FinishSchedule(c)
      PROVE  \E r \in Request : Commit(r) /\ UNCHANGED dispatch
  BY <1>2 DEF FinishSchedule, TypeOK
<1>3. ASSUME NEW t \in Topics \cup {None}, NEW k \in Tasks \cup {None},
             \/ \E msgs \in {{}} \cup {{m} : m \in Messages} : CancelFollowups(msgs, t, k)
             \/ RecordUserActivity(t, k)
      PROVE  \E ids \in SUBSET Messages :
               Remove(ids) /\ UNCHANGED <<dispatch, schedules, history>>
  <2>1. Indexed(t, k) \subseteq Messages
    BY IndexedType
  <2>2. ASSUME NEW msgs \in {{}} \cup {{m} : m \in Messages}, CancelFollowups(msgs, t, k)
        PROVE  \E ids \in SUBSET Messages :
                 Remove(ids) /\ UNCHANGED <<dispatch, schedules, history>>
    <3>1. msgs \cup Indexed(t, k) \in SUBSET Messages
      BY <2>1
    <3> QED  BY <2>2, <3>1 DEF CancelFollowups
  <2>3. CASE RecordUserActivity(t, k)
    <3>1. {m \in Indexed(t, k) : Live(m) /\ pending[m].cancel} \in SUBSET Messages
      BY <2>1
    <3> QED  BY <2>3, <3>1 DEF RecordUserActivity
  <2> QED  BY <1>3, <2>2, <2>3
<1>4. ASSUME \/ \E row \in SettingsRows : UpsertSettings(row)
             \/ \E c \in Callers, m \in Messages, t \in Topics \cup {None},
                   k \in Tasks \cup {None}, s \in Specs : BeginSchedule(c, m, t, k, s)
             \/ UNCHANGED vars
      PROVE  UNCHANGED <<pending, topicIndex, taskIndex, jobs, dispatch,
                         misfired, schedules, history>>
  BY <1>4 DEF UpsertSettings, BeginSchedule, vars
<1> QED
  BY <1>1, <1>2, <1>3, <1>4 DEF Next, Schedule, Cancel, Dispatch

\* Storing a record changes that message's record only, and starts it fresh.
LEMMA CommitEffect ==
  ASSUME TypeOK, NEW r \in Request, Commit(r)
  PROVE  /\ r.msg \in Messages
         /\ schedules + 1 \in Gens
         /\ pending'[r.msg] # None
         /\ pending'[r.msg].topic = r.topic /\ pending'[r.msg].task = r.task
         /\ pending'[r.msg].max = r.max /\ pending'[r.msg].attempt = 0
         /\ pending'[r.msg].gen = schedules + 1
         /\ \A m \in Messages \ {r.msg} : pending'[m] = pending[m]
<1> DEFINE new == [topic |-> r.topic, task |-> r.task, max |-> r.max,
                   cancel |-> r.cancel, attempt |-> 0, gen |-> schedules + 1]
<1>1. r.msg \in Messages
  BY DEF Request
<1>2. schedules + 1 \in Gens
  BY HauntingAssumption DEF Commit, TypeOK, Gens
<1>3. new \in Record
  BY <1>2 DEF Request, Record
<1>4. pending' = [pending EXCEPT ![r.msg] = new]
  BY DEF Commit
<1>5. new.topic = r.topic /\ new.task = r.task /\ new.max = r.max
      /\ new.attempt = 0 /\ new.gen = schedules + 1
  OBVIOUS
<1> HIDE DEF new
<1> QED  BY <1>1, <1>2, <1>3, <1>4, <1>5, HauntingAssumption DEF TypeOK

\* Counting an attempt changes nothing else of the record.
LEMMA RetryEffect ==
  ASSUME TypeOK, NEW m \in Messages, FinishDispatch(m), Live(m), ~Exhausted(pending[m])
  PROVE  /\ pending[m] \in Record
         /\ pending'[m] # None
         /\ pending'[m].topic = pending[m].topic /\ pending'[m].task = pending[m].task
         /\ pending'[m].max = pending[m].max /\ pending'[m].gen = pending[m].gen
         /\ pending'[m].attempt = pending[m].attempt + 1
         /\ \A n \in Messages \ {m} : pending'[n] = pending[n]
<1> DEFINE new == [pending[m] EXCEPT !.attempt = @ + 1]
<1>1. pending[m] \in Record /\ None \notin Record
  BY HauntingAssumption DEF TypeOK, Live
<1>2. new \in Record
  BY <1>1 DEF Record
<1>3. pending' = [pending EXCEPT ![m] = new]
  BY DEF FinishDispatch
<1>4. new.topic = pending[m].topic /\ new.task = pending[m].task
      /\ new.max = pending[m].max /\ new.gen = pending[m].gen
      /\ new.attempt = pending[m].attempt + 1
  BY <1>1 DEF Record
<1> HIDE DEF new
<1> QED  BY <1>1, <1>2, <1>3, <1>4 DEF TypeOK

\* Storing, removing and retrying each keep the indexes in line with the table.
LEMMA IndexStep == TypeOK /\ IndexesMirrorPending /\ [Next]_vars => IndexesMirrorPending'
<1> SUFFICES ASSUME TypeOK, IndexesMirrorPending, [Next]_vars
             PROVE  IndexesMirrorPending'
  OBVIOUS
<1>1. ASSUME NEW r \in Request, Commit(r) PROVE IndexesMirrorPending'
  <2>1. /\ r.msg \in Messages
        /\ pending'[r.msg] # None
        /\ pending'[r.msg].topic = r.topic /\ pending'[r.msg].task = r.task
        /\ \A m \in Messages \ {r.msg} : pending'[m] = pending[m]
    BY <1>1, CommitEffect
  <2>2. ASSUME NEW k \in Topics
        PROVE  topicIndex'[k] = {m \in Messages : Live(m)' /\ pending'[m].topic = k}
    <3>1. topicIndex'[k] = IF k = r.topic THEN topicIndex[k] \cup {r.msg}
                                          ELSE topicIndex[k] \ {r.msg}
      BY <1>1 DEF Commit, TypeOK, Reindexed
    <3>2. topicIndex[k] = {m \in Messages : Live(m) /\ pending[m].topic = k}
      BY DEF IndexesMirrorPending
    <3> QED  BY <2>1, <3>1, <3>2 DEF Live
  <2>3. ASSUME NEW k \in Tasks
        PROVE  taskIndex'[k] = {m \in Messages : Live(m)' /\ pending'[m].task = k}
    <3>1. taskIndex'[k] = IF k = r.task THEN taskIndex[k] \cup {r.msg}
                                        ELSE taskIndex[k] \ {r.msg}
      BY <1>1 DEF Commit, TypeOK, Reindexed
    <3>2. taskIndex[k] = {m \in Messages : Live(m) /\ pending[m].task = k}
      BY DEF IndexesMirrorPending
    <3> QED  BY <2>1, <3>1, <3>2 DEF Live
  <2> QED  BY <2>2, <2>3 DEF IndexesMirrorPending
<1>2. ASSUME NEW ids \in SUBSET Messages, Remove(ids) PROVE IndexesMirrorPending'
  BY <1>2 DEF Remove, IndexesMirrorPending, Live
<1>3. ASSUME UNCHANGED <<pending, topicIndex, taskIndex>> PROVE IndexesMirrorPending'
  BY <1>3 DEF IndexesMirrorPending, Live
<1>4. ASSUME NEW m \in Messages, FinishDispatch(m) PROVE IndexesMirrorPending'
  <2>1. CASE Live(m) /\ ~Exhausted(pending[m])
    <3>1. /\ pending'[m] # None /\ pending[m] # None
          /\ pending'[m].topic = pending[m].topic /\ pending'[m].task = pending[m].task
          /\ \A n \in Messages \ {m} : pending'[n] = pending[n]
      BY <1>4, <2>1, RetryEffect DEF Live
    <3>2. UNCHANGED <<topicIndex, taskIndex>>
      BY <1>4, <2>1 DEF FinishDispatch
    <3> QED  BY <3>1, <3>2 DEF IndexesMirrorPending, Live
  <2>2. CASE Live(m) /\ Exhausted(pending[m])
    BY <1>2, <1>4, <2>2 DEF FinishDispatch
  <2>3. CASE ~Live(m)
    BY <1>3, <1>4, <2>3 DEF FinishDispatch
  <2> QED  BY <2>1, <2>2, <2>3
<1>5. ASSUME NEW m \in Messages,
             \/ FireJob(m) \/ BeginDispatch(m) \/ HandleDue(m) \/ Deliver(m)
             \/ Misfire(m) \/ DispatchFails(m)
      PROVE  IndexesMirrorPending'
  BY <1>3, <1>5 DEF FireJob, BeginDispatch, HandleDue, Deliver, Misfire, DispatchFails
<1> QED  BY <1>1, <1>2, <1>3, <1>4, <1>5, StepKinds

\* A reply finds exactly the follow-ups it should: the indexes always list
\* the pending records of each topic and task.
THEOREM IndexesCorrect == Spec => []IndexesMirrorPending
<1>1. Init => IndexesMirrorPending
  BY DEF Init, IndexesMirrorPending, Live
<1> QED  BY <1>1, IndexStep, TypeCorrect, PTL DEF Spec
----------------------------------------------------------------------------
\* A record that loses its job has a dispatch under way or was misfired, and a
\* removed record takes its job along.
LEMMA DriverStep == TypeOK /\ PendingHasDriver /\ [Next]_vars => PendingHasDriver'
<1> SUFFICES ASSUME TypeOK, PendingHasDriver, [Next]_vars PROVE PendingHasDriver'
  OBVIOUS
<1>1. ASSUME NEW r \in Request, Commit(r), UNCHANGED dispatch PROVE PendingHasDriver'
  <2>1. /\ pending'[r.msg] # None
        /\ \A m \in Messages \ {r.msg} : pending'[m] = pending[m]
    BY <1>1, CommitEffect
  <2>2. jobs' = jobs \cup {r.msg} /\ misfired' = misfired \ {r.msg}
    BY <1>1 DEF Commit
  <2> QED  BY <1>1, <2>1, <2>2 DEF PendingHasDriver, Live
<1>2. ASSUME NEW ids \in SUBSET Messages, Remove(ids), UNCHANGED dispatch
      PROVE  PendingHasDriver'
  BY <1>2 DEF Remove, PendingHasDriver, Live
<1>3. ASSUME UNCHANGED <<pending, jobs, dispatch, misfired>> PROVE PendingHasDriver'
  BY <1>3 DEF PendingHasDriver, Live
<1>4. ASSUME NEW m \in Messages, FinishDispatch(m) PROVE PendingHasDriver'
  <2>0. \A n \in Messages \ {m} : dispatch'[n] = dispatch[n]
    BY <1>4 DEF FinishDispatch, TypeOK
  <2>1. CASE Live(m) /\ ~Exhausted(pending[m])
    <3>1. /\ pending[m] # None
          /\ \A n \in Messages \ {m} : pending'[n] = pending[n]
      BY <1>4, <2>1, RetryEffect DEF Live
    <3>2. jobs' = jobs \cup {m} /\ misfired' = misfired \ {m}
      BY <1>4, <2>1 DEF FinishDispatch
    <3> QED  BY <2>0, <2>1, <3>1, <3>2, RetryEffect, <1>4 DEF PendingHasDriver, Live
  <2>2. CASE Live(m) /\ Exhausted(pending[m])
    <3>1. Remove({m})
      BY <1>4, <2>2 DEF FinishDispatch
    <3> QED  BY <2>0, <3>1 DEF PendingHasDriver, Live, Remove
  <2>3. CASE ~Live(m)
    <3>1. UNCHANGED <<pending, jobs, misfired>>
      BY <1>4, <2>3 DEF FinishDispatch
    <3> QED  BY <2>0, <2>3, <3>1 DEF PendingHasDriver, Live
  <2> QED  BY <2>1, <2>2, <2>3
<1>5. ASSUME NEW m \in Messages, FireJob(m) PROVE PendingHasDriver'
  <2>1. dispatch'[m] # Idle /\ \A n \in Messages \ {m} : dispatch'[n] = dispatch[n]
    BY <1>5 DEF FireJob, TypeOK, Idle
  <2> QED  BY <1>5, <2>1 DEF FireJob, PendingHasDriver, Live
<1>8. ASSUME NEW m \in Messages, BeginDispatch(m) PROVE PendingHasDriver'
  <2>1. /\ Live(m) => dispatch'[m] # Idle
        /\ \A n \in Messages \ {m} : dispatch'[n] = dispatch[n]
    BY <1>8 DEF BeginDispatch, TypeOK, Idle
  <2> QED  BY <1>8, <2>1 DEF BeginDispatch, PendingHasDriver, Live
<1>6. ASSUME NEW m \in Messages, HandleDue(m) \/ Deliver(m) \/ DispatchFails(m)
      PROVE  PendingHasDriver'
  <2>1. dispatch'[m] # Idle /\ \A n \in Messages \ {m} : dispatch'[n] = dispatch[n]
    BY <1>6 DEF HandleDue, Deliver, DispatchFails, TypeOK, Idle
  <2> QED  BY <1>6, <2>1 DEF HandleDue, Deliver, DispatchFails, PendingHasDriver, Live
<1>7. ASSUME NEW m \in Messages, Misfire(m) PROVE PendingHasDriver'
  BY <1>7 DEF Misfire, PendingHasDriver, Live
<1> QED  BY <1>1, <1>2, <1>3, <1>4, <1>5, <1>6, <1>7, <1>8, StepKinds

\* No record is stranded and no job outlives its record, except where the
\* scheduler itself dropped the job.
THEOREM DriverCorrect == Spec => []PendingHasDriver
<1>1. Init => PendingHasDriver
  BY DEF Init, PendingHasDriver, Live
<1> QED  BY <1>1, DriverStep, TypeCorrect, PTL DEF Spec

\* A message only gets a record back from a schedule call.
THEOREM NeverResurrected == Spec => NoResurrection
<1>1. ASSUME TypeOK, [Next]_vars, NEW m \in Messages, ~Live(m), Live(m)'
      PROVE  pending'[m].attempt = 0 /\ pending'[m].gen = schedules + 1
  <2>1. ASSUME NEW r \in Request, Commit(r)
        PROVE  pending'[m].attempt = 0 /\ pending'[m].gen = schedules + 1
    <3>1. m = r.msg
      BY <1>1, <2>1, CommitEffect DEF Live
    <3> QED  BY <2>1, <3>1, CommitEffect, <1>1
  <2>2. ASSUME NEW ids \in SUBSET Messages, Remove(ids) PROVE FALSE
    BY <1>1, <2>2 DEF Remove, Live
  <2>3. ASSUME UNCHANGED pending PROVE FALSE
    BY <1>1, <2>3 DEF Live
  <2>4. ASSUME NEW n \in Messages, FinishDispatch(n) PROVE FALSE
    <3>1. CASE Live(n) /\ ~Exhausted(pending[n])
      BY <1>1, <2>4, <3>1, RetryEffect DEF Live
    <3>2. CASE Live(n) /\ Exhausted(pending[n])
      BY <2>2, <2>4, <3>2 DEF FinishDispatch
    <3>3. CASE ~Live(n)
      BY <2>3, <2>4, <3>3 DEF FinishDispatch
    <3> QED  BY <3>1, <3>2, <3>3
  <2>5. ASSUME NEW n \in Messages,
               \/ FireJob(n) \/ BeginDispatch(n) \/ HandleDue(n) \/ Deliver(n)
               \/ Misfire(n) \/ DispatchFails(n)
        PROVE  FALSE
    BY <2>3, <2>5 DEF FireJob, BeginDispatch, HandleDue, Deliver, Misfire, DispatchFails
  <2> QED  BY <1>1, <2>1, <2>2, <2>3, <2>4, <2>5, StepKinds
<1>2. TypeOK /\ [Next]_vars =>
        [\A m \in Messages : ~Live(m) /\ Live(m)' =>
           pending'[m].attempt = 0 /\ pending'[m].gen = schedules + 1]_vars
  BY <1>1
<1> QED  BY <1>2, TypeCorrect, PTL DEF Spec, NoResurrection
----------------------------------------------------------------------------
(* The counters of a record, in any state.  A dispatch adds a delivery     *)
(* before its second half counts the attempt, so the two differ by one     *)
(* exactly while the dispatch that posted for this record is "sent".       *)

Posted(m) ==
  IF dispatch[m].phase = "sent" /\ dispatch[m].gen = pending[m].gen THEN 1 ELSE 0

Spare(m) == IF dispatch[m].phase \in {"idle", "ready"} THEN 1 ELSE 0

LiveInv ==
  \A m \in Messages : Live(m) =>
    /\ pending[m].gen <= schedules
    /\ pending[m].gen \notin late
    /\ pending[m].attempt < pending[m].max
    /\ quota[pending[m].gen] = pending[m].max
    /\ delivered[pending[m].gen] <= pending[m].attempt + Posted(m)
    /\ pending[m].attempt <= fired[pending[m].gen] + Spare(m)
    /\ \A n \in Messages : Live(n) /\ pending[n].gen = pending[m].gen => n = m

SendingInv ==
  \A m \in Messages :
    /\ dispatch[m].gen <= schedules
    /\ dispatch[m].phase = "sending" =>
         /\ dispatch[m].gen \notin late
         /\ delivered[dispatch[m].gen] < quota[dispatch[m].gen]
         /\ \A n \in Messages : Live(n) /\ pending[n].gen = dispatch[m].gen => n = m
         /\ \A n \in Messages :
              dispatch[n].phase = "sending" /\ dispatch[n].gen = dispatch[m].gen => n = m

FreshInv ==
  \A g \in Gens : g > schedules => delivered[g] = 0 /\ g \notin late

CountInv == LiveInv /\ SendingInv /\ FreshInv /\ DeliveriesBounded

\* A new record starts with fresh counters and leaves those of others alone.
LEMMA CountCommit ==
  ASSUME TypeOK, CountInv, NEW r \in Request, Commit(r), UNCHANGED dispatch
  PROVE  CountInv'
<1> DEFINE g == schedules + 1
<1>1. /\ r.msg \in Messages /\ r.max \in Nat /\ r.max > 0
      /\ g \in Gens
      /\ pending'[r.msg] # None /\ pending'[r.msg].max = r.max
      /\ pending'[r.msg].attempt = 0 /\ pending'[r.msg].gen = g
      /\ \A m \in Messages \ {r.msg} : pending'[m] = pending[m]
  BY CommitEffect DEF Request
<1>2. /\ schedules' = g /\ quota' = [quota EXCEPT ![g] = r.max]
      /\ UNCHANGED <<fired, delivered, late, dispatch>>
  BY DEF Commit
<1>3. g \notin late /\ delivered[g] = 0 /\ schedules \in Nat
  BY <1>1, HauntingAssumption DEF CountInv, FreshInv, TypeOK
<1>4. \A m \in Messages : Live(m) => /\ pending[m].gen \in Gens /\ pending[m].gen \in Nat
                                     /\ pending[m].gen <= g /\ pending[m].gen # g
  BY <1>3 DEF CountInv, LiveInv, TypeOK, Live, Record, Gens
<1>5. \A m \in Messages : /\ dispatch[m].gen \in Nat
                          /\ dispatch[m].gen <= g /\ dispatch[m].gen # g
                          /\ dispatch[m].phase = "sending" => dispatch[m].gen \in Gens
  BY <1>3 DEF CountInv, SendingInv, TypeOK, Run, Gens
<1>9. quota'[g] = r.max /\ \A h \in Gens : h # g => quota'[h] = quota[h]
  BY <1>1, <1>2 DEF TypeOK
<1>6. LiveInv'
  <2> SUFFICES ASSUME NEW m \in Messages, pending'[m] # None
               PROVE  /\ pending'[m].gen <= schedules'
                      /\ pending'[m].gen \notin late'
                      /\ pending'[m].attempt < pending'[m].max
                      /\ quota'[pending'[m].gen] = pending'[m].max
                      /\ delivered'[pending'[m].gen] <= pending'[m].attempt + Posted(m)'
                      /\ pending'[m].attempt <= fired'[pending'[m].gen] + Spare(m)'
                      /\ \A n \in Messages : pending'[n] # None /\ pending'[n].gen = pending'[m].gen
                           => n = m
    BY DEF LiveInv, Live
  <2>1. CASE m = r.msg
    BY <1>1, <1>2, <1>3, <1>4, <2>1 DEF TypeOK, Live, Posted, Spare
  <2>2. CASE m # r.msg
    <3>1. /\ Live(m) /\ pending'[m] = pending[m]
          /\ pending[m].gen <= g /\ pending[m].gen # g
          /\ quota'[pending[m].gen] = quota[pending[m].gen]
          /\ Posted(m)' = Posted(m) /\ Spare(m)' = Spare(m)
      BY <1>1, <1>2, <1>3, <1>4, <1>9, <2>2 DEF Live, Posted, Spare
    <3>2. ASSUME NEW n \in Messages, pending'[n] # None, pending'[n].gen = pending'[m].gen
          PROVE  n = m
      BY <1>1, <3>1, <3>2 DEF CountInv, LiveInv, Live
    <3> QED  BY <1>2, <1>3, <3>1, <3>2 DEF CountInv, LiveInv
  <2> QED  BY <2>1, <2>2
<1>7. SendingInv'
  <2> SUFFICES ASSUME NEW m \in Messages
               PROVE  /\ dispatch[m].gen <= schedules'
                      /\ dispatch[m].phase = "sending" =>
                           /\ dispatch[m].gen \notin late
                           /\ delivered[dispatch[m].gen] < quota'[dispatch[m].gen]
                           /\ \A n \in Messages : pending'[n] # None
                                /\ pending'[n].gen = dispatch[m].gen => n = m
                           /\ \A n \in Messages : dispatch[n].phase = "sending"
                                /\ dispatch[n].gen = dispatch[m].gen => n = m
    BY <1>2 DEF SendingInv, Live
  <2>1. dispatch[m].gen <= schedules'
    BY <1>2, <1>3, <1>5 DEF CountInv, SendingInv
  <2>2. dispatch[m].phase = "sending" =>
          quota'[dispatch[m].gen] = quota[dispatch[m].gen]
    BY <1>5, <1>9
  <2>3. \A n \in Messages : pending'[n] # None /\ pending'[n].gen = dispatch[m].gen
          => Live(n) /\ pending[n].gen = dispatch[m].gen
    BY <1>1, <1>5 DEF Live
  <2> QED  BY <2>1, <2>2, <2>3 DEF CountInv, SendingInv
<1>8. FreshInv' /\ DeliveriesBounded'
  BY <1>1, <1>2, <1>3 DEF CountInv, FreshInv, DeliveriesBounded, TypeOK, Gens
<1> QED  BY <1>6, <1>7, <1>8 DEF CountInv

\* Removing records leaves the counters of the rest as they are.
LEMMA CountRemove ==
  ASSUME TypeOK, CountInv, NEW ids \in SUBSET Messages, Remove(ids),
         UNCHANGED <<dispatch, schedules, history>>
  PROVE  CountInv'
<1>1. \A m \in Messages : Live(m)' => Live(m) /\ pending'[m] = pending[m]
  BY DEF Remove, Live
<1>2. LiveInv'
  BY <1>1 DEF CountInv, LiveInv, history, Live, Posted, Spare
<1>3. SendingInv'
  BY <1>1 DEF CountInv, SendingInv, history, Live
<1> QED  BY <1>2, <1>3 DEF CountInv, FreshInv, DeliveriesBounded, history

\* The second half of a dispatch counts the attempt its delivery stands for.
LEMMA CountFinish ==
  ASSUME TypeOK, CountInv, NEW m \in Messages, FinishDispatch(m)
  PROVE  CountInv'
<1>1. /\ dispatch[m].phase = "sent" /\ dispatch'[m] = Idle
      /\ \A n \in Messages \ {m} : dispatch'[n] = dispatch[n]
      /\ UNCHANGED <<schedules, quota, fired, delivered, late>>
  BY DEF FinishDispatch, TypeOK, history
<1>2. FreshInv' /\ DeliveriesBounded'
  BY <1>1 DEF CountInv, FreshInv, DeliveriesBounded
<1>3. schedules \in Nat
  BY HauntingAssumption DEF TypeOK
<1>4. CASE Live(m) /\ ~Exhausted(pending[m])
  <2>1. /\ pending[m] \in Record
        /\ pending'[m] # None /\ pending'[m].max = pending[m].max
        /\ pending'[m].gen = pending[m].gen
        /\ pending'[m].attempt = pending[m].attempt + 1
        /\ \A n \in Messages \ {m} : pending'[n] = pending[n]
    BY <1>4, RetryEffect
  <2>2. pending[m].attempt + 1 < pending[m].max
    BY <1>4, <2>1 DEF Exhausted, Record
  <2>3. Posted(m) <= 1 /\ Posted(m) \in Nat /\ Spare(m) = 0 /\ Posted(m)' = 0 /\ Spare(m)' = 1
    BY <1>1 DEF Posted, Spare, Idle
  <2>4. LiveInv'
    <3> SUFFICES ASSUME NEW n \in Messages, pending'[n] # None
                 PROVE  /\ pending'[n].gen <= schedules'
                        /\ pending'[n].gen \notin late'
                        /\ pending'[n].attempt < pending'[n].max
                        /\ quota'[pending'[n].gen] = pending'[n].max
                        /\ delivered'[pending'[n].gen] <= pending'[n].attempt + Posted(n)'
                        /\ pending'[n].attempt <= fired'[pending'[n].gen] + Spare(n)'
                        /\ \A k \in Messages : pending'[k] # None /\ pending'[k].gen = pending'[n].gen
                             => k = n
      BY DEF LiveInv, Live
    <3>1. CASE n = m
      BY <1>1, <1>4, <2>1, <2>2, <2>3, <3>1 DEF CountInv, LiveInv, Live, Record, TypeOK
    <3>2. CASE n # m
      BY <1>1, <1>4, <2>1, <3>2 DEF CountInv, LiveInv, Live, Posted, Spare
    <3> QED  BY <3>1, <3>2
  <2>5. SendingInv'
    BY <1>1, <1>3, <1>4, <2>1 DEF CountInv, SendingInv, Live, Idle
  <2> QED  BY <1>2, <2>4, <2>5 DEF CountInv
<1>5. CASE ~(Live(m) /\ ~Exhausted(pending[m]))
  <2>1. \A n \in Messages : pending'[n] # None => Live(n) /\ n # m /\ pending'[n] = pending[n]
    BY <1>5 DEF FinishDispatch, Remove, Live
  <2>2. LiveInv'
    BY <1>1, <2>1 DEF CountInv, LiveInv, Live, Posted, Spare
  <2>3. SendingInv'
    BY <1>1, <1>3, <2>1 DEF CountInv, SendingInv, Live, Idle
  <2> QED  BY <1>2, <2>2, <2>3 DEF CountInv
<1> QED  BY <1>4, <1>5

\* A job that fires touches no counter.
LEMMA CountFire ==
  ASSUME TypeOK, CountInv, NEW m \in Messages, FireJob(m)
  PROVE  CountInv'
<1>1. UNCHANGED <<pending, schedules, history>>
  BY DEF FireJob
<1>2. \/ dispatch' = dispatch
      \/ /\ dispatch[m] = Idle
         /\ dispatch'[m] = [phase |-> "ready", gen |-> 0]
         /\ \A n \in Messages \ {m} : dispatch'[n] = dispatch[n]
  BY DEF FireJob, TypeOK
<1>3. \A n \in Messages : Spare(n)' = Spare(n) /\ Posted(n)' = Posted(n)
  BY <1>1, <1>2 DEF Spare, Posted, Idle
<1>4. LiveInv'
  BY <1>1, <1>3 DEF CountInv, LiveInv, history, Live
<1>5. SendingInv'
  BY <1>1, <1>2, HauntingAssumption DEF CountInv, SendingInv, TypeOK, history, Live
<1> QED  BY <1>1, <1>4, <1>5 DEF CountInv, FreshInv, DeliveriesBounded, history

\* A dispatch that begins is counted for the record it found.
LEMMA CountBegin ==
  ASSUME TypeOK, CountInv, NEW m \in Messages, BeginDispatch(m)
  PROVE  CountInv'
<1>1. UNCHANGED <<pending, schedules, quota, delivered, late>>
  BY DEF BeginDispatch
<1>2. CASE Live(m)
  <2> DEFINE g == pending[m].gen
  <2>1. /\ dispatch'[m] = [phase |-> "due", gen |-> 0]
        /\ \A n \in Messages \ {m} : dispatch'[n] = dispatch[n]
    BY <1>2 DEF BeginDispatch, TypeOK
  <2>2. g \in Gens
    BY <1>2 DEF TypeOK, Live, Record
  <2>3. fired'[g] = fired[g] + 1 /\ \A h \in Gens : h # g => fired'[h] = fired[h]
    BY <1>2, <2>2 DEF BeginDispatch, TypeOK
  <2>4. \A n \in Messages : Live(n) => pending[n].gen \in Gens /\ fired[pending[n].gen] \in Nat
                                        /\ pending[n].attempt \in Nat
    BY DEF TypeOK, Live, Record
  <2>5. Posted(m) = 0 /\ Spare(m) = 1 /\ Posted(m)' = 0 /\ Spare(m)' = 0
    BY <1>2, <2>1 DEF BeginDispatch, Posted, Spare
  <2>6. \A n \in Messages \ {m} : Posted(n)' = Posted(n) /\ Spare(n)' = Spare(n)
    BY <1>1, <2>1 DEF Posted, Spare
  <2>7. \A n \in Messages \ {m} : Live(n) => fired'[pending[n].gen] = fired[pending[n].gen]
    BY <1>2, <2>3, <2>4 DEF CountInv, LiveInv
  <2>8. LiveInv'
    <3> SUFFICES ASSUME NEW n \in Messages, pending[n] # None
                 PROVE  /\ delivered[pending[n].gen] <= pending[n].attempt + Posted(n)'
                        /\ pending[n].attempt <= fired'[pending[n].gen] + Spare(n)'
      BY <1>1 DEF CountInv, LiveInv, Live
    <3>1. CASE n = m
      BY <2>3, <2>4, <2>5, <3>1 DEF CountInv, LiveInv, Live
    <3>2. CASE n # m
      BY <2>6, <2>7, <3>2 DEF CountInv, LiveInv, Live
    <3> QED  BY <3>1, <3>2
  <2>9. SendingInv'
    <3>1. schedules \in Nat
      BY HauntingAssumption DEF TypeOK
    <3>2. dispatch'[m].phase # "sending" /\ dispatch'[m].gen <= schedules
      BY <2>1, <3>1
    <3> QED  BY <1>1, <2>1, <3>2 DEF CountInv, SendingInv, Live
  <2> QED  BY <1>1, <2>8, <2>9 DEF CountInv, FreshInv, DeliveriesBounded
<1>3. CASE ~Live(m)
  <2>1. /\ UNCHANGED fired /\ dispatch'[m] = Idle
        /\ \A n \in Messages \ {m} : dispatch'[n] = dispatch[n]
    BY <1>3 DEF BeginDispatch, TypeOK
  <2>2. LiveInv'
    BY <1>1, <1>3, <2>1 DEF CountInv, LiveInv, Live, Posted, Spare
  <2>3. SendingInv'
    BY <1>1, <2>1, HauntingAssumption DEF CountInv, SendingInv, TypeOK, Live, Idle
  <2> QED  BY <1>1, <2>2, <2>3 DEF CountInv, FreshInv, DeliveriesBounded
<1> QED  BY <1>2, <1>3

\* The agent picks the record up again, or the dispatch fails: no counter moves.
LEMMA CountHandle ==
  ASSUME TypeOK, CountInv, NEW m \in Messages, HandleDue(m) \/ DispatchFails(m)
  PROVE  CountInv'
<1>1. UNCHANGED <<pending, schedules, quota, fired, delivered, late>>
  BY DEF HandleDue, DispatchFails, history
<1>2. \A n \in Messages \ {m} : dispatch'[n] = dispatch[n]
  BY DEF HandleDue, DispatchFails, TypeOK
<1>3. /\ dispatch[m].phase \in {"due", "sending"}
      /\ \/ dispatch'[m] = [phase |-> "sent", gen |-> 0]
         \/ /\ Live(m) /\ dispatch[m].phase = "due"
            /\ dispatch'[m] = [phase |-> "sending", gen |-> pending[m].gen]
  BY DEF HandleDue, DispatchFails, TypeOK
<1>4. /\ schedules \in Nat
      /\ \A n \in Messages : Live(n) => pending[n].gen \in Gens
                                 /\ pending[n].attempt \in Nat /\ pending[n].max \in Nat
                                 /\ delivered[pending[n].gen] \in Nat
  BY HauntingAssumption DEF TypeOK, Live, Record
<1>5. LiveInv'
  <2>1. Live(m) => Posted(m) = 0 /\ Spare(m) = 0 /\ Posted(m)' = 0 /\ Spare(m)' = 0
    BY <1>1, <1>3, <1>4 DEF Posted, Spare, Idle, Gens
  <2>2. \A n \in Messages \ {m} : Posted(n)' = Posted(n) /\ Spare(n)' = Spare(n)
    BY <1>1, <1>2 DEF Posted, Spare
  <2> QED  BY <1>1, <2>1, <2>2 DEF CountInv, LiveInv, Live
<1>6. SendingInv'
  <2>1. CASE dispatch'[m] = [phase |-> "sent", gen |-> 0]
    BY <1>1, <1>2, <1>4, <2>1 DEF CountInv, SendingInv, Live
  <2>2. CASE /\ Live(m) /\ dispatch[m].phase = "due"
             /\ dispatch'[m] = [phase |-> "sending", gen |-> pending[m].gen]
    <3>1. /\ pending[m].gen <= schedules /\ pending[m].gen \notin late
          /\ delivered[pending[m].gen] < quota[pending[m].gen]
      BY <1>4, <2>2 DEF CountInv, LiveInv, Posted
    <3>2. \A n \in Messages : Live(n) /\ pending[n].gen = pending[m].gen => n = m
      BY <2>2 DEF CountInv, LiveInv
    <3>3. \A n \in Messages \ {m} : dispatch[n].phase = "sending" => dispatch[n].gen # pending[m].gen
      BY <2>2 DEF CountInv, SendingInv
    <3> QED  BY <1>1, <1>2, <2>2, <3>1, <3>2, <3>3 DEF CountInv, SendingInv, Live
  <2> QED  BY <1>3, <2>1, <2>2
<1> QED  BY <1>1, <1>5, <1>6 DEF CountInv, FreshInv, DeliveriesBounded

\* A delivery is within the quota of the record it is for.
LEMMA CountDeliver ==
  ASSUME TypeOK, CountInv, NEW m \in Messages, Deliver(m)
  PROVE  CountInv'
<1> DEFINE g == dispatch[m].gen
<1>1. /\ dispatch[m].phase = "sending"
      /\ dispatch'[m] = [phase |-> "sent", gen |-> g]
      /\ \A n \in Messages \ {m} : dispatch'[n] = dispatch[n]
      /\ UNCHANGED <<pending, schedules, quota, fired>>
      /\ g \in Gens
  BY DEF Deliver, TypeOK, Run
<1>2. /\ delivered'[g] = delivered[g] + 1
      /\ \A h \in Gens : h # g => delivered'[h] = delivered[h]
      /\ delivered[g] \in Nat /\ quota[g] \in Nat /\ schedules \in Nat
  BY <1>1, HauntingAssumption DEF Deliver, TypeOK
<1>3. late' \subseteq late \cup {g} /\ (LiveGen(g) => late' = late)
  BY DEF Deliver
<1>4. \A n \in Messages : Live(n) /\ pending[n].gen = g => n = m
  BY <1>1 DEF CountInv, SendingInv
<1>5. g <= schedules /\ delivered[g] < quota[g]
  BY <1>1 DEF CountInv, SendingInv
<1>6. \A n \in Messages : Live(n) => pending[n].gen \in Gens /\ pending[n].attempt \in Nat
  BY DEF TypeOK, Live, Record
<1>7. LiveInv'
  <2> SUFFICES ASSUME NEW n \in Messages, Live(n)
               PROVE  /\ pending[n].gen \notin late'
                      /\ delivered'[pending[n].gen] <= pending[n].attempt + Posted(n)'
                      /\ pending[n].attempt <= fired[pending[n].gen] + Spare(n)'
    BY <1>1 DEF CountInv, LiveInv, Live
  <2>1. pending[n].gen \notin late'
    BY <1>3 DEF CountInv, LiveInv, LiveGen
  <2>2. CASE n = m
    <3>1. Spare(n) = 0 /\ Spare(n)' = 0
      BY <1>1, <2>2 DEF Spare, Idle
    <3>2. CASE pending[n].gen = g
      BY <1>1, <1>2, <1>6, <2>1, <2>2, <3>1, <3>2 DEF CountInv, LiveInv, Posted
    <3>3. CASE pending[n].gen # g
      <4>1. delivered'[pending[n].gen] = delivered[pending[n].gen] /\ Posted(n) = 0 /\ Posted(n)' = 0
        BY <1>1, <1>2, <1>6, <2>2, <3>3 DEF Posted
      <4> QED  BY <2>1, <3>1, <4>1 DEF CountInv, LiveInv
    <3> QED  BY <3>2, <3>3
  <2>3. CASE n # m
    <3>1. delivered'[pending[n].gen] = delivered[pending[n].gen]
          /\ Posted(n)' = Posted(n) /\ Spare(n)' = Spare(n)
      BY <1>1, <1>2, <1>4, <1>6, <2>3 DEF Posted, Spare
    <3> QED  BY <2>1, <3>1 DEF CountInv, LiveInv
  <2> QED  BY <2>2, <2>3
<1>8. SendingInv'
  <2> SUFFICES ASSUME NEW n \in Messages, n # m, dispatch[n].phase = "sending"
               PROVE  /\ dispatch[n].gen \notin late'
                      /\ delivered'[dispatch[n].gen] < quota[dispatch[n].gen]
    BY <1>1, <1>5 DEF CountInv, SendingInv, Live
  <2>1. dispatch[n].gen \in Gens /\ dispatch[n].gen # g
    BY <1>1 DEF CountInv, SendingInv, TypeOK, Run
  <2> QED  BY <1>2, <1>3, <2>1 DEF CountInv, SendingInv
<1>9. FreshInv' /\ DeliveriesBounded'
  BY <1>1, <1>2, <1>3, <1>5 DEF CountInv, FreshInv, DeliveriesBounded, Gens
<1> QED  BY <1>7, <1>8, <1>9 DEF CountInv

\* Every step keeps the counters in line.
LEMMA CountStep == TypeOK /\ CountInv /\ [Next]_vars => CountInv'
<1> SUFFICES ASSUME TypeOK, CountInv, [Next]_vars PROVE CountInv'
  OBVIOUS
<1>1. ASSUME UNCHANGED <<pending, dispatch, schedules, history>> PROVE CountInv'
  BY <1>1 DEF CountInv, LiveInv, SendingInv, FreshInv, DeliveriesBounded,
     history, Live, Posted, Spare
<1>2. ASSUME NEW m \in Messages, Misfire(m) PROVE CountInv'
  BY <1>1, <1>2 DEF Misfire
<1> QED
  BY <1>1, <1>2, StepKinds, CountCommit, CountRemove, CountFinish, CountFire,
     CountBegin, CountHandle, CountDeliver

\* The counters of every record stay in line with what was delivered for it.
THEOREM CountCorrect == Spec => []CountInv
<1>1. Init => CountInv
  BY HauntingAssumption DEF Init, CountInv, LiveInv, SendingInv, FreshInv,
     DeliveriesBounded, Live, Idle, Gens
<1> QED  BY <1>1, CountStep, TypeCorrect, PTL DEF Spec

\* No follow-up is posted more often than its max_attempts, whatever replaces
\* or cancels it while a dispatch is under way.
THEOREM DeliveriesCorrect == Spec => []DeliveriesBounded
BY CountCorrect, PTL DEF CountInv

\* At most one attempt of a record was charged by the dispatch of another.
THEOREM AttemptsCorrect == Spec => []AttemptsAccounted
<1>1. TypeOK /\ CountInv => AttemptsAccounted
  BY DEF TypeOK, CountInv, LiveInv, AttemptsAccounted, Spare, Live, Record
<1> QED  BY <1>1, CountCorrect, TypeCorrect, PTL

\* Once something was posted for a record already gone, nothing more is.
THEOREM OneLateCorrect == Spec => OneLateDelivery
<1>1. ASSUME TypeOK, CountInv, [Next]_vars, NEW g \in late
      PROVE  delivered'[g] = delivered[g]
  <2>1. ASSUME NEW m \in Messages, Deliver(m) PROVE delivered'[g] = delivered[g]
    BY <1>1, <2>1 DEF Deliver, CountInv, SendingInv, TypeOK
  <2>2. ASSUME UNCHANGED delivered PROVE delivered'[g] = delivered[g]
    BY <2>2
  <2> QED
    BY <1>1, <2>1, <2>2, StepKinds DEF Commit, history, FireJob, BeginDispatch, HandleDue,
       FinishDispatch, Misfire, DispatchFails
<1>2. TypeOK /\ CountInv /\ [Next]_vars =>
        [\A g \in late : delivered'[g] = delivered[g]]_vars
  BY <1>1
<1> QED  BY <1>2, TypeCorrect, CountCorrect, PTL DEF Spec, OneLateDelivery
----------------------------------------------------------------------------
(* The service implements FollowUps *)

\* Dispatches that begin or end outside the posting of a message.
LEMMA SendingStays ==
  ASSUME \A m \in Messages :
           \/ dispatch'[m] = dispatch[m]
           \/ dispatch'[m].phase # "sending" /\ dispatch[m].phase # "sending"
  PROVE  Sending' = Sending
<1>1. \A m \in Messages : dispatch'[m].phase = "sending" <=> dispatch[m].phase = "sending"
  OBVIOUS
<1>2. \A m \in Messages : dispatch[m].phase = "sending" => dispatch'[m].gen = dispatch[m].gen
  OBVIOUS
<1>. QED  BY <1>1, <1>2 DEF Sending

\* One message that is posted, or gets lost, is no more on its way.
LEMMA SendingEnds ==
  ASSUME TypeOK, CountInv, NEW m \in Messages, dispatch[m].phase = "sending",
         dispatch'[m].phase # "sending",
         \A n \in Messages \ {m} : dispatch'[n] = dispatch[n]
  PROVE  /\ dispatch[m].gen \in Gens /\ dispatch[m].gen \in Sending
         /\ Sending' = Sending \ {dispatch[m].gen}
<1>1. dispatch[m].gen \in Gens
  BY DEF TypeOK, Run
<1>2. \A n \in Messages : dispatch[n].phase = "sending" /\ dispatch[n].gen = dispatch[m].gen
        => n = m
  BY DEF CountInv, SendingInv
<1>. QED  BY <1>1, <1>2 DEF Sending

\* A follow-up is pending exactly while it has a record.
LEMMA StageShown ==
  ASSUME TypeOK, CountInv, NEW g \in Gens
  PROVE  /\ Stage(g) = "pending" <=> LiveGen(g)
         /\ LiveGen(g) => ~(g > schedules)
         /\ ~(g > schedules) /\ ~LiveGen(g) => Stage(g) = "gone"
<1>1. LiveGen(g) => g <= schedules
  BY DEF CountInv, LiveInv, LiveGen
<1>2. schedules \in Nat /\ g \in Nat
  BY HauntingAssumption DEF TypeOK, Gens
<1>. QED  BY <1>1, <1>2 DEF Stage

\* Where records can only go, follow-ups end, if any.
LEMMA EndShown ==
  ASSUME TypeOK, CountInv, UNCHANGED <<schedules, quota, delivered>>, Sending' = Sending,
         \A g \in Gens : LiveGen(g)' => LiveGen(g)
  PROVE  Promised!Next
<1>. PICK gs \in SUBSET Gens : gs = {g \in Gens : LiveGen(g) /\ ~LiveGen(g)'}
  OBVIOUS
<1>1. \A g \in gs : Stage(g) = "pending"
  BY StageShown
<1>2. ASSUME NEW g \in Gens PROVE Stage(g)' = IF g \in gs THEN "gone" ELSE Stage(g)
  BY StageShown DEF Stage
<1>3. Promised!End(gs)
  BY <1>1, <1>2 DEF Promised!End
<1>. QED  BY <1>3 DEF Promised!Next

\* A new record is a new follow-up, and ends that of the record it replaces.
LEMMA CommitShown ==
  ASSUME TypeOK, CountInv, NEW r \in Request, Commit(r), UNCHANGED dispatch
  PROVE  Promised!Next
<1>. PICK new \in Gens : new = schedules + 1
  BY CommitEffect
<1>. PICK gs \in SUBSET Gens : gs = {g \in Gens : LiveGen(g) /\ ~LiveGen(g)'}
  OBVIOUS
<1>1. /\ r.msg \in Messages /\ pending'[r.msg] # None /\ pending'[r.msg].gen = new
      /\ \A m \in Messages \ {r.msg} : pending'[m] = pending[m]
  BY CommitEffect
<1>2. /\ schedules \in Nat /\ schedules' = new /\ UNCHANGED <<delivered, dispatch>>
      /\ quota' = [quota EXCEPT ![new] = r.max] /\ r.max \in Nat \ {0}
  BY HauntingAssumption DEF Commit, TypeOK, Request
<1>3. LiveGen(new)'
  BY <1>1 DEF LiveGen, Live
<1>4. ASSUME NEW g \in Gens, g # new PROVE LiveGen(g)' => LiveGen(g)
  BY <1>1, <1>4 DEF LiveGen, Live
<1>5. Stage(new) = "new" /\ Stage(new)' = "pending"
  BY <1>2, <1>3 DEF Stage
<1>6. new \notin gs /\ \A g \in gs : Stage(g) = "pending"
  BY <1>3, StageShown
<1>7. ASSUME NEW g \in Gens, g # new
      PROVE  Stage(g)' = IF g \in gs THEN "gone" ELSE Stage(g)
  <2>1. g > schedules' <=> g > schedules
    BY <1>2, <1>7 DEF Gens
  <2>. QED  BY <1>4, <1>7, <2>1, StageShown DEF Stage
<1>8. Sending' = Sending
  BY <1>2, SendingStays
<1>9. quota'[new] = r.max
  BY <1>2 DEF TypeOK
<1>10. Promised!Schedule(new, gs)
  BY <1>2, <1>5, <1>6, <1>7, <1>8, <1>9 DEF Promised!Schedule
<1>. QED  BY <1>10 DEF Promised!Next

\* The second half of a dispatch leaves the follow-up, or ends it.
LEMMA FinishShown ==
  ASSUME TypeOK, CountInv, NEW m \in Messages, FinishDispatch(m)
  PROVE  Promised!Next
<1>1. UNCHANGED <<schedules, quota, delivered>>
  BY DEF FinishDispatch, history
<1>2. Sending' = Sending
  BY SendingStays DEF FinishDispatch, TypeOK, Idle
<1>3. ASSUME NEW g \in Gens, LiveGen(g)' PROVE LiveGen(g)
  <2>1. PICK n \in Messages : pending'[n] # None /\ pending'[n].gen = g
    BY <1>3 DEF LiveGen, Live
  <2>2. Live(n) /\ pending[n].gen = g
    <3>1. CASE Live(m) /\ ~Exhausted(pending[m])
      BY <2>1, <3>1, RetryEffect DEF Live
    <3>2. CASE ~(Live(m) /\ ~Exhausted(pending[m]))
      BY <2>1, <3>2 DEF FinishDispatch, Remove, Live
    <3>. QED  BY <3>1, <3>2
  <2>. QED  BY <2>2 DEF LiveGen
<1>. QED  BY <1>1, <1>2, <1>3, EndShown

\* The agent that finds a record begins to post for it, within its maximum.
LEMMA HandleShown ==
  ASSUME TypeOK, CountInv, NEW m \in Messages, HandleDue(m)
  PROVE  Promised!Next
<1>1. UNCHANGED <<pending, schedules, quota, delivered>> /\ dispatch[m].phase = "due"
  BY DEF HandleDue, history
<1>2. ASSUME NEW g \in Gens PROVE LiveGen(g)' <=> LiveGen(g)
  BY <1>1 DEF LiveGen, Live
<1>3. CASE Live(m)
  <2>. PICK g \in Gens : g = pending[m].gen
    BY <1>3 DEF TypeOK, Live, Record
  <2>1. /\ dispatch'[m] = [phase |-> "sending", gen |-> g]
        /\ \A n \in Messages \ {m} : dispatch'[n] = dispatch[n]
    BY <1>3 DEF HandleDue, TypeOK
  <2>2. Stage(g) = "pending" /\ g \notin Sending
    <3>1. LiveGen(g)
      BY <1>3 DEF LiveGen
    <3>2. \A n \in Messages : dispatch[n].phase = "sending" => dispatch[n].gen # g
      BY <1>1, <1>3 DEF CountInv, SendingInv
    <3>. QED  BY <3>1, <3>2, StageShown DEF Sending
  <2>3. delivered[g] < quota[g]
    <3>1. /\ pending[m].attempt \in Nat /\ pending[m].max \in Nat /\ delivered[g] \in Nat
          /\ Posted(m) = 0
      BY <1>1, <1>3 DEF TypeOK, Live, Record, Posted
    <3>. QED  BY <1>3, <3>1 DEF CountInv, LiveInv
  <2>4. Sending' = Sending \cup {g}
    BY <1>1, <2>1 DEF Sending
  <2>5. ASSUME NEW h \in Gens PROVE Stage(h)' = Stage(h)
    BY <1>1, <1>2 DEF Stage
  <2>6. Promised!BeginPost(g)
    BY <1>1, <2>2, <2>3, <2>4, <2>5 DEF Promised!BeginPost
  <2>. QED  BY <2>6 DEF Promised!Next
<1>4. CASE ~Live(m)
  <2>1. Sending' = Sending
    BY <1>4, SendingStays DEF HandleDue, TypeOK
  <2>. QED  BY <1>1, <1>2, <2>1, EndShown
<1>. QED  BY <1>3, <1>4

\* A message is posted, or lost.
LEMMA PostShown ==
  ASSUME TypeOK, CountInv, NEW m \in Messages, Deliver(m) \/ DispatchFails(m)
  PROVE  Promised!Next
<1>1. UNCHANGED <<pending, schedules, quota>>
  BY DEF Deliver, DispatchFails, history
<1>2. ASSUME NEW g \in Gens PROVE LiveGen(g)' <=> LiveGen(g)
  BY <1>1 DEF LiveGen, Live
<1>3. ASSUME NEW g \in Gens PROVE Stage(g)' = Stage(g)
  BY <1>1, <1>2 DEF Stage
<1>4. /\ dispatch'[m].phase = "sent"
      /\ \A n \in Messages \ {m} : dispatch'[n] = dispatch[n]
  BY DEF Deliver, DispatchFails, TypeOK
<1>5. CASE dispatch[m].phase = "sending"
  <2>. PICK g \in Gens : g = dispatch[m].gen
    BY <1>4, <1>5, SendingEnds
  <2>1. g \in Sending /\ Sending' = Sending \ {g}
    BY <1>4, <1>5, SendingEnds
  <2>2. CASE Deliver(m)
    <3>1. Promised!Post(g)
      BY <1>1, <1>3, <2>1, <2>2 DEF Promised!Post, Deliver
    <3>. QED  BY <3>1 DEF Promised!Next
  <2>3. CASE DispatchFails(m)
    <3>1. Promised!Fail(g)
      BY <1>1, <1>3, <2>1, <2>3 DEF Promised!Fail, DispatchFails, history
    <3>. QED  BY <3>1 DEF Promised!Next
  <2>. QED  BY <2>2, <2>3
<1>6. CASE dispatch[m].phase # "sending"
  <2>1. UNCHANGED delivered
    BY <1>6 DEF Deliver, DispatchFails, history
  <2>2. Sending' = Sending
    BY <1>4, <1>6, SendingStays
  <2>. QED  BY <1>1, <1>2, <2>1, <2>2, EndShown
<1>. QED  BY <1>5, <1>6

\* Every step is one of the abstract follow-ups.
LEMMA FollowUpsStep == TypeOK /\ CountInv /\ [Next]_vars => Promised!Next
<1>. SUFFICES ASSUME TypeOK, CountInv, [Next]_vars PROVE Promised!Next
  OBVIOUS
<1>1. ASSUME NEW ids \in SUBSET Messages, Remove(ids),
             UNCHANGED <<dispatch, schedules, history>>
      PROVE  Promised!Next
  <2>1. ASSUME NEW g \in Gens, LiveGen(g)' PROVE LiveGen(g)
    BY <1>1, <2>1 DEF Remove, LiveGen, Live
  <2>2. Sending' = Sending
    BY <1>1, SendingStays
  <2>. QED  BY <1>1, <2>1, <2>2, EndShown DEF history
<1>2. ASSUME UNCHANGED <<pending, schedules, quota, delivered>>,
             \A m \in Messages :
               \/ dispatch'[m] = dispatch[m]
               \/ dispatch'[m].phase # "sending" /\ dispatch[m].phase # "sending"
      PROVE  Promised!Next
  <2>1. ASSUME NEW g \in Gens, LiveGen(g)' PROVE LiveGen(g)
    BY <1>2, <2>1 DEF LiveGen, Live
  <2>. QED  BY <1>2, <2>1, SendingStays, EndShown
<1>3. ASSUME UNCHANGED <<pending, dispatch, schedules, history>> PROVE Promised!Next
  BY <1>2, <1>3 DEF history
<1>4. ASSUME NEW m \in Messages, FireJob(m) \/ BeginDispatch(m) \/ Misfire(m)
      PROVE  Promised!Next
  <2>1. \A n \in Messages :
          \/ dispatch'[n] = dispatch[n]
          \/ dispatch'[n].phase # "sending" /\ dispatch[n].phase # "sending"
    BY <1>4 DEF FireJob, BeginDispatch, Misfire, TypeOK, Idle
  <2>. QED  BY <1>2, <1>4, <2>1 DEF FireJob, BeginDispatch, Misfire, history
<1>. QED
  BY <1>1, <1>3, <1>4, StepKinds, CommitShown, FinishShown, HandleShown, PostShown

\* ImplementsFollowUps: schedule calls, replies, timers, dispatches and failures
\* in any order post a follow-up one message at a time and within its maximum,
\* begin none once it is gone, and never bring it back.
THEOREM FollowUpsImplemented == Spec => ImplementsFollowUps
<1>1. Init => Promised!Init
  BY DEF Init, Promised!Init, Stage, Sending, Gens, Idle
<1>. QED
  BY <1>1, FollowUpsStep, TypeCorrect, CountCorrect, PTL
     DEF Spec, ImplementsFollowUps, Promised!Spec
=============================================================================
