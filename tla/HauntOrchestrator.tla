-------------------------- MODULE HauntOrchestrator --------------------------
(***************************************************************************)
(* The other reminder table (src/fateforger/haunt/orchestrator.py), which  *)
(* the receptionist, schedular and admonisher agents share: tickets of     *)
(* envelopes that ask for follow-up, and of calendar hooks.                *)
(*                                                                         *)
(* The loop and the scheduler are those of HauntingService: an action is   *)
(* the code between two awaits that can suspend, the sections under        *)
(* `_lock' have none, and a job may fire at any moment after it was added. *)
(* The one await outside the lock is the agent's callback.                 *)
(*                                                                         *)
(* This is the orchestrator as one agent uses it: ticket ids, index keys   *)
(* and callbacks all carry the agent's id, so agents share nothing here.   *)
(***************************************************************************)
EXTENDS Naturals, FiniteSets

CONSTANTS
  Sessions,      \* session ids
  Hooks,         \* ids of calendar events; a hook's ticket id is made of its event's
  Uuids,         \* the ids of all other tickets
  Limits,        \* the max_attempts of envelopes
  HookLimit,     \* the max_attempts of a hook's envelope
  MaxEnvelopes,  \* bound: envelopes and hooks recorded
  None           \* Python's None

Ids == Hooks \cup Uuids
Envelopes == 1..MaxEnvelopes

\* A HauntTicket, with the envelope it follows up as a number.
Ticket == [session: Sessions, attempt: Nat, max: Nat \ {0}, env: Envelopes]

ASSUME OrchestratorAssumption ==
  /\ MaxEnvelopes \in Nat
  /\ Limits \subseteq Nat \ {0}
  /\ HookLimit \in Nat \ {0}
  /\ Hooks \cap Uuids = {}
  /\ None \notin Ticket

VARIABLES
  tickets,     \* _tickets: ticket id -> ticket, None when absent
  index,       \* _session_index: session -> ticket ids
  jobs,        \* ticket ids with a job in the scheduler
  registered,  \* whether the agent is in _callbacks
  dispatch,    \* the running _dispatch_ticket of a ticket id, if any
  recorded,    \* history: envelopes recorded so far
  called,      \* history: the callbacks begun for each envelope
  silenced,    \* history: envelopes removed while no callback ran for them
  dropped      \* history: ticket ids whose ticket lost its job

vars == <<tickets, index, jobs, registered, dispatch, recorded, called,
          silenced, dropped>>
----------------------------------------------------------------------------
Live(id) == tickets[id] # None

\* In "ready" the ticket is the one whose timer fired (history: the task knows
\* the id alone), in "calling" the one the callback was given.
Run == [phase: {"idle", "ready"}, ticket: Ticket \cup {None}]
       \cup [phase: {"calling"}, ticket: Ticket]

Idle == [phase |-> "idle", ticket |-> None]

\* Some run is in the agent's callback for this envelope.
Calling(env) ==
  \E id \in Ids : dispatch[id].phase = "calling" /\ dispatch[id].ticket.env = env

\* uuid4: an id that nothing refers to any more.
Fresh(id) == id \in Uuids /\ ~Live(id) /\ dispatch[id] = Idle

\* Mutant: the job stays with the scheduler.
RemoveButJob(ids) ==
  /\ tickets' = [id \in Ids |-> IF id \in ids THEN None ELSE tickets[id]]
  /\ index' = [s \in Sessions |->
       index[s] \ {id \in ids : Live(id) /\ tickets[id].session = s}]
  /\ dropped' = dropped \ ids
  /\ UNCHANGED jobs

\* _remove_ticket of each: from the table, its index entry, and its job.
Remove(ids) ==
  /\ tickets' = [id \in Ids |-> IF id \in ids THEN None ELSE tickets[id]]
  /\ index' = [s \in Sessions |->
       index[s] \ {id \in ids : Live(id) /\ tickets[id].session = s}]
  /\ jobs' = jobs \ {id \in ids : Live(id)}
  /\ dropped' = dropped \ ids

\* Mutant: the replaced ticket stays in the index of its session.
StoreOver(id, t) ==
  /\ tickets' = [tickets EXCEPT ![id] = t]
  /\ index' = [index EXCEPT ![t.session] = @ \cup {id}]
  /\ jobs' = jobs \cup {id}
  /\ dropped' = dropped \ {id}

\* _store_ticket, after the removal of the ticket it replaces, if any.
Store(id, t) ==
  /\ tickets' = [tickets EXCEPT ![id] = t]
  /\ index' = [s \in Sessions |->
       IF s = t.session THEN index[s] \cup {id} ELSE index[s] \ {id}]
  /\ jobs' = jobs \cup {id}
  /\ dropped' = dropped \ {id}

\* The envelopes of these tickets will not be followed up any more.
Silence(ids) ==
  silenced' = silenced \cup
    {e \in {tickets[id].env : id \in {i \in ids : Live(i)}} : ~Calling(e)}

Register ==
  /\ registered' = TRUE
  /\ UNCHANGED <<tickets, index, jobs, dispatch, recorded, called, silenced, dropped>>

\* record_envelope, outbound and to be followed up.
RecordOutbound(s, max, id) ==
  /\ recorded < MaxEnvelopes
  /\ Fresh(id)
  /\ recorded' = recorded + 1
  /\ Store(id, [session |-> s, attempt |-> 0, max |-> max, env |-> recorded + 1])
  /\ UNCHANGED <<registered, dispatch, called, silenced>>

\* Mutant: only the index forgets the session's tickets.
AcknowledgeIndex(s) ==
  /\ index' = [index EXCEPT ![s] = {}]
  /\ Silence(index[s])
  /\ UNCHANGED <<tickets, jobs, dropped, registered, dispatch, recorded, called>>

\* record_envelope, inbound, and acknowledge.
Acknowledge(s) ==
  /\ Remove(index[s])
  /\ Silence(index[s])
  /\ UNCHANGED <<registered, dispatch, recorded, called>>

\* schedule_calendar_hook: the event's ticket is replaced.
ScheduleHook(s, hook) ==
  /\ recorded < MaxEnvelopes
  /\ recorded' = recorded + 1
  /\ Store(hook, [session |-> s, attempt |-> 0, max |-> HookLimit, env |-> recorded + 1])
  /\ Silence({hook})
  /\ UNCHANGED <<registered, dispatch, called>>
----------------------------------------------------------------------------
(* _dispatch_ticket *)

\* The scheduler makes a task of a due job, or drops the job: while an earlier
\* task of the same id is going, or (Misfire) when the loop was late.
FireJob(id) ==
  /\ id \in jobs
  /\ jobs' = jobs \ {id}
  /\ IF dispatch[id] = Idle
     THEN /\ dispatch' = [dispatch EXCEPT ![id] = [phase |-> "ready", ticket |-> tickets[id]]]
          /\ UNCHANGED dropped
     ELSE /\ dropped' = dropped \cup {id}
          /\ UNCHANGED dispatch
  /\ UNCHANGED <<tickets, index, registered, recorded, called, silenced>>

Misfire(id) ==
  /\ id \in jobs
  /\ jobs' = jobs \ {id}
  /\ dropped' = dropped \cup {id}
  /\ UNCHANGED <<tickets, index, registered, dispatch, recorded, called, silenced>>

\* Mutant: without a callback it returns like without a ticket.
DiscardNothing(id) ==
  /\ dispatch[id].phase = "ready"
  /\ Live(id) => ~registered
  /\ dispatch' = [dispatch EXCEPT ![id] = Idle]
  /\ UNCHANGED <<tickets, index, jobs, registered, recorded, called, silenced, dropped>>

\* The task starts.  The ticket the id has by then leaves the table before its
\* callback is called; one without a callback is forgotten.
Discard(id) ==
  /\ dispatch[id].phase = "ready"
  /\ Live(id) => ~registered
  /\ dispatch' = [dispatch EXCEPT ![id] = Idle]
  /\ Remove({id})
  /\ Silence({id})
  /\ UNCHANGED <<registered, recorded, called>>

\* Mutant: the ticket is looked up again once it was removed.
CallAfterRemoval(id) ==
  /\ dispatch[id].phase = "ready"
  /\ Live(id) /\ registered
  /\ Remove({id})
  /\ dispatch' = [dispatch EXCEPT ![id] = [phase |-> "calling", ticket |-> tickets'[id]]]
  /\ called' = [called EXCEPT ![tickets[id].env] = @ + 1]
  /\ UNCHANGED <<registered, recorded, silenced>>

\* Mutant: the ticket is only removed when the callback is through.
CallBeforeRemoval(id) ==
  /\ dispatch[id].phase = "ready"
  /\ Live(id) /\ registered
  /\ dispatch' = [dispatch EXCEPT ![id] = [phase |-> "calling", ticket |-> tickets[id]]]
  /\ called' = [called EXCEPT ![tickets[id].env] = @ + 1]
  /\ UNCHANGED <<tickets, index, jobs, dropped, registered, recorded, silenced>>

CallAgent(id) ==
  /\ dispatch[id].phase = "ready"
  /\ Live(id) /\ registered
  /\ dispatch' = [dispatch EXCEPT ![id] = [phase |-> "calling", ticket |-> tickets[id]]]
  /\ called' = [called EXCEPT ![tickets[id].env] = @ + 1]
  /\ Remove({id})
  /\ UNCHANGED <<registered, recorded, silenced>>

\* The callback returned: the next attempt gets a ticket of its own.
FollowUp(id, next) ==
  LET t == dispatch[id].ticket IN
  /\ dispatch[id].phase = "calling"
  /\ t.attempt + 1 < t.max
  /\ Fresh(next)
  /\ dispatch' = [dispatch EXCEPT ![id] = Idle]
  /\ Store(next, [t EXCEPT !.attempt = @ + 1])
  /\ UNCHANGED <<registered, recorded, called, silenced>>

\* It returned for the last time, or it raised: then nothing follows.
EndChain(id) ==
  /\ dispatch[id].phase = "calling"
  /\ dispatch' = [dispatch EXCEPT ![id] = Idle]
  /\ silenced' = silenced \cup {dispatch[id].ticket.env}
  /\ UNCHANGED <<tickets, index, jobs, registered, recorded, called, dropped>>
----------------------------------------------------------------------------
Init ==
  /\ tickets = [id \in Ids |-> None]
  /\ index = [s \in Sessions |-> {}]
  /\ jobs = {}
  /\ registered = FALSE
  /\ dispatch = [id \in Ids |-> Idle]
  /\ recorded = 0
  /\ called = [e \in Envelopes |-> 0]
  /\ silenced = {}
  /\ dropped = {}

Record(s) ==
  \/ \E max \in Limits, id \in Uuids : RecordOutbound(s, max, id)
  \/ \E hook \in Hooks : ScheduleHook(s, hook)

Dispatch(id) == Discard(id) \/ CallAgent(id) \/ \E next \in Uuids : FollowUp(id, next)

Next ==
  \/ Register
  \/ \E s \in Sessions : Record(s) \/ Acknowledge(s)
  \/ \E id \in Ids : FireJob(id) \/ Misfire(id) \/ Dispatch(id) \/ EndChain(id)

\* The scheduler fires due jobs, the loop runs ready tasks, callbacks return.
Fairness ==
  \A id \in Ids :
    /\ WF_vars(FireJob(id))
    /\ WF_vars(Discard(id) \/ CallAgent(id))
    /\ WF_vars(EndChain(id) \/ \E next \in Uuids : FollowUp(id, next))

Spec == Init /\ [][Next]_vars /\ Fairness
----------------------------------------------------------------------------
(* Properties *)

\* Every variable keeps the shape the orchestrator gives it.
TypeOK ==
  /\ tickets \in [Ids -> Ticket \cup {None}]
  /\ index \in [Sessions -> SUBSET Ids]
  /\ jobs \subseteq Ids /\ dropped \subseteq Ids
  /\ registered \in BOOLEAN
  /\ dispatch \in [Ids -> Run]
  /\ recorded \in 0..MaxEnvelopes
  /\ called \in [Envelopes -> Nat]
  /\ silenced \subseteq Envelopes

\* The index lists exactly the tickets of each session, whichever of record,
\* replace, acknowledge and dispatch came last: a reply silences all of them.
IndexMirrorsTickets ==
  \A s \in Sessions : index[s] = {id \in Ids : Live(id) /\ tickets[id].session = s}

\* A ticket has a job or a task that is about to start, unless the scheduler
\* dropped the job; and no job outlives its ticket.
TicketHasDriver ==
  \A id \in Ids :
    /\ Live(id) => id \in jobs \/ dispatch[id].phase = "ready" \/ id \in dropped
    /\ id \in jobs => Live(id)

\* An envelope has one chain of follow-ups: at no time two tickets, or a ticket
\* besides the callback that will make the next one.
OneChain ==
  \A i, j \in Ids :
    /\ Live(i) /\ Live(j) /\ tickets[i].env = tickets[j].env => i = j
    /\ Live(i) => ~Calling(tickets[i].env)

\* max_attempts: "Maximum number of follow-up attempts that should be made."
AttemptsBounded ==
  /\ \A id \in Ids : Live(id) =>
       called[tickets[id].env] = tickets[id].attempt /\ tickets[id].attempt < tickets[id].max
  /\ \A id \in Ids : dispatch[id].phase = "calling" =>
       called[dispatch[id].ticket.env] <= dispatch[id].ticket.max

\* The chain of an envelope as tickets and callbacks have it: a callback that
\* runs is one of the attempts made.
Chain(env) ==
  LET running == {id \in Ids : dispatch[id].phase = "calling" /\ dispatch[id].ticket.env = env}
      stored  == {id \in Ids : Live(id) /\ tickets[id].env = env}
      t == IF running # {} THEN dispatch[CHOOSE id \in running : TRUE].ticket
                           ELSE tickets[CHOOSE id \in stored : TRUE]
  IN CASE running # {} -> [stage |-> "calling", left |-> t.max - (t.attempt + 1)]
       [] running = {} /\ stored # {} -> [stage |-> "waiting", left |-> t.max - t.attempt]
       [] running = {} /\ stored = {} ->
            [stage |-> IF env <= recorded THEN "ended" ELSE "new", left |-> 0]

Chains == INSTANCE EnvelopeChains WITH
  Limits <- Limits \cup {HookLimit},
  chain <- [env \in Envelopes |-> Chain(env)],
  calls <- called

\* Records, replies, timers and callbacks in any order amount to what the
\* abstract specification allows: one chain of calls for an envelope, one call
\* at a time, within max_attempts, and none once it ended
\* (orchestrator.py:39-186).
ImplementsChains == Chains!Spec

\* Once an envelope is acknowledged, replaced or done while no callback runs
\* for it, the agent is never called for it again.
SilencedStays ==
  [][\A e \in silenced : called'[e] = called[e]]_vars

\* Every ticket is eventually dispatched or removed, unless its job was dropped.
TicketsEnd ==
  \A id \in Ids : Live(id) ~> (~Live(id) \/ id \in dropped)
=============================================================================
