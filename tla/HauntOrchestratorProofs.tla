---------------------- MODULE HauntOrchestratorProofs ----------------------
(* What the orchestrator guarantees for any sessions, hooks, ticket ids and *)
(* limits.                                                                  *)
EXTENDS HauntOrchestrator, TLAPS

\* A ticket that is recorded, or follows up another one, is well formed.
LEMMA RecordedType ==
  ASSUME TypeOK, recorded < MaxEnvelopes, NEW s \in Sessions, NEW max \in Nat \ {0}
  PROVE  /\ recorded + 1 \in Envelopes
         /\ [session |-> s, attempt |-> 0, max |-> max, env |-> recorded + 1] \in Ticket
BY OrchestratorAssumption DEF TypeOK, Envelopes, Ticket

\* A run that is in the callback has a well-formed ticket.
LEMMA CallingType ==
  ASSUME TypeOK, NEW id \in Ids, dispatch[id].phase = "calling"
  PROVE  /\ dispatch[id].ticket \in Ticket
         /\ dispatch[id].ticket.env \in Envelopes
BY DEF TypeOK, Run, Ticket

\* The ticket of the next attempt is the old one, counted up.
LEMMA NextTicket ==
  ASSUME NEW t \in Ticket
  PROVE  LET next == [t EXCEPT !.attempt = @ + 1] IN
         /\ next \in Ticket
         /\ next.session = t.session /\ next.max = t.max /\ next.env = t.env
         /\ next.attempt = t.attempt + 1
BY DEF Ticket

\* Storing a ticket keeps the types.
LEMMA StoreType ==
  ASSUME TypeOK, NEW id \in Ids, NEW t \in Ticket, Store(id, t)
  PROVE  /\ tickets' \in [Ids -> Ticket \cup {None}]
         /\ index' \in [Sessions -> SUBSET Ids]
         /\ jobs' \subseteq Ids /\ dropped' \subseteq Ids
BY DEF Store, TypeOK

\* Removing tickets keeps the types.
LEMMA RemoveType ==
  ASSUME TypeOK, NEW ids \in SUBSET Ids, Remove(ids)
  PROVE  /\ tickets' \in [Ids -> Ticket \cup {None}]
         /\ index' \in [Sessions -> SUBSET Ids]
         /\ jobs' \subseteq Ids /\ dropped' \subseteq Ids
BY DEF Remove, TypeOK

\* Only envelopes that were recorded are silenced.
LEMMA SilenceType ==
  ASSUME TypeOK, NEW ids \in SUBSET Ids, Silence(ids)
  PROVE  silenced' \subseteq Envelopes
BY DEF Silence, TypeOK, Live, Ticket

\* What a step can do to the tickets: store one of a new envelope, remove some,
\* move one dispatch on, or leave them and the dispatches alone.
LEMMA StepKinds ==
  ASSUME TypeOK, [Next]_vars
  PROVE  \/ \E s \in Sessions, max \in Nat \ {0}, id \in Ids :
              /\ recorded < MaxEnvelopes /\ recorded' = recorded + 1
              /\ Store(id, [session |-> s, attempt |-> 0, max |-> max, env |-> recorded + 1])
              /\ Silence({id})
              /\ UNCHANGED <<registered, dispatch, called>>
         \/ \E s \in Sessions : Acknowledge(s)
         \/ \E id \in Ids : FireJob(id) \/ Misfire(id) \/ Discard(id) \/ CallAgent(id)
                              \/ EndChain(id) \/ \E next \in Uuids : FollowUp(id, next)
         \/ Register \/ UNCHANGED vars
<1>1. ASSUME NEW s \in Sessions, NEW max \in Limits, NEW id \in Uuids,
             RecordOutbound(s, max, id)
      PROVE  \E m \in Nat \ {0}, i \in Ids :
               /\ recorded < MaxEnvelopes /\ recorded' = recorded + 1
               /\ Store(i, [session |-> s, attempt |-> 0, max |-> m, env |-> recorded + 1])
               /\ Silence({i})
               /\ UNCHANGED <<registered, dispatch, called>>
  <2>1. max \in Nat \ {0} /\ id \in Ids
    BY OrchestratorAssumption DEF Ids
  <2>2. Silence({id})
    BY <1>1 DEF RecordOutbound, Fresh, Silence
  <2>. QED  BY <1>1, <2>1, <2>2 DEF RecordOutbound
<1>2. ASSUME NEW s \in Sessions, NEW hook \in Hooks, ScheduleHook(s, hook)
      PROVE  \E m \in Nat \ {0}, i \in Ids :
               /\ recorded < MaxEnvelopes /\ recorded' = recorded + 1
               /\ Store(i, [session |-> s, attempt |-> 0, max |-> m, env |-> recorded + 1])
               /\ Silence({i})
               /\ UNCHANGED <<registered, dispatch, called>>
  <2>1. HookLimit \in Nat \ {0} /\ hook \in Ids
    BY OrchestratorAssumption DEF Ids
  <2>. QED  BY <1>2, <2>1 DEF ScheduleHook
<1>. QED  BY <1>1, <1>2 DEF Next, Record, Dispatch

\* Every action of the orchestrator keeps the shape of every variable.
LEMMA TypeStep == TypeOK /\ [Next]_vars => TypeOK'
<1>. SUFFICES ASSUME TypeOK, [Next]_vars PROVE TypeOK'
  OBVIOUS
<1>1. ASSUME NEW s \in Sessions, NEW max \in Nat \ {0}, NEW id \in Ids,
             recorded < MaxEnvelopes, recorded' = recorded + 1,
             Store(id, [session |-> s, attempt |-> 0, max |-> max, env |-> recorded + 1]),
             Silence({id}), UNCHANGED <<registered, dispatch, called>>
      PROVE  TypeOK'
  <2>1. recorded' \in 0..MaxEnvelopes
    BY <1>1, OrchestratorAssumption DEF TypeOK
  <2>. QED  BY <1>1, <2>1, RecordedType, StoreType, SilenceType DEF TypeOK
<1>2. ASSUME NEW s \in Sessions, Acknowledge(s) PROVE TypeOK'
  <2>1. index[s] \in SUBSET Ids
    BY DEF TypeOK
  <2>. QED  BY <1>2, <2>1, RemoveType, SilenceType DEF Acknowledge, TypeOK
<1>3. ASSUME NEW id \in Ids, FireJob(id) PROVE TypeOK'
  <2>1. [phase |-> "ready", ticket |-> tickets[id]] \in Run
    BY DEF TypeOK, Run
  <2>. QED  BY <1>3, <2>1 DEF FireJob, TypeOK
<1>4. ASSUME NEW id \in Ids, Misfire(id) PROVE TypeOK'
  BY <1>4 DEF Misfire, TypeOK
<1>5. ASSUME NEW id \in Ids, Discard(id) PROVE TypeOK'
  <2>1. {id} \in SUBSET Ids /\ Idle \in Run
    BY DEF Idle, Run
  <2>. QED  BY <1>5, <2>1, RemoveType, SilenceType DEF Discard, TypeOK
<1>6. ASSUME NEW id \in Ids, CallAgent(id) PROVE TypeOK'
  <2>1. tickets[id] \in Ticket /\ tickets[id].env \in Envelopes
    BY <1>6 DEF CallAgent, TypeOK, Live, Ticket
  <2>2. [phase |-> "calling", ticket |-> tickets[id]] \in Run /\ {id} \in SUBSET Ids
    BY <2>1 DEF Run
  <2>3. called' \in [Envelopes -> Nat]
    BY <1>6, <2>1 DEF CallAgent, TypeOK
  <2>4. dispatch' \in [Ids -> Run]
    BY <1>6, <2>2 DEF CallAgent, TypeOK
  <2>. QED  BY <1>6, <2>2, <2>3, <2>4, RemoveType DEF CallAgent, TypeOK
<1>7. ASSUME NEW id \in Ids, EndChain(id) PROVE TypeOK'
  <2>1. Idle \in Run
    BY DEF Idle, Run
  <2>. QED  BY <1>7, <2>1, CallingType DEF EndChain, TypeOK
<1>8. ASSUME NEW id \in Ids, NEW next \in Uuids, FollowUp(id, next) PROVE TypeOK'
  <2>1. Idle \in Run /\ next \in Ids
    BY DEF Idle, Run, Ids
  <2>2. [dispatch[id].ticket EXCEPT !.attempt = @ + 1] \in Ticket
    BY <1>8, CallingType, NextTicket DEF FollowUp
  <2>. QED  BY <1>8, <2>1, <2>2, StoreType DEF FollowUp, TypeOK
<1>9. CASE Register
  BY <1>9 DEF Register, TypeOK
<1>10. CASE UNCHANGED vars
  BY <1>10 DEF vars, TypeOK
<1>. QED  BY <1>1, <1>2, <1>3, <1>4, <1>5, <1>6, <1>7, <1>8, <1>9, <1>10, StepKinds

\* Every variable keeps its shape, whatever the ids and limits.
THEOREM TypeCorrect == Spec => []TypeOK
<1>1. Init => TypeOK
  <2>. SUFFICES ASSUME Init PROVE TypeOK
    OBVIOUS
  <2>1. Idle \in Run
    BY DEF Idle, Run
  <2>2. dispatch \in [Ids -> Run]
    BY <2>1 DEF Init
  <2>3. recorded \in 0..MaxEnvelopes
    BY OrchestratorAssumption DEF Init
  <2>. QED  BY <2>2, <2>3 DEF Init, TypeOK
<1>. QED  BY <1>1, TypeStep, PTL DEF Spec
-----------------------------------------------------------------------------
\* Storing a ticket concerns the ticket of that id alone.
LEMMA StoreEffect ==
  ASSUME TypeOK, NEW id \in Ids, NEW t \in Ticket, Store(id, t)
  PROVE  /\ Live(id)' /\ tickets'[id] = t
         /\ \A i \in Ids \ {id} : tickets'[i] = tickets[i]
BY OrchestratorAssumption DEF Store, TypeOK, Live

\* Storing a ticket, over another one or not, keeps the index in line.
LEMMA StoreIndex ==
  ASSUME TypeOK, IndexMirrorsTickets, NEW id \in Ids, NEW t \in Ticket, Store(id, t)
  PROVE  IndexMirrorsTickets'
<1>. SUFFICES ASSUME NEW s \in Sessions
              PROVE  index'[s] = {i \in Ids : Live(i)' /\ tickets'[i].session = s}
  BY DEF IndexMirrorsTickets
<1>1. index'[s] = IF s = t.session THEN index[s] \cup {id} ELSE index[s] \ {id}
  BY DEF Store
<1>2. index[s] = {i \in Ids : Live(i) /\ tickets[i].session = s}
  BY DEF IndexMirrorsTickets
<1>. QED  BY <1>1, <1>2, StoreEffect DEF Live

\* So does the removal of tickets.
LEMMA RemoveIndex ==
  ASSUME TypeOK, IndexMirrorsTickets, NEW ids \in SUBSET Ids, Remove(ids)
  PROVE  IndexMirrorsTickets'
BY DEF Remove, IndexMirrorsTickets, Live

\* Every action keeps the index in line with the tickets.
LEMMA IndexStep == TypeOK /\ IndexMirrorsTickets /\ [Next]_vars => IndexMirrorsTickets'
<1>. SUFFICES ASSUME TypeOK, IndexMirrorsTickets, [Next]_vars PROVE IndexMirrorsTickets'
  OBVIOUS
<1>1. ASSUME NEW s \in Sessions, NEW max \in Nat \ {0}, NEW id \in Ids,
             recorded < MaxEnvelopes,
             Store(id, [session |-> s, attempt |-> 0, max |-> max, env |-> recorded + 1])
      PROVE  IndexMirrorsTickets'
  BY <1>1, RecordedType, StoreIndex
<1>2. ASSUME NEW s \in Sessions, Acknowledge(s) PROVE IndexMirrorsTickets'
  BY <1>2, RemoveIndex DEF Acknowledge, TypeOK
<1>3. ASSUME NEW id \in Ids, Discard(id) \/ CallAgent(id) PROVE IndexMirrorsTickets'
  <2>1. {id} \in SUBSET Ids /\ Remove({id})
    BY <1>3 DEF Discard, CallAgent
  <2>. QED  BY <2>1, RemoveIndex
<1>4. ASSUME NEW id \in Ids, NEW next \in Uuids, FollowUp(id, next) PROVE IndexMirrorsTickets'
  BY <1>4, CallingType, NextTicket, StoreIndex DEF FollowUp, Ids
<1>5. ASSUME UNCHANGED <<tickets, index>> PROVE IndexMirrorsTickets'
  BY <1>5 DEF IndexMirrorsTickets, Live
<1>. QED
  BY <1>1, <1>2, <1>3, <1>4, <1>5, StepKinds DEF FireJob, Misfire, EndChain, Register, vars

\* A reply finds every ticket of its session: the index lists exactly those.
THEOREM IndexCorrect == Spec => []IndexMirrorsTickets
<1>1. Init => IndexMirrorsTickets
  BY DEF Init, IndexMirrorsTickets, Live
<1>. QED  BY <1>1, IndexStep, TypeCorrect, PTL DEF Spec
-----------------------------------------------------------------------------
\* A stored ticket has its job, and a removed one takes its job along.
LEMMA DriverStep == TypeOK /\ TicketHasDriver /\ [Next]_vars => TicketHasDriver'
<1>. SUFFICES ASSUME TypeOK, TicketHasDriver, [Next]_vars PROVE TicketHasDriver'
  OBVIOUS
<1>1. ASSUME NEW id \in Ids, NEW t \in Ticket, Store(id, t),
             \A i \in Ids : dispatch[i].phase = "ready" => dispatch'[i].phase = "ready"
      PROVE  TicketHasDriver'
  <2>1. jobs' = jobs \cup {id} /\ dropped' = dropped \ {id}
    BY <1>1 DEF Store
  <2>. QED  BY <1>1, <2>1, StoreEffect DEF TicketHasDriver, Live
<1>2. ASSUME NEW ids \in SUBSET Ids, Remove(ids),
             \A i \in Ids \ ids : dispatch'[i] = dispatch[i]
      PROVE  TicketHasDriver'
  BY <1>2 DEF Remove, TicketHasDriver, Live
<1>3. ASSUME NEW s \in Sessions, NEW max \in Nat \ {0}, NEW id \in Ids,
             recorded < MaxEnvelopes, UNCHANGED dispatch,
             Store(id, [session |-> s, attempt |-> 0, max |-> max, env |-> recorded + 1])
      PROVE  TicketHasDriver'
  BY <1>1, <1>3, RecordedType
<1>4. ASSUME NEW s \in Sessions, Acknowledge(s) PROVE TicketHasDriver'
  BY <1>2, <1>4 DEF Acknowledge, TypeOK
<1>5. ASSUME NEW id \in Ids, Discard(id) \/ CallAgent(id) PROVE TicketHasDriver'
  <2>1. Remove({id}) /\ \A i \in Ids \ {id} : dispatch'[i] = dispatch[i]
    BY <1>5 DEF Discard, CallAgent, TypeOK
  <2>. QED  BY <1>2, <2>1
<1>6. ASSUME NEW id \in Ids, NEW next \in Uuids, FollowUp(id, next) PROVE TicketHasDriver'
  <2>1. \A i \in Ids : dispatch[i].phase = "ready" => dispatch'[i].phase = "ready"
    BY <1>6 DEF FollowUp, TypeOK
  <2>. QED  BY <1>1, <1>6, <2>1, CallingType, NextTicket DEF FollowUp, Ids
<1>7. ASSUME NEW id \in Ids, FireJob(id) PROVE TicketHasDriver'
  BY <1>7 DEF FireJob, TicketHasDriver, Live, TypeOK
<1>8. ASSUME NEW id \in Ids, Misfire(id) PROVE TicketHasDriver'
  BY <1>8 DEF Misfire, TicketHasDriver, Live
<1>9. ASSUME NEW id \in Ids, EndChain(id) PROVE TicketHasDriver'
  BY <1>9 DEF EndChain, TicketHasDriver, Live, TypeOK
<1>10. ASSUME UNCHANGED <<tickets, jobs, dispatch, dropped>> PROVE TicketHasDriver'
  BY <1>10 DEF TicketHasDriver, Live
<1>. QED
  BY <1>3, <1>4, <1>5, <1>6, <1>7, <1>8, <1>9, <1>10, StepKinds DEF Register, vars

\* No ticket is left without a job, a task about to start, or a dropped job.
THEOREM DriverCorrect == Spec => []TicketHasDriver
<1>1. Init => TicketHasDriver
  BY DEF Init, TicketHasDriver, Live
<1>. QED  BY <1>1, DriverStep, TypeCorrect, PTL DEF Spec
-----------------------------------------------------------------------------
(* Chains of attempts *)

\* Where the chain of an envelope is, if it goes on: in a ticket or a callback.
Held(env) == (\E id \in Ids : Live(id) /\ tickets[id].env = env) \/ Calling(env)

\* No two callbacks make the next ticket of one envelope.
OneCall ==
  \A i, j \in Ids :
    /\ dispatch[i].phase = "calling" /\ dispatch[j].phase = "calling"
    /\ dispatch[i].ticket.env = dispatch[j].ticket.env
    => i = j

\* A ticket counts the callbacks before it, a running callback itself as well.
Counted ==
  /\ \A id \in Ids : Live(id) =>
       called[tickets[id].env] = tickets[id].attempt /\ tickets[id].attempt < tickets[id].max
  /\ \A id \in Ids : dispatch[id].phase = "calling" =>
       /\ called[dispatch[id].ticket.env] = dispatch[id].ticket.attempt + 1
       /\ dispatch[id].ticket.attempt < dispatch[id].ticket.max

\* Envelopes still to be recorded have no chain, no callback, no end; and a
\* chain that ended is not held anywhere.
Unrecorded ==
  \A env \in Envelopes :
    /\ env > recorded => ~Held(env) /\ called[env] = 0 /\ env \notin silenced
    /\ env \in silenced => ~Held(env)

\* The inductive invariant on chains.  OneChain alone is not inductive: a
\* second callback, or an unrecorded envelope in use, would break it next.
ChainInv == OneChain /\ OneCall /\ Counted /\ Unrecorded

\* A new envelope starts a chain, and ends the one whose ticket it replaces.
LEMMA ChainRecord ==
  ASSUME TypeOK, ChainInv, NEW s \in Sessions, NEW max \in Nat \ {0}, NEW id \in Ids,
         recorded < MaxEnvelopes, recorded' = recorded + 1,
         Store(id, [session |-> s, attempt |-> 0, max |-> max, env |-> recorded + 1]),
         Silence({id}), UNCHANGED <<registered, dispatch, called>>
  PROVE  ChainInv'
<1>. DEFINE new == recorded + 1
            t == [session |-> s, attempt |-> 0, max |-> max, env |-> new]
<1>1. new \in Envelopes /\ t \in Ticket
  BY RecordedType
<1>2. /\ Live(id)' /\ tickets'[id] = t
      /\ \A i \in Ids \ {id} : tickets'[i] = tickets[i]
  BY <1>1, StoreEffect
<1>3. t.env = new /\ t.attempt = 0 /\ t.max = max /\ recorded \in Nat
  BY DEF TypeOK
<1>. HIDE DEF t
<1>4. ~Held(new) /\ called[new] = 0 /\ new \notin silenced
  BY <1>1, <1>3 DEF ChainInv, Unrecorded
<1>5. OneChain'
  BY <1>2, <1>3, <1>4 DEF ChainInv, OneChain, Held, Live, Calling
<1>6. OneCall'
  BY DEF ChainInv, OneCall
<1>7. Counted'
  BY <1>2, <1>3, <1>4 DEF ChainInv, Counted, Live
<1>8. silenced' \subseteq silenced \cup {e \in Envelopes : Live(id) /\ e = tickets[id].env}
  BY DEF Silence, TypeOK, Ticket, Live
<1>9. ASSUME NEW env \in Envelopes
      PROVE  /\ env > recorded' => ~Held(env)' /\ called'[env] = 0 /\ env \notin silenced'
             /\ env \in silenced' => ~Held(env)'
  <2>1. Held(env)' => env = new \/ Held(env)
    BY <1>2, <1>3 DEF Held, Live, Calling
  <2>2. env > recorded' => env > recorded /\ env # new
    BY <1>3 DEF Envelopes
  <2>3. Live(id) /\ env = tickets[id].env => env # new /\ ~(env > recorded) /\ ~Held(env)'
    BY <1>1, <1>2, <1>3, <1>4 DEF ChainInv, Unrecorded, OneChain, Held, Live, Calling
  <2>. QED  BY <1>4, <1>8, <2>1, <2>2, <2>3 DEF ChainInv, Unrecorded
<1>. QED  BY <1>5, <1>6, <1>7, <1>9 DEF ChainInv, Unrecorded

\* The removal of tickets ends their chains, and no others.
LEMMA ChainRemove ==
  ASSUME TypeOK, ChainInv, NEW ids \in SUBSET Ids, Remove(ids), Silence(ids),
         UNCHANGED <<recorded, called>>,
         \A i \in Ids : dispatch'[i].phase = "calling" => dispatch'[i] = dispatch[i]
  PROVE  ChainInv'
<1>1. \A i \in Ids : Live(i)' => Live(i) /\ tickets'[i] = tickets[i] /\ i \notin ids
  BY DEF Remove, Live
<1>2. OneChain'
  BY <1>1 DEF ChainInv, OneChain, Calling
<1>3. OneCall'
  BY DEF ChainInv, OneCall
<1>4. Counted'
  BY <1>1 DEF ChainInv, Counted
<1>5. ASSUME NEW env \in Envelopes
      PROVE  /\ env > recorded' => ~Held(env)' /\ called'[env] = 0 /\ env \notin silenced'
             /\ env \in silenced' => ~Held(env)'
  <2>1. Held(env)' => Held(env)
    BY <1>1 DEF Held, Calling
  <2>2. env \in silenced' => env \in silenced \/ \E i \in ids : Live(i) /\ tickets[i].env = env
    BY DEF Silence
  <2>3. ASSUME NEW i \in ids, Live(i), tickets[i].env = env
        PROVE  Held(env) /\ ~Held(env)'
    BY <1>1, <2>3 DEF ChainInv, OneChain, Held, Calling
  <2>. QED  BY <2>1, <2>2, <2>3 DEF ChainInv, Unrecorded
<1>. QED  BY <1>2, <1>3, <1>4, <1>5 DEF ChainInv, Unrecorded

\* A chain passes from its ticket to the callback.
LEMMA ChainCall ==
  ASSUME TypeOK, ChainInv, NEW id \in Ids, CallAgent(id)
  PROVE  ChainInv'
<1>. DEFINE t == tickets[id]
<1>1. Live(id) /\ t \in Ticket /\ t.env \in Envelopes /\ t.attempt \in Nat
  BY DEF CallAgent, TypeOK, Live, Ticket
<1>2. \A i \in Ids : Live(i)' => Live(i) /\ tickets'[i] = tickets[i] /\ i # id
  BY DEF CallAgent, Remove, Live
<1>3. /\ dispatch'[id].phase = "calling" /\ dispatch'[id].ticket = t
      /\ \A i \in Ids \ {id} : dispatch'[i] = dispatch[i]
      /\ dispatch[id].phase # "calling"
  BY DEF CallAgent, TypeOK
<1>4. /\ called'[t.env] = called[t.env] + 1
      /\ \A e \in Envelopes \ {t.env} : called'[e] = called[e]
      /\ called[t.env] = t.attempt /\ t.attempt < t.max
  BY <1>1 DEF CallAgent, TypeOK, ChainInv, Counted
<1>5. ~Calling(t.env) /\ \A i \in Ids : Live(i) /\ tickets[i].env = t.env => i = id
  BY <1>1 DEF ChainInv, OneChain
<1>6. \A i \in Ids : Live(i) => tickets[i].env \in Envelopes
  BY DEF TypeOK, Live, Ticket
<1>7. \A i \in Ids : dispatch[i].phase = "calling" => dispatch[i].ticket.env \in Envelopes
  BY CallingType
<1>. HIDE DEF t
<1>8. OneChain'
  BY <1>2, <1>3, <1>5 DEF ChainInv, OneChain, Calling
<1>9. OneCall'
  BY <1>3, <1>5 DEF ChainInv, OneCall, Calling
<1>10. Counted'
  <2>1. ASSUME NEW i \in Ids, Live(i)'
        PROVE  called'[tickets'[i].env] = tickets'[i].attempt
               /\ tickets'[i].attempt < tickets'[i].max
    BY <1>2, <1>4, <1>5, <1>6, <2>1 DEF ChainInv, Counted
  <2>2. ASSUME NEW i \in Ids, dispatch'[i].phase = "calling"
        PROVE  /\ called'[dispatch'[i].ticket.env] = dispatch'[i].ticket.attempt + 1
               /\ dispatch'[i].ticket.attempt < dispatch'[i].ticket.max
    <3>1. CASE i = id
      BY <1>3, <1>4, <3>1
    <3>2. CASE i # id
      BY <1>3, <1>4, <1>5, <1>7, <2>2, <3>2 DEF ChainInv, Counted, Calling
    <3>. QED  BY <3>1, <3>2
  <2>. QED  BY <2>1, <2>2 DEF Counted
<1>11. ASSUME NEW env \in Envelopes PROVE Held(env)' => Held(env)
  <2>1. Calling(env)' => env = t.env \/ Calling(env)
    BY <1>3 DEF Calling
  <2>2. Held(t.env)
    BY <1>1 DEF Held, t
  <2>. QED  BY <1>2, <2>1, <2>2 DEF Held
<1>12. ASSUME NEW env \in Envelopes
       PROVE  /\ env > recorded => ~Held(env) /\ called'[env] = 0 /\ env \notin silenced
              /\ env \in silenced => ~Held(env)
  <2>1. Held(t.env)
    BY <1>1 DEF Held, t
  <2>2. env > recorded => env # t.env
    BY <2>1 DEF ChainInv, Unrecorded
  <2>. QED  BY <1>4, <2>2 DEF ChainInv, Unrecorded
<1>13. UNCHANGED <<recorded, silenced>>
  BY DEF CallAgent
<1>14. Unrecorded'
  BY <1>11, <1>12, <1>13 DEF Unrecorded
<1>. QED  BY <1>8, <1>9, <1>10, <1>14 DEF ChainInv

\* A chain passes from the callback to the next ticket.
LEMMA ChainFollow ==
  ASSUME TypeOK, ChainInv, NEW id \in Ids, NEW next \in Uuids, FollowUp(id, next)
  PROVE  ChainInv'
<1>. DEFINE t == dispatch[id].ticket
            u == [t EXCEPT !.attempt = @ + 1]
<1>1. /\ t \in Ticket /\ t.env \in Envelopes /\ next \in Ids
      /\ dispatch[id].phase = "calling" /\ t.attempt + 1 < t.max
  BY CallingType DEF FollowUp, Ids
<1>2. u \in Ticket /\ u.env = t.env /\ u.max = t.max /\ u.attempt = t.attempt + 1
  BY <1>1, NextTicket
<1>3. /\ Live(next)' /\ tickets'[next] = u
      /\ \A i \in Ids \ {next} : tickets'[i] = tickets[i]
  BY <1>1, <1>2, StoreEffect DEF FollowUp
<1>4. /\ dispatch'[id].phase # "calling"
      /\ \A i \in Ids \ {id} : dispatch'[i] = dispatch[i]
      /\ UNCHANGED <<recorded, called, silenced>>
  BY DEF FollowUp, TypeOK, Idle
<1>5. /\ Calling(t.env) /\ called[t.env] = t.attempt + 1
      /\ \A i \in Ids : dispatch[i].phase = "calling" /\ dispatch[i].ticket.env = t.env => i = id
  BY <1>1 DEF ChainInv, Counted, OneCall, Calling
<1>. HIDE DEF t, u
<1>6. \A i \in Ids : Live(i) => tickets[i].env # t.env
  BY <1>5 DEF ChainInv, OneChain
<1>7. OneChain'
  BY <1>2, <1>3, <1>4, <1>5, <1>6 DEF ChainInv, OneChain, Calling, Live
<1>8. OneCall'
  BY <1>4 DEF ChainInv, OneCall
<1>9. Counted'
  BY <1>1, <1>2, <1>3, <1>4, <1>5 DEF ChainInv, Counted, Live
<1>10. ASSUME NEW env \in Envelopes PROVE Held(env)' => Held(env)
  BY <1>2, <1>3, <1>4, <1>5 DEF Held, Calling, Live
<1>11. Unrecorded'
  BY <1>4, <1>10 DEF ChainInv, Unrecorded
<1>. QED  BY <1>7, <1>8, <1>9, <1>11 DEF ChainInv

\* A chain that ends with its callback is held nowhere.
LEMMA ChainEnd ==
  ASSUME TypeOK, ChainInv, NEW id \in Ids, EndChain(id)
  PROVE  ChainInv'
<1>. DEFINE t == dispatch[id].ticket
<1>1. t.env \in Envelopes /\ dispatch[id].phase = "calling"
  BY CallingType DEF EndChain
<1>2. /\ dispatch'[id].phase # "calling"
      /\ \A i \in Ids \ {id} : dispatch'[i] = dispatch[i]
      /\ UNCHANGED <<tickets, recorded, called>>
      /\ silenced' = silenced \cup {t.env}
  BY DEF EndChain, TypeOK, Idle
<1>3. /\ Calling(t.env)
      /\ \A i \in Ids : dispatch[i].phase = "calling" /\ dispatch[i].ticket.env = t.env => i = id
  BY <1>1 DEF ChainInv, OneCall, Calling
<1>. HIDE DEF t
<1>4. OneChain' /\ OneCall' /\ Counted'
  BY <1>2 DEF ChainInv, OneChain, OneCall, Counted, Calling, Live
<1>5. ASSUME NEW env \in Envelopes PROVE Held(env)' => Held(env) /\ env # t.env
  BY <1>2, <1>3 DEF Held, Calling, Live, ChainInv, OneChain
<1>6. ~(t.env > recorded)
  BY <1>1, <1>3 DEF ChainInv, Unrecorded, Held
<1>7. Unrecorded'
  BY <1>2, <1>5, <1>6 DEF ChainInv, Unrecorded
<1>. QED  BY <1>4, <1>7 DEF ChainInv

\* Every action keeps the invariant on chains.
LEMMA ChainStep == TypeOK /\ ChainInv /\ [Next]_vars => ChainInv'
<1>. SUFFICES ASSUME TypeOK, ChainInv, [Next]_vars PROVE ChainInv'
  OBVIOUS
<1>1. ASSUME NEW s \in Sessions, Acknowledge(s) PROVE ChainInv'
  BY <1>1, ChainRemove DEF Acknowledge, TypeOK
<1>2. ASSUME NEW id \in Ids, Discard(id) PROVE ChainInv'
  <2>1. \A i \in Ids : dispatch'[i].phase = "calling" => dispatch'[i] = dispatch[i]
    BY <1>2 DEF Discard, TypeOK, Idle
  <2>. QED  BY <1>2, <2>1, ChainRemove DEF Discard
<1>3. ASSUME UNCHANGED <<tickets, recorded, called, silenced>>,
             \A i \in Ids : \/ dispatch'[i] = dispatch[i]
                            \/ dispatch'[i].phase # "calling" /\ dispatch[i].phase # "calling"
      PROVE  ChainInv'
  BY <1>3 DEF ChainInv, OneChain, OneCall, Counted, Unrecorded, Held, Calling, Live
<1>4. ASSUME NEW id \in Ids, FireJob(id) PROVE ChainInv'
  BY <1>3, <1>4 DEF FireJob, TypeOK, Idle
<1>. QED
  BY <1>1, <1>2, <1>3, <1>4, ChainRecord, ChainCall, ChainFollow, ChainEnd, StepKinds
     DEF Misfire, Register, vars

\* The invariant on chains holds at all times.
THEOREM ChainsCorrect == Spec => []ChainInv
<1>1. Init => ChainInv
  BY DEF Init, ChainInv, OneChain, OneCall, Counted, Unrecorded, Held, Calling, Live, Idle
<1>. QED  BY <1>1, ChainStep, TypeCorrect, PTL DEF Spec

\* No envelope is ever followed up by two chains of tickets and callbacks.
THEOREM OneChainCorrect == Spec => []OneChain
BY ChainsCorrect, PTL DEF ChainInv

\* No envelope is followed up more often than its max_attempts.
THEOREM AttemptsCorrect == Spec => []AttemptsBounded
<1>1. TypeOK /\ ChainInv => AttemptsBounded
  <2>. SUFFICES ASSUME TypeOK, ChainInv PROVE AttemptsBounded
    OBVIOUS
  <2>1. ASSUME NEW id \in Ids, dispatch[id].phase = "calling"
        PROVE  called[dispatch[id].ticket.env] <= dispatch[id].ticket.max
    BY <2>1, CallingType DEF ChainInv, Counted, Ticket
  <2>. QED  BY <2>1 DEF ChainInv, Counted, AttemptsBounded
<1>. QED  BY <1>1, TypeCorrect, ChainsCorrect, PTL

\* An acknowledged, replaced or finished envelope is never followed up again.
THEOREM SilencedCorrect == Spec => SilencedStays
<1>1. TypeOK /\ ChainInv /\ [Next]_vars => [\A e \in silenced : called'[e] = called[e]]_vars
  <2>. SUFFICES ASSUME TypeOK, ChainInv, [Next]_vars, NEW e \in silenced
                PROVE  called'[e] = called[e]
    OBVIOUS
  <2>1. ASSUME NEW id \in Ids, CallAgent(id) PROVE called'[e] = called[e]
    <3>1. Live(id) /\ tickets[id].env \in Envelopes
      BY <2>1 DEF CallAgent, TypeOK, Live, Ticket
    <3>2. tickets[id].env \notin silenced
      BY <3>1 DEF ChainInv, Unrecorded, Held
    <3>. QED  BY <2>1, <3>2 DEF CallAgent, TypeOK
  <2>2. UNCHANGED called \/ \E id \in Ids : CallAgent(id)
    BY StepKinds DEF Acknowledge, FireJob, Misfire, Discard, EndChain, FollowUp, Register, vars
  <2>. QED  BY <2>1, <2>2
<1>. QED  BY <1>1, TypeCorrect, ChainsCorrect, PTL DEF Spec, SilencedStays
-----------------------------------------------------------------------------
(* The orchestrator implements EnvelopeChains *)

\* What the refinement mapping gives for an envelope with a ticket, with a
\* callback, and with neither.
Shown ==
  /\ \A id \in Ids, env \in Envelopes : Live(id) /\ tickets[id].env = env =>
       Chain(env) = [stage |-> "waiting", left |-> tickets[id].max - tickets[id].attempt]
  /\ \A id \in Ids, env \in Envelopes :
       dispatch[id].phase = "calling" /\ dispatch[id].ticket.env = env =>
       Chain(env) =
         [stage |-> "calling", left |-> dispatch[id].ticket.max - (dispatch[id].ticket.attempt + 1)]
  /\ \A env \in Envelopes : ~Held(env) =>
       Chain(env) = IF env <= recorded THEN Chains!Ended ELSE Chains!New

\* The mapping's choices are of the only ticket, or callback, there is.
LEMMA ChainShown == ChainInv => Shown
<1>. SUFFICES ASSUME ChainInv PROVE Shown
  OBVIOUS
<1>1. ASSUME NEW id \in Ids, NEW env \in Envelopes, Live(id), tickets[id].env = env
      PROVE  Chain(env) =
               [stage |-> "waiting", left |-> tickets[id].max - tickets[id].attempt]
  <2>. DEFINE running == {i \in Ids : dispatch[i].phase = "calling" /\ dispatch[i].ticket.env = env}
              stored == {i \in Ids : Live(i) /\ tickets[i].env = env}
  <2>1. running = {}
    BY <1>1 DEF ChainInv, OneChain, Calling
  <2>2. stored = {id}
    BY <1>1 DEF ChainInv, OneChain
  <2>3. (CHOOSE i \in stored : TRUE) = id
    BY <2>2
  <2>. QED  BY <2>1, <2>2, <2>3 DEF Chain
<1>2. ASSUME NEW id \in Ids, NEW env \in Envelopes,
             dispatch[id].phase = "calling", dispatch[id].ticket.env = env
      PROVE  Chain(env) =
               [stage |-> "calling",
                left |-> dispatch[id].ticket.max - (dispatch[id].ticket.attempt + 1)]
  <2>. DEFINE running == {i \in Ids : dispatch[i].phase = "calling" /\ dispatch[i].ticket.env = env}
  <2>1. running = {id}
    BY <1>2 DEF ChainInv, OneCall
  <2>2. (CHOOSE i \in running : TRUE) = id
    BY <2>1
  <2>. QED  BY <2>1, <2>2 DEF Chain
<1>3. ASSUME NEW env \in Envelopes, ~Held(env)
      PROVE  Chain(env) = IF env <= recorded THEN Chains!Ended ELSE Chains!New
  <2>1. {i \in Ids : dispatch[i].phase = "calling" /\ dispatch[i].ticket.env = env} = {}
    BY <1>3 DEF Held, Calling
  <2>2. {i \in Ids : Live(i) /\ tickets[i].env = env} = {}
    BY <1>3 DEF Held
  <2>. QED  BY <2>1, <2>2 DEF Chain, Chains!Ended, Chains!New
<1>. QED  BY <1>1, <1>2, <1>3 DEF Shown

\* An envelope whose ticket, callback or lack of both stays, stays where it is.
LEMMA ChainStays ==
  ASSUME Shown, Shown', NEW env \in Envelopes,
         \/ \E id \in Ids : Live(id) /\ Live(id)' /\ tickets'[id] = tickets[id]
                            /\ tickets[id].env = env
         \/ \E id \in Ids : dispatch[id].phase = "calling" /\ dispatch'[id] = dispatch[id]
                            /\ dispatch[id].ticket.env = env
         \/ ~Held(env) /\ ~Held(env)' /\ (env <= recorded <=> env <= recorded')
  PROVE  Chain(env)' = Chain(env)
BY DEF Shown, Chains!Ended, Chains!New

\* Recording an envelope starts its chain, and ends that of the ticket it
\* replaces.
LEMMA RecordShown ==
  ASSUME TypeOK, ChainInv, Shown, Shown',
         NEW s \in Sessions, NEW max \in Limits \cup {HookLimit}, NEW id \in Ids,
         recorded < MaxEnvelopes, recorded' = recorded + 1,
         Store(id, [session |-> s, attempt |-> 0, max |-> max, env |-> recorded + 1]),
         UNCHANGED <<dispatch, called>>
  PROVE  Chains!Next
<1>. PICK new \in Envelopes : new = recorded + 1
  BY OrchestratorAssumption DEF TypeOK, Envelopes
<1>. DEFINE t == [session |-> s, attempt |-> 0, max |-> max, env |-> new]
            es == {e \in Envelopes : Live(id) /\ e = tickets[id].env}
<1>1. new \in Envelopes /\ t \in Ticket /\ max \in Nat
  BY RecordedType, OrchestratorAssumption
<1>2. /\ Live(id)' /\ tickets'[id] = t
      /\ \A i \in Ids \ {id} : tickets'[i] = tickets[i]
  BY <1>1, StoreEffect
<1>3. t.env = new /\ t.attempt = 0 /\ t.max = max /\ recorded \in Nat
  BY DEF TypeOK
<1>. HIDE DEF t
<1>4. ~Held(new) /\ ~(new <= recorded)
  BY <1>1, <1>3 DEF ChainInv, Unrecorded
<1>5. Chain(new) = Chains!New
  BY <1>1, <1>4 DEF Shown
<1>6. Chain(new)' = [stage |-> "waiting", left |-> max]
  <2>1. Chain(new)' = [stage |-> "waiting", left |-> max - 0]
    BY <1>2, <1>3 DEF Shown
  <2>. QED  BY <1>1, <2>1
<1>7. ASSUME NEW e \in es
      PROVE  Chain(e).stage = "waiting" /\ e # new /\ Chain(e)' = Chains!Ended
  <2>1. Live(id) /\ e = tickets[id].env /\ e \in Envelopes
    OBVIOUS
  <2>2. Held(e) /\ e # new
    BY <1>4, <2>1 DEF Held
  <2>3. ~Held(e)'
    BY <1>2, <1>3, <2>1, <2>2 DEF ChainInv, OneChain, Held, Live, Calling
  <2>4. e <= recorded'
    BY <1>3, <2>1, <2>2 DEF ChainInv, Unrecorded, Envelopes
  <2>. QED  BY <2>1, <2>2, <2>3, <2>4 DEF Shown
<1>8. ASSUME NEW e \in Envelopes, e # new, e \notin es
      PROVE  Chain(e)' = Chain(e)
  <2>1. e <= recorded <=> e <= recorded'
    BY <1>3, <1>8 DEF Envelopes
  <2>2. CASE Held(e)
    <3>1. CASE Calling(e)
      BY <3>1, ChainStays DEF Calling
    <3>2. ASSUME NEW i \in Ids, Live(i), tickets[i].env = e PROVE Chain(e)' = Chain(e)
      <4>1. i # id /\ tickets'[i] = tickets[i] /\ Live(i)'
        BY <1>2, <1>8, <3>2 DEF Live
      <4>. QED  BY <3>2, <4>1, ChainStays
    <3>. QED  BY <2>2, <3>1, <3>2 DEF Held
  <2>3. CASE ~Held(e)
    <3>1. ~Held(e)'
      BY <1>2, <1>3, <1>8, <2>3 DEF Held, Live, Calling
    <3>. QED  BY <2>1, <2>3, <3>1, ChainStays
  <2>. QED  BY <2>2, <2>3
<1>9. es \in SUBSET Envelopes
  OBVIOUS
<1>. HIDE DEF es
<1>10. Chains!Record(new, max, es)
  BY <1>1, <1>5, <1>6, <1>7, <1>8, <1>9 DEF Chains!Record
<1>. QED  BY <1>1, <1>9, <1>10 DEF Chains!Next

\* Removed tickets end the chains of their envelopes, and no others.
LEMMA RemoveShown ==
  ASSUME TypeOK, ChainInv, Shown, Shown', NEW ids \in SUBSET Ids, Remove(ids),
         UNCHANGED <<recorded, called>>,
         \A i \in Ids : \/ dispatch'[i] = dispatch[i]
                        \/ dispatch'[i].phase # "calling" /\ dispatch[i].phase # "calling"
  PROVE  Chains!Next
<1>. DEFINE es == {e \in Envelopes : \E i \in ids : Live(i) /\ e = tickets[i].env}
<1>1. \A i \in Ids : Live(i)' <=> Live(i) /\ i \notin ids
  BY DEF Remove, Live
<1>2. \A i \in Ids \ ids : tickets'[i] = tickets[i]
  BY DEF Remove
<1>3. ASSUME NEW e \in Envelopes PROVE Calling(e)' <=> Calling(e)
  BY DEF Calling
<1>4. ASSUME NEW e \in es
      PROVE  Chain(e).stage = "waiting" /\ Chain(e)' = Chains!Ended
  <2>1. PICK i \in ids : Live(i) /\ e = tickets[i].env
    OBVIOUS
  <2>2. Held(e) /\ Chain(e).stage = "waiting"
    BY <2>1 DEF Held, Shown
  <2>3. ~Held(e)'
    BY <1>1, <1>2, <1>3, <2>1 DEF ChainInv, OneChain, Held
  <2>4. recorded \in Nat /\ e <= recorded'
    BY <2>2 DEF ChainInv, Unrecorded, Envelopes, TypeOK
  <2>. QED  BY <2>2, <2>3, <2>4 DEF Shown
<1>5. ASSUME NEW e \in Envelopes, e \notin es PROVE Chain(e)' = Chain(e)
  <2>1. CASE Calling(e)
    <3>1. PICK i \in Ids : dispatch[i].phase = "calling" /\ dispatch[i].ticket.env = e
      BY <2>1 DEF Calling
    <3>2. dispatch'[i] = dispatch[i]
      BY <3>1
    <3>. QED  BY <3>1, <3>2, ChainStays
  <2>2. ASSUME NEW i \in Ids, Live(i), tickets[i].env = e PROVE Chain(e)' = Chain(e)
    <3>1. i \notin ids
      BY <1>5, <2>2
    <3>. QED  BY <1>1, <1>2, <2>2, <3>1, ChainStays
  <2>3. CASE ~Held(e)
    <3>1. ~Held(e)'
      BY <1>1, <1>2, <1>3, <2>3 DEF Held
    <3>. QED  BY <2>3, <3>1, ChainStays
  <2>. QED  BY <2>1, <2>2, <2>3 DEF Held
<1>6. es \in SUBSET Envelopes
  OBVIOUS
<1>. HIDE DEF es
<1>7. Chains!Silenced(es)
  BY <1>4, <1>5, <1>6 DEF Chains!Silenced
<1>. QED  BY <1>6, <1>7 DEF Chains!Next

\* The callback takes its envelope from waiting to calling, and one of its calls.
LEMMA CallShown ==
  ASSUME TypeOK, ChainInv, Shown, Shown', NEW id \in Ids, CallAgent(id)
  PROVE  Chains!Next
<1>. PICK env \in Envelopes : env = tickets[id].env
  BY DEF CallAgent, TypeOK, Live, Ticket
<1>. DEFINE t == tickets[id]
<1>1. Live(id) /\ t \in Ticket /\ t.env = env /\ t.attempt \in Nat /\ t.max \in Nat
  BY DEF CallAgent, TypeOK, Live, Ticket
<1>2. \A i \in Ids \ {id} : (Live(i)' <=> Live(i)) /\ tickets'[i] = tickets[i]
  BY DEF CallAgent, Remove, Live
<1>3. /\ dispatch'[id] = [phase |-> "calling", ticket |-> t]
      /\ \A i \in Ids \ {id} : dispatch'[i] = dispatch[i]
      /\ dispatch[id].phase # "calling" /\ ~Live(id)'
      /\ called' = [called EXCEPT ![env] = @ + 1] /\ UNCHANGED recorded
  BY DEF CallAgent, Remove, Live, TypeOK
<1>4. Chain(env) = [stage |-> "waiting", left |-> t.max - t.attempt]
  BY <1>1 DEF Shown
<1>5. Chain(env)' = [stage |-> "calling", left |-> t.max - (t.attempt + 1)]
  BY <1>3 DEF Shown
<1>6. t.max - (t.attempt + 1) = (t.max - t.attempt) - 1
  BY <1>1
<1>7. \A i \in Ids : Live(i) /\ tickets[i].env = env => i = id
  BY <1>1 DEF ChainInv, OneChain
<1>. HIDE DEF t
<1>8. ASSUME NEW e \in Envelopes, e # env PROVE Chain(e)' = Chain(e)
  <2>1. CASE Calling(e)
    <3>1. PICK i \in Ids : dispatch[i].phase = "calling" /\ dispatch[i].ticket.env = e
      BY <2>1 DEF Calling
    <3>2. dispatch'[i] = dispatch[i]
      BY <1>3, <3>1
    <3>. QED  BY <3>1, <3>2, ChainStays
  <2>2. ASSUME NEW i \in Ids, Live(i), tickets[i].env = e PROVE Chain(e)' = Chain(e)
    <3>1. i # id
      BY <1>8, <2>2 DEF t
    <3>. QED  BY <1>2, <2>2, <3>1, ChainStays
  <2>3. CASE ~Held(e)
    <3>1. ~Held(e)'
      BY <1>2, <1>3, <1>8, <2>3 DEF Held, Calling, t
    <3>. QED  BY <1>3, <2>3, <3>1, ChainStays
  <2>. QED  BY <2>1, <2>2, <2>3 DEF Held
<1>9. Chains!Call(env)
  BY <1>1, <1>3, <1>4, <1>5, <1>6, <1>8 DEF Chains!Call
<1>. QED  BY <1>1, <1>9 DEF Chains!Next

\* A callback that returns has its envelope wait for the next call, if it has
\* any left.
LEMMA FollowShown ==
  ASSUME TypeOK, ChainInv, Shown, Shown', NEW id \in Ids, NEW next \in Uuids,
         FollowUp(id, next)
  PROVE  Chains!Next
<1>. PICK env \in Envelopes : env = dispatch[id].ticket.env
  BY CallingType DEF FollowUp
<1>. DEFINE t == dispatch[id].ticket
            u == [t EXCEPT !.attempt = @ + 1]
<1>1. /\ t \in Ticket /\ t.env = env /\ t.attempt \in Nat /\ t.max \in Nat /\ next \in Ids
      /\ dispatch[id].phase = "calling" /\ t.attempt + 1 < t.max /\ Store(next, u)
      /\ ~Live(next)
  BY CallingType DEF FollowUp, Fresh, Ids, Ticket
<1>2. u \in Ticket /\ u.env = env /\ u.max = t.max /\ u.attempt = t.attempt + 1
  BY <1>1, NextTicket
<1>3. /\ Live(next)' /\ tickets'[next] = u
      /\ \A i \in Ids \ {next} : tickets'[i] = tickets[i]
  BY <1>1, <1>2, StoreEffect
<1>4. /\ dispatch'[id].phase # "calling"
      /\ \A i \in Ids \ {id} : dispatch'[i] = dispatch[i]
      /\ UNCHANGED <<recorded, called>>
  BY DEF FollowUp, TypeOK, Idle
<1>5. \A i \in Ids : dispatch[i].phase = "calling" /\ dispatch[i].ticket.env = env => i = id
  BY <1>1 DEF ChainInv, OneCall
<1>6. Chain(env) = [stage |-> "calling", left |-> t.max - (t.attempt + 1)]
  BY <1>1 DEF Shown
<1>. HIDE DEF u
<1>7. Chain(env)' = [stage |-> "waiting", left |-> t.max - (t.attempt + 1)]
  BY <1>1, <1>2, <1>3 DEF Shown
<1>. HIDE DEF t
<1>8. t.max - (t.attempt + 1) > 0
  BY <1>1
<1>9. ASSUME NEW e \in Envelopes, e # env PROVE Chain(e)' = Chain(e)
  <2>1. ASSUME NEW i \in Ids, dispatch[i].phase = "calling", dispatch[i].ticket.env = e
        PROVE  Chain(e)' = Chain(e)
    <3>1. dispatch'[i] = dispatch[i]
      BY <1>1, <1>4, <1>9, <2>1 DEF t
    <3>. QED  BY <2>1, <3>1, ChainStays
  <2>2. ASSUME NEW i \in Ids, Live(i), tickets[i].env = e PROVE Chain(e)' = Chain(e)
    <3>1. Live(i)' /\ tickets'[i] = tickets[i]
      BY <1>1, <1>3, <2>2 DEF Live
    <3>. QED  BY <2>2, <3>1, ChainStays
  <2>3. CASE ~Held(e)
    <3>1. ~Held(e)'
      BY <1>2, <1>3, <1>4, <1>9, <2>3 DEF Held, Calling, Live
    <3>. QED  BY <1>4, <2>3, <3>1, ChainStays
  <2>. QED  BY <2>1, <2>2, <2>3 DEF Held, Calling
<1>10. Chains!Retry(env)
  BY <1>4, <1>6, <1>7, <1>8, <1>9 DEF Chains!Retry
<1>. QED  BY <1>10 DEF Chains!Next

\* A callback that is the last ends its envelope's chain.
LEMMA EndShown ==
  ASSUME TypeOK, ChainInv, Shown, Shown', NEW id \in Ids, EndChain(id)
  PROVE  Chains!Next
<1>. PICK env \in Envelopes : env = dispatch[id].ticket.env
  BY CallingType DEF EndChain
<1>1. /\ dispatch[id].phase = "calling" /\ dispatch'[id].phase # "calling"
      /\ \A i \in Ids \ {id} : dispatch'[i] = dispatch[i]
      /\ UNCHANGED <<tickets, recorded, called>>
  BY DEF EndChain, TypeOK, Idle
<1>2. /\ Calling(env)
      /\ \A i \in Ids : dispatch[i].phase = "calling" /\ dispatch[i].ticket.env = env => i = id
  BY <1>1 DEF ChainInv, OneCall, Calling
<1>3. Chain(env).stage = "calling"
  BY <1>1 DEF Shown
<1>4. Chain(env)' = Chains!Ended
  <2>1. ~Held(env)'
    BY <1>1, <1>2 DEF ChainInv, OneChain, Held, Calling, Live
  <2>2. recorded \in Nat /\ env <= recorded'
    BY <1>1, <1>2 DEF ChainInv, Unrecorded, Held, Envelopes, TypeOK
  <2>. QED  BY <2>1, <2>2 DEF Shown
<1>5. ASSUME NEW e \in Envelopes, e # env PROVE Chain(e)' = Chain(e)
  <2>1. ASSUME NEW i \in Ids, dispatch[i].phase = "calling", dispatch[i].ticket.env = e
        PROVE  Chain(e)' = Chain(e)
    <3>1. dispatch'[i] = dispatch[i]
      BY <1>1, <1>5, <2>1
    <3>. QED  BY <2>1, <3>1, ChainStays
  <2>2. ASSUME NEW i \in Ids, Live(i), tickets[i].env = e PROVE Chain(e)' = Chain(e)
    BY <1>1, <2>2, ChainStays DEF Live
  <2>3. CASE ~Held(e)
    <3>1. ~Held(e)'
      BY <1>1, <2>3 DEF Held, Calling, Live
    <3>. QED  BY <1>1, <2>3, <3>1, ChainStays
  <2>. QED  BY <2>1, <2>2, <2>3 DEF Held, Calling
<1>6. Chains!End(env)
  BY <1>1, <1>3, <1>4, <1>5 DEF Chains!End
<1>. QED  BY <1>6 DEF Chains!Next

\* A step that moves no ticket and no callback leaves every chain where it is.
LEMMA ChainsStutter ==
  ASSUME Shown, Shown', UNCHANGED <<tickets, recorded, called>>,
         \A i \in Ids : \/ dispatch'[i] = dispatch[i]
                        \/ dispatch'[i].phase # "calling" /\ dispatch[i].phase # "calling"
  PROVE  UNCHANGED <<[env \in Envelopes |-> Chain(env)], called>>
<1>1. ASSUME NEW e \in Envelopes PROVE Chain(e)' = Chain(e)
  <2>1. ASSUME NEW i \in Ids, dispatch[i].phase = "calling", dispatch[i].ticket.env = e
        PROVE  Chain(e)' = Chain(e)
    BY <2>1, ChainStays
  <2>2. ASSUME NEW i \in Ids, Live(i), tickets[i].env = e PROVE Chain(e)' = Chain(e)
    BY <2>2, ChainStays DEF Live
  <2>3. CASE ~Held(e)
    <3>1. ~Held(e)'
      BY <2>3 DEF Held, Calling, Live
    <3>. QED  BY <2>3, <3>1, ChainStays
  <2>. QED  BY <2>1, <2>2, <2>3 DEF Held, Calling
<1>. QED  BY <1>1

\* Every step is one of the abstract chains, or a stutter.
LEMMA ChainsStep ==
  TypeOK /\ ChainInv /\ Shown /\ Shown' /\ [Next]_vars =>
    [Chains!Next]_<<[env \in Envelopes |-> Chain(env)], called>>
<1>. SUFFICES ASSUME TypeOK, ChainInv, Shown, Shown', [Next]_vars
              PROVE  \/ Chains!Next
                     \/ UNCHANGED <<[env \in Envelopes |-> Chain(env)], called>>
  OBVIOUS
<1>1. ASSUME NEW s \in Sessions, NEW max \in Limits, NEW id \in Uuids,
             RecordOutbound(s, max, id)
      PROVE  Chains!Next
  <2>1. max \in Limits \cup {HookLimit} /\ id \in Ids
    BY DEF Ids
  <2>. QED  BY <1>1, <2>1, RecordShown DEF RecordOutbound
<1>2. ASSUME NEW s \in Sessions, NEW hook \in Hooks, ScheduleHook(s, hook)
      PROVE  Chains!Next
  <2>1. HookLimit \in Limits \cup {HookLimit} /\ hook \in Ids
    BY DEF Ids
  <2>. QED  BY <1>2, <2>1, RecordShown DEF ScheduleHook
<1>3. ASSUME NEW s \in Sessions, Acknowledge(s) PROVE Chains!Next
  BY <1>3, RemoveShown DEF Acknowledge, TypeOK
<1>4. ASSUME NEW id \in Ids, Discard(id) PROVE Chains!Next
  <2>1. \A i \in Ids : \/ dispatch'[i] = dispatch[i]
                       \/ dispatch'[i].phase # "calling" /\ dispatch[i].phase # "calling"
    BY <1>4 DEF Discard, TypeOK, Idle
  <2>. QED  BY <1>4, <2>1, RemoveShown DEF Discard
<1>5. ASSUME NEW id \in Ids, FireJob(id) \/ Misfire(id)
      PROVE  UNCHANGED <<[env \in Envelopes |-> Chain(env)], called>>
  <2>1. \A i \in Ids : \/ dispatch'[i] = dispatch[i]
                       \/ dispatch'[i].phase # "calling" /\ dispatch[i].phase # "calling"
    BY <1>5 DEF FireJob, Misfire, TypeOK, Idle
  <2>. QED  BY <1>5, <2>1, ChainsStutter DEF FireJob, Misfire
<1>6. CASE Register \/ UNCHANGED vars
  BY <1>6, ChainsStutter DEF Register, vars
<1>. QED
  BY <1>1, <1>2, <1>3, <1>4, <1>5, <1>6, CallShown, FollowShown, EndShown
     DEF Next, Record, Dispatch

\* ImplementsChains: whatever records, replies, timers and callbacks come in
\* whatever order, an envelope is followed up by one chain of calls, one call at
\* a time and within its limit, and by none once its chain ended.
THEOREM ChainsImplemented == Spec => ImplementsChains
<1>1. Init => Chains!Init
  <2>. SUFFICES ASSUME Init PROVE Chains!Init
    OBVIOUS
  <2>1. ChainInv
    BY DEF Init, ChainInv, OneChain, OneCall, Counted, Unrecorded, Held, Calling, Live, Idle
  <2>2. ASSUME NEW env \in Envelopes PROVE Chain(env) = Chains!New
    <3>1. ~Held(env) /\ ~(env <= recorded)
      BY DEF Init, Held, Calling, Live, Idle, Envelopes
    <3>. QED  BY <2>1, <3>1, ChainShown DEF Shown
  <2>. QED  BY <2>2 DEF Init, Chains!Init
<1>2. Spec => []Shown
  BY ChainShown, ChainsCorrect, PTL
<1>. QED
  BY <1>1, <1>2, TypeCorrect, ChainsCorrect, ChainsStep, PTL
     DEF Spec, ImplementsChains, Chains!Spec
=============================================================================
