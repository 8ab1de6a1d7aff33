---------------------------- MODULE EnvelopeChains ----------------------------
(***************************************************************************)
(* What the orchestrator promises about envelopes, whatever tickets, jobs  *)
(* and dispatches it takes: each is followed up by a single chain of calls *)
(* of the agent, one at a time and within its limit, and a chain that      *)
(* ended never goes on.  HauntOrchestrator implements it.                  *)
(***************************************************************************)
EXTENDS Naturals

CONSTANTS
  Envelopes,
  Limits     \* how often an envelope can ask to be followed up

VARIABLES
  chain,  \* the stage of each envelope's chain, and the calls it has left
  calls   \* the calls begun

New == [stage |-> "new", left |-> 0]
Ended == [stage |-> "ended", left |-> 0]

Init ==
  /\ chain = [e \in Envelopes |-> New]
  /\ calls = [e \in Envelopes |-> 0]

\* Answered, replaced, or without an agent to call: it ends before its next call.
Silenced(es) ==
  /\ \A e \in es : chain[e].stage = "waiting"
  /\ chain' = [e \in Envelopes |-> IF e \in es THEN Ended ELSE chain[e]]
  /\ UNCHANGED calls

\* An envelope asks to be followed up, and may replace others.
Record(e, limit, es) ==
  /\ chain[e] = New
  /\ \A x \in es : chain[x].stage = "waiting"
  /\ chain' = [x \in Envelopes |->
       IF x = e THEN [stage |-> "waiting", left |-> limit]
       ELSE IF x \in es THEN Ended ELSE chain[x]]
  /\ UNCHANGED calls

Call(e) ==
  /\ chain[e].stage = "waiting"
  /\ chain' = [chain EXCEPT ![e] = [stage |-> "calling", left |-> @.left - 1]]
  /\ calls' = [calls EXCEPT ![e] = @ + 1]

Retry(e) ==
  /\ chain[e].stage = "calling" /\ chain[e].left > 0
  /\ chain' = [chain EXCEPT ![e].stage = "waiting"]
  /\ UNCHANGED calls

End(e) ==
  /\ chain[e].stage = "calling"
  /\ chain' = [chain EXCEPT ![e] = Ended]
  /\ UNCHANGED calls

Next ==
  \/ \E e \in Envelopes : Call(e) \/ Retry(e) \/ End(e)
  \/ \E es \in SUBSET Envelopes :
       Silenced(es) \/ \E e \in Envelopes, limit \in Limits : Record(e, limit, es)

Spec == Init /\ [][Next]_<<chain, calls>>
=============================================================================
