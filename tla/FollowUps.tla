------------------------------ MODULE FollowUps ------------------------------
(***************************************************************************)
(* What the haunting service promises about follow-ups, whatever messages, *)
(* records, jobs and dispatches it takes: each may be posted as often as   *)
(* its schedule call allowed and never again once gone, but for a message  *)
(* already on its way; and what is gone stays gone.  HauntingService       *)
(* implements it.                                                          *)
(***************************************************************************)
EXTENDS Naturals

CONSTANT Gens  \* follow-ups, a schedule call each

VARIABLES
  stage,    \* of each follow-up
  quota,    \* how often it may be posted
  posted,   \* how often it was
  sending   \* those with a message on its way

Init ==
  /\ stage = [g \in Gens |-> "new"]
  /\ quota = [g \in Gens |-> 0]
  /\ posted = [g \in Gens |-> 0]
  /\ sending = {}

\* Follow-ups are cancelled, or exhausted; messages on their way stay there.
End(gs) ==
  /\ \A g \in gs : stage[g] = "pending"
  /\ stage' = [g \in Gens |-> IF g \in gs THEN "gone" ELSE stage[g]]
  /\ UNCHANGED <<quota, posted, sending>>

\* A new follow-up may replace another one.
Schedule(g, gs) ==
  /\ stage[g] = "new"
  /\ \A h \in gs : stage[h] = "pending"
  /\ stage' = [h \in Gens |->
       IF h = g THEN "pending" ELSE IF h \in gs THEN "gone" ELSE stage[h]]
  /\ quota'[g] \in Nat \ {0}
  /\ quota' = [quota EXCEPT ![g] = quota'[g]]
  /\ UNCHANGED <<posted, sending>>

BeginPost(g) ==
  /\ stage[g] = "pending"
  /\ g \notin sending
  /\ posted[g] < quota[g]
  /\ sending' = sending \cup {g}
  /\ UNCHANGED <<stage, quota, posted>>

Post(g) ==
  /\ g \in sending
  /\ sending' = sending \ {g}
  /\ posted' = [posted EXCEPT ![g] = @ + 1]
  /\ UNCHANGED <<stage, quota>>

\* The message did not get through.
Fail(g) ==
  /\ g \in sending
  /\ sending' = sending \ {g}
  /\ UNCHANGED <<stage, quota, posted>>

Next ==
  \/ \E g \in Gens : BeginPost(g) \/ Post(g) \/ Fail(g)
  \/ \E gs \in SUBSET Gens : End(gs) \/ \E g \in Gens : Schedule(g, gs)

Spec == Init /\ [][Next]_<<stage, quota, posted, sending>>
=============================================================================
