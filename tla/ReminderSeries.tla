---------------------------- MODULE ReminderSeries ----------------------------
(***************************************************************************)
(* What the planning reconciler promises about the reminders of one user,  *)
(* whatever tasks, reads and messages it takes to decide on them: the jobs *)
(* are renewed as one whole series or removed altogether, they fire in     *)
(* their order, and a reminder that came due is dealt with before the next *)
(* one is.  PlanningReconcile implements it.                               *)
(***************************************************************************)
EXTENDS Naturals

CONSTANT Length    \* jobs in a series: its nudges and its expiry

VARIABLES
  jobs,  \* the pending jobs, each a date and a place in its series
  due    \* whether a reminder that came due is being dealt with

Dates == {"today", "yesterday"}

Init == jobs = {} /\ due = FALSE

\* The user is found to be without a planning session.
Renew ==
  /\ \E d \in Dates : jobs' = {d} \X (1..Length)
  /\ UNCHANGED due

\* A planning session was found.
Silence ==
  /\ jobs' = {}
  /\ UNCHANGED due

\* The first job of its series fires, for nothing if the user is busy.
Fire ==
  /\ ~due
  /\ \E j \in jobs :
       /\ \A k \in jobs : k[1] = j[1] => j[2] <= k[2]
       /\ jobs' = jobs \ {j}
  /\ due' \in BOOLEAN

\* A card was posted, or the reminder dropped.
Settle ==
  /\ due
  /\ due' = FALSE
  /\ UNCHANGED jobs

\* The date that the jobs are of is no longer today's.
Midnight ==
  /\ \A j \in jobs : j[1] = "today"
  /\ jobs' = {"yesterday"} \X {j[2] : j \in jobs}
  /\ UNCHANGED due

\* Jobs live in memory only.
Crash ==
  /\ jobs' = {}
  /\ due' = FALSE

Next == Renew \/ Silence \/ Fire \/ Settle \/ Midnight \/ Crash

Spec == Init /\ [][Next]_<<jobs, due>>
=============================================================================
