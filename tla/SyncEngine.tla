------------------------------ MODULE SyncEngine ------------------------------
(***************************************************************************)
(* How a plan becomes calendar operations, and what an operation does      *)
(* (agents/timeboxing/sync_engine.py).  A calendar is a set of entries     *)
(* [id, n, st, et, d] of one day with distinct ids; the server that keeps  *)
(* it is external: it refuses to create an id it has and to update or      *)
(* delete one it has not.                                                  *)
(***************************************************************************)
EXTENDS CalendarReconciliation

CONSTANTS
  Names, Times,  \* summaries, and minutes of the day
  Details,       \* descriptions; the empty one is ""
  Others,        \* ids of the events the agent did not create
  None           \* Python's None

Event == [n: Names, st: Times, et: Times, d: Details]

\* base32hex_id: the hash of an event's date, summary, start and position in
\* the plan, as what it stands for.
Seeds == [n: Names, st: Times, pos: Nat \ {0}]
Seed(e, i) == <<"fftb", [n |-> e.n, st |-> e.st, pos |-> i]>>

Ids == ({"other"} \X Others) \cup ({"fftb"} \X Seeds)

Entry(id, e) == [id |-> id, n |-> e.n, st |-> e.st, et |-> e.et, d |-> e.d]
Entries == [id: Ids, n: Names, st: Times, et: Times, d: Details]

\* In start order.  (Of equal starts the server's order decides: one is fixed.)
InOrder(events) ==
  LET served == SetToSeq(events)
      rank(e) == CHOOSE k \in DOMAIN served : served[k] = e
      before(e) == {f \in events : f.st < e.st \/ (f.st = e.st /\ rank(f) < rank(e))}
  IN  [k \in 1..Cardinality(events) |->
         CHOOSE e \in events : Cardinality(before(e)) = k - 1]

\* gcal_response_to_tb_plan_with_identity drops the descriptions.
Remote == [id: Ids, n: Names, st: Times, et: Times]
Snapshot(cal) ==
  InOrder({[id |-> e.id, n |-> e.n, st |-> e.st, et |-> e.et] : e \in cal})

AsEvent(r) == [n |-> r.n, st |-> r.st, et |-> r.et, d |-> ""]
AsPlan(snapshot) == [k \in DOMAIN snapshot |-> AsEvent(snapshot[k])]

\* resolve_times raises when an event ends after the next one starts.
Overlapping(plan) == \E i \in 1..(Len(plan) - 1) : plan[i].et > plan[i + 1].st
----------------------------------------------------------------------------
(* Operations: what to write, and what to write back on undo. *)

Op == [kind: {"create", "update", "delete"}, at: Nat \ {0}, id: Ids,
       after: Event \cup {None}, before: Event \cup {None}]

\* Mutant: the seed's index counts the creates, not the plan's events.
CreateOpsRanked(m, desired) ==
  {[kind |-> "create", at |-> i,
    id |-> Seed(desired[i], Cardinality({k \in Creates(m) : k <= i})),
    after |-> desired[i], before |-> None] : i \in Creates(m)}

CreateOps(m, desired) ==
  {[kind |-> "create", at |-> i, id |-> Seed(desired[i], i),
    after |-> desired[i], before |-> None] : i \in Creates(m)}

\* Mutant: every match is written again.
AllUpdateOps(m, remote, desired) ==
  {[kind |-> "update", at |-> i, id |-> remote[m[i]].id,
    after |-> desired[i], before |-> AsEvent(remote[m[i]])] :
      i \in OwnedMatches(m, remote)}

\* Only where something differs from what the snapshot shows.
UpdateOps(m, remote, desired) ==
  {[kind |-> "update", at |-> i, id |-> remote[m[i]].id,
    after |-> desired[i], before |-> AsEvent(remote[m[i]])] :
      i \in {k \in OwnedMatches(m, remote) : AsEvent(remote[m[k]]) # desired[k]}}

DeleteOps(m, remote) ==
  {[kind |-> "delete", at |-> j, id |-> remote[j].id,
    after |-> None, before |-> AsEvent(remote[j])] : j \in Deletes(m, remote)}

\* Mutant: what is no longer planned stays.
PlanSyncAdding(remote, desired) ==
  LET m == Matching(desired, remote) IN
  CreateOps(m, desired) \cup UpdateOps(m, remote, desired)

PlanSync(remote, desired) ==
  LET m == Matching(desired, remote) IN
  CreateOps(m, desired) \cup UpdateOps(m, remote, desired) \cup DeleteOps(m, remote)

\* summarize_reconciliation(...).planned_mutations: every match with an owned
\* event counts as an update, whether or not anything differs.
PlannedMutations(remote, desired) ==
  LET m == Matching(desired, remote) IN
  Cardinality(Creates(m)) + Cardinality(OwnedMatches(m, remote))
    + Cardinality(Deletes(m, remote))

\* The stable sort of the operations: creates, then updates, then deletes.
\* (Updates run in plan order here, in the order of the passes in the code.)
Rank(op) == CASE op.kind = "create" -> 0 [] op.kind = "update" -> 1 [] OTHER -> 2
Precedes(o, p) == Rank(o) < Rank(p) \/ (Rank(o) = Rank(p) /\ o.at < p.at)

\* Mutant: an update is undone with its own payload.
UndoingForward(op) ==
  [kind |-> CASE op.kind = "create" -> "delete"
              [] op.kind = "delete" -> "create"
              [] OTHER -> "update",
   at |-> op.at, id |-> op.id,
   after |-> IF op.kind = "update" THEN op.after ELSE op.before, before |-> op.before]

\* The operation undo_sync makes of one that succeeded.
Undoing(op) ==
  [kind |-> CASE op.kind = "create" -> "delete"
              [] op.kind = "delete" -> "create"
              [] OTHER -> "update",
   at |-> op.at, id |-> op.id, after |-> op.before, before |-> op.after]
----------------------------------------------------------------------------
(* The calendar server *)

Has(cal, id) == \E e \in cal : e.id = id

Accepts(cal, op) == (op.kind = "create") # Has(cal, op.id)

Applied(cal, op) ==
  {e \in cal : e.id # op.id}
  \cup (IF op.kind = "delete" THEN {} ELSE {Entry(op.id, op.after)})
=============================================================================
