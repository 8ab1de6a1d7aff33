------------------------- MODULE TimeboxSubmitProofs -------------------------
(* What holds of every session, whatever the plans, the calendar and the     *)
(* failures.  With any number of handlers: every variable keeps its shape,   *)
(* the agent keeps its hands off the events of others, and the submit        *)
(* buttons belong to the review stage; and submits of one plan, racing with  *)
(* one another and with undos, book nothing twice.  With messages handled    *)
(* one at a time: a submit that is through leaves the planned day on the     *)
(* calendar, an undo gives back the day before it, and to submit the same    *)
(* plan again changes nothing, if no events can be taken for one another.    *)
EXTENDS TimeboxSubmit, Induction, FiniteSetTheorems, SequenceTheorems, TLAPS

\* PendingInReview: whoever resets what, buttons are shown in review only.
THEOREM ButtonsCorrect == Spec => []PendingInReview
<1>1. Init => PendingInReview
  BY DEF Init, PendingInReview
<1>2. PendingInReview /\ [Next]_vars => PendingInReview'
  <2>. SUFFICES ASSUME PendingInReview, [Next]_vars PROVE PendingInReview'
    OBVIOUS
  <2>1. CASE UNCHANGED vars
    BY <2>1 DEF PendingInReview, vars, session
  <2>2. CASE Turn
    BY <2>2 DEF Turn, RefineTurn, ReviewTurn, CancelSubmit, PendingInReview
  <2>3. CASE Edit
    BY <2>3 DEF Edit, UserEdit, PendingInReview, session
  <2>4. ASSUME NEW h \in Handlers, Submit(h) PROVE PendingInReview'
    BY <2>4 DEF Submit, StartSubmit, ListEvents, RefuseSubmit, SkipSubmit, PlanSubmit,
       Write, RecordTransaction, Rebase, PendingInReview, session
  <2>5. ASSUME NEW h \in Handlers, Undo(h) PROVE PendingInReview'
    BY <2>5 DEF Undo, StartUndo, UndoWrite, FinishUndo, PendingInReview, session
  <2>. QED  BY <2>1, <2>2, <2>3, <2>4, <2>5 DEF Next
<1>. QED  BY <1>1, <1>2, PTL DEF Spec
-----------------------------------------------------------------------------
(* Foreign events *)

OwnedOps(ops) == \A op \in ops : IsOwned(op.id)

\* The inductive invariant: whatever a handler still has to write, has
\* written or could undo concerns events of the agent's own.
OwnedInv ==
  /\ edits \in Nat
  /\ DOMAIN todo = Handlers /\ DOMAIN done = Handlers
  /\ \A h \in Handlers : OwnedOps(todo[h]) /\ OwnedOps(done[h])
  /\ tx # None => OwnedOps(tx.done)

\* Whatever the matching, plan_sync makes operations on owned events only.
LEMMA PlannedOwned ==
  ASSUME NEW remote, NEW desired
  PROVE  OwnedOps(PlanSync(remote, desired))
<1>. DEFINE m == Matching(desired, remote)
<1>1. OwnedOps(CreateOps(m, desired))
  BY DEF OwnedOps, CreateOps, Seed, IsOwned
<1>2. OwnedOps(UpdateOps(m, remote, desired))
  BY DEF OwnedOps, UpdateOps, OwnedMatches
<1>3. OwnedOps(DeleteOps(m, remote))
  BY DEF OwnedOps, DeleteOps, Deletes
<1>. QED  BY <1>1, <1>2, <1>3 DEF PlanSync, OwnedOps

\* Undoing an operation concerns the event the operation concerned.
LEMMA UndoingOwned ==
  ASSUME NEW ops, OwnedOps(ops)
  PROVE  OwnedOps({Undoing(op) : op \in ops})
BY DEF OwnedOps, Undoing

\* Applying an operation on an owned event leaves the foreign ones as they are.
LEMMA AppliedForeign ==
  ASSUME NEW c, NEW op, IsOwned(op.id)
  PROVE  ForeignEntries(Applied(c, op)) = ForeignEntries(c)
BY DEF ForeignEntries, Applied, Entry, IsOwned

\* One calendar call keeps the invariant and the foreign events.
LEMMA CallOwned ==
  ASSUME OwnedInv, NEW h \in Handlers, NEW op \in todo[h],
         NEW rest, rest \subseteq todo[h], Call(h, op, rest), UNCHANGED <<edits, tx>>
  PROVE  OwnedInv' /\ ForeignEntries(cal') = ForeignEntries(cal)
<1>1. IsOwned(op.id)
  BY DEF OwnedInv, OwnedOps
<1>2. ForeignEntries(Applied(cal, op)) = ForeignEntries(cal)
  BY <1>1, AppliedForeign
<1>3. ForeignEntries(cal') = ForeignEntries(cal)
  BY <1>2 DEF Call
<1>4. \A g \in Handlers : todo'[g] \subseteq todo[g] /\ done'[g] \subseteq done[g] \cup {op}
                                               /\ (g # h => done'[g] = done[g])
  BY DEF Call, OwnedInv
<1>5. DOMAIN todo' = Handlers /\ DOMAIN done' = Handlers
  BY DEF Call, OwnedInv
<1>. QED  BY <1>1, <1>3, <1>4, <1>5 DEF OwnedInv, OwnedOps

\* Every step keeps the invariant; only the user's edits reach foreign events.
LEMMA OwnedStep ==
  ASSUME OwnedInv, [Next]_vars
  PROVE  OwnedInv' /\ (ForeignEntries(cal') # ForeignEntries(cal) => edits' > edits)
<1>1. CASE UNCHANGED vars
  BY <1>1 DEF OwnedInv, vars, session, handling, writing
<1>2. CASE Turn
  BY <1>2 DEF OwnedInv, Turn, RefineTurn, ReviewTurn, CancelSubmit, handling, writing
<1>3. CASE Edit
  <2>1. PICK e, moved : UserEdit(e, moved)
    BY <1>3 DEF Edit
  <2>. QED  BY <2>1 DEF OwnedInv, UserEdit, session, handling, writing
<1>4. ASSUME NEW h \in Handlers, Submit(h)
      PROVE  OwnedInv' /\ ForeignEntries(cal') = ForeignEntries(cal)
  <2>1. CASE StartSubmit(h)
    BY <2>1 DEF OwnedInv, StartSubmit, writing
  <2>2. CASE ListEvents(h)
    BY <2>2 DEF OwnedInv, ListEvents, session, writing
  <2>3. CASE RefuseSubmit(h)
    BY <2>3 DEF OwnedInv, RefuseSubmit, Return, OwnedOps
  <2>4. CASE SkipSubmit(h)
    BY <2>4 DEF OwnedInv, SkipSubmit, Return, OwnedOps
  <2>5. CASE PlanSubmit(h)
    <3>1. OwnedOps(PlanSync(cache', plan))
      BY PlannedOwned
    <3>. QED  BY <2>5, <3>1 DEF OwnedInv, PlanSubmit
  <2>6. CASE Write(h)
    <3>1. PICK op \in todo[h] : Call(h, op, {})
      BY <2>6 DEF Write
    <3>2. UNCHANGED <<edits, tx>>
      BY <2>6 DEF Write, session
    <3>. QED  BY <3>1, <3>2, CallOwned
  <2>7. CASE RecordTransaction(h)
    BY <2>7 DEF OwnedInv, RecordTransaction, writing
  <2>8. CASE Rebase(h)
    BY <2>8 DEF OwnedInv, Rebase, Return, OwnedOps
  <2>. QED  BY <1>4, <2>1, <2>2, <2>3, <2>4, <2>5, <2>6, <2>7, <2>8 DEF Submit
<1>5. ASSUME NEW h \in Handlers, Undo(h)
      PROVE  OwnedInv' /\ ForeignEntries(cal') = ForeignEntries(cal)
  <2>1. CASE StartUndo(h)
    <3>1. OwnedOps({Undoing(op) : op \in tx.done})
      BY <2>1, UndoingOwned DEF OwnedInv, StartUndo
    <3>. QED  BY <2>1, <3>1 DEF OwnedInv, StartUndo, session
  <2>2. CASE UndoWrite(h)
    <3>1. PICK op \in todo[h] : Call(h, op, todo[h] \ {op})
      BY <2>2 DEF UndoWrite
    <3>2. UNCHANGED <<edits, tx>>
      BY <2>2 DEF UndoWrite, session
    <3>. QED  BY <3>1, <3>2, CallOwned
  <2>3. CASE FinishUndo(h)
    BY <2>3 DEF OwnedInv, FinishUndo, Return, OwnedOps
  <2>. QED  BY <1>5, <2>1, <2>2, <2>3 DEF Undo
<1>. QED  BY <1>1, <1>2, <1>3, <1>4, <1>5 DEF Next

\* ForeignUntouched for every plan, calendar, number of handlers and failure.
THEOREM ForeignCorrect == Spec => ForeignUntouched
<1>1. Init => OwnedInv
  BY DEF Init, OwnedInv, OwnedOps
<1>2. OwnedInv /\ [Next]_vars => OwnedInv'
  BY OwnedStep
<1>3. OwnedInv /\ [Next]_vars
        => [ForeignEntries(cal') # ForeignEntries(cal) => edits' > edits]_vars
  BY OwnedStep
<1>. QED  BY <1>1, <1>2, <1>3, PTL DEF Spec, ForeignUntouched
-----------------------------------------------------------------------------
(* The matching: its loops, and what they pair *)

\* The loop over the candidates, step by step.
BestLoop(g, candidates, score, n) ==
  /\ g \in [0..n -> candidates \cup {0}] /\ g[0] = 0
  /\ \A j \in 1..n : g[j] =
       IF j \in candidates /\ (g[j - 1] = 0 \/ Beats(score[j], score[g[j - 1]]))
       THEN j ELSE g[j - 1]

\* Best is that loop.
LEMMA BestRuns ==
  ASSUME NEW n \in Nat, NEW candidates, candidates \subseteq 1..n, NEW score
  PROVE  \E g : BestLoop(g, candidates, score, n) /\ Best(candidates, score, n) = g[n]
<1> DEFINE S == candidates \cup {0}
           Step(j, b) == IF j \in candidates /\ (b = 0 \/ Beats(score[j], score[b])) THEN j ELSE b
           F == [j \in 1..n |-> [b \in S |-> Step(j, b)]]
           Loop(g) == g = [j \in 0..n |-> IF j = 0 THEN 0 ELSE Step(j, g[j - 1])]
<1>1. \E g \in [0..n -> S] : Loop(g)
  <2>1. 0 \in S /\ F \in [1..n -> [S -> S]]
    OBVIOUS
  <2>2. PICK g : Iterates(g, n, S, 0, F)
    <3> HIDE DEF S, F
    <3>. QED  BY <2>1, Iteration
  <2>3. ASSUME NEW i \in 0..n, i # 0 PROVE g[i] = Step(i, g[i - 1])
    <3>1. i \in 1..n /\ i - 1 \in 0..n
      BY <2>3
    <3>2. g[i - 1] \in S
      BY <2>2, <3>1 DEF Iterates
    <3> HIDE DEF Step, S
    <3>. QED  BY <2>2, <3>1, <3>2 DEF F, Iterates
  <2>4. Loop(g)
    <3> HIDE DEF Step, S
    <3>. QED  BY <2>2, <2>3 DEF Iterates
  <2> HIDE DEF Loop, S
  <2>. QED  BY <2>2, <2>4 DEF Iterates
<1>2. ASSUME NEW g, Loop(g), NEW h \in [0..n -> S], Loop(h) PROVE g[n] = h[n]
  <2> DEFINE G == {k \in 0..n : g[k] = h[k]}
  <2> HIDE DEF Step
  <2>1. 0 \in G
    BY <1>2
  <2>2. ASSUME NEW k \in 0..(n - 1), k \in G PROVE k + 1 \in G
    <3>1. k + 1 \in 0..n /\ k + 1 # 0 /\ (k + 1) - 1 = k
      OBVIOUS
    <3>. QED  BY <1>2, <2>2, <3>1
  <2>3. \A k \in 0..(n - 1) : k \in G => k + 1 \in G
    BY <2>2
  <2> HIDE DEF G, Loop
  <2>4. 0..n \subseteq G
    BY <2>1, <2>3, SetInduction
  <2>. QED  BY <2>4 DEF G
<1>3. Best(candidates, score, n) = (CHOOSE g : Loop(g))[n]
  BY DEF Best
<1>4. Loop(CHOOSE g : Loop(g))
  <2> HIDE DEF Loop
  <2>. QED  BY <1>1
<1>5. PICK h \in [0..n -> S] : Loop(h)
  BY <1>1
<1>6. (CHOOSE g : Loop(g))[n] = h[n]
  <2> HIDE DEF Loop
  <2>. QED  BY <1>2, <1>4, <1>5
<1>7. h[0] = 0 /\ \A j \in 1..n : h[j] = Step(j, h[j - 1])
  <2> HIDE DEF Step
  <2>. QED  BY <1>5
<1> HIDE DEF Loop
<1>8. BestLoop(h, candidates, score, n)
  BY <1>5, <1>7 DEF BestLoop
<1>. QED  BY <1>3, <1>6, <1>8

\* It ends with one of them, or with none.
LEMMA BestIsCandidate ==
  ASSUME NEW n \in Nat, NEW candidates, candidates \subseteq 1..n, NEW score
  PROVE  Best(candidates, score, n) \in candidates \cup {0}
<1>1. PICK g : BestLoop(g, candidates, score, n) /\ Best(candidates, score, n) = g[n]
  BY BestRuns
<1>. QED  BY <1>1 DEF BestLoop

\* Python orders tuples of one length totally: whatever lies between two of them
\* is beaten by the greater one or beats the less.
LEMMA BeatsOrder ==
  ASSUME NEW L \in Nat, NEW x \in [1..L -> Int], NEW y \in [1..L -> Int]
  PROVE  /\ ~(Beats(x, y) /\ Beats(y, x))
         /\ x # y => Beats(x, y) \/ Beats(y, x)
         /\ \A z \in [1..L -> Int] : Beats(x, y) => Beats(x, z) \/ Beats(z, y)
<1>1. ASSUME NEW v \in [1..L -> Int], NEW w \in [1..L -> Int], v # w
      PROVE  \E p \in 1..L : v[p] # w[p] /\ \A q \in 1..(p - 1) : v[q] = w[q]
  <2> DEFINE T == {p \in 1..L : v[p] # w[p]}
  <2>1. T \subseteq Nat /\ T # {}
    <3>1. v = [p \in 1..L |-> v[p]] /\ w = [p \in 1..L |-> w[p]]
      OBVIOUS
    <3>2. \E p \in 1..L : v[p] # w[p]
      BY <1>1, <3>1
    <3>3. T \subseteq Nat
      OBVIOUS
    <3>. QED  BY <3>2, <3>3
  <2>2. PICK p \in T : \A q \in T : p <= q
    <3> HIDE DEF T
    <3>. QED  BY <2>1, LeastNumber
  <2>. QED  BY <2>2
<1>2. ~(Beats(x, y) /\ Beats(y, x))
  <2>. SUFFICES ASSUME Beats(x, y), Beats(y, x) PROVE FALSE
    OBVIOUS
  <2>1. PICK p \in 1..L : x[p] > y[p] /\ \A q \in 1..(p - 1) : x[q] = y[q]
    BY DEF Beats
  <2>2. PICK k \in 1..L : y[k] > x[k] /\ \A q \in 1..(k - 1) : y[q] = x[q]
    BY DEF Beats
  <2>3. p = k
    <3>1. ~(p < k) /\ ~(k < p)
      BY <2>1, <2>2
    <3>. QED  BY <3>1
  <2>. QED  BY <2>1, <2>2, <2>3
<1>3. x # y => Beats(x, y) \/ Beats(y, x)
  <2>. SUFFICES ASSUME x # y PROVE Beats(x, y) \/ Beats(y, x)
    OBVIOUS
  <2>1. PICK p \in 1..L : x[p] # y[p] /\ \A q \in 1..(p - 1) : x[q] = y[q]
    BY <1>1
  <2>2. x[p] \in Int /\ y[p] \in Int
    OBVIOUS
  <2>3. x[p] > y[p] \/ y[p] > x[p]
    BY <2>1, <2>2
  <2>. QED  BY <2>1, <2>3 DEF Beats
<1>4. ASSUME NEW z \in [1..L -> Int], Beats(x, y) PROVE Beats(x, z) \/ Beats(z, y)
  <2>1. PICK p \in 1..L : x[p] > y[p] /\ \A q \in 1..(p - 1) : x[q] = y[q]
    BY <1>4 DEF Beats
  <2>2. CASE x = z
    BY <1>4, <2>2
  <2>3. CASE x # z
    <3>1. PICK k \in 1..L : x[k] # z[k] /\ \A q \in 1..(k - 1) : x[q] = z[q]
      BY <1>1, <2>3
    <3>2. x[k] \in Int /\ z[k] \in Int /\ y[k] \in Int /\ x[p] \in Int /\ y[p] \in Int /\ z[p] \in Int
      OBVIOUS
    <3>3. CASE x[k] > z[k]
      BY <3>1, <3>3 DEF Beats
    <3>4. CASE z[k] > x[k] /\ k <= p
      <4>1. k = p \/ x[k] = y[k]
        BY <2>1, <3>4
      <4>2. z[k] > y[k]
        BY <2>1, <3>2, <3>4, <4>1
      <4>3. \A q \in 1..(k - 1) : z[q] = y[q]
        BY <2>1, <3>1, <3>4
      <4>. QED  BY <4>2, <4>3 DEF Beats
    <3>5. CASE p < k
      <4>1. z[p] = x[p]
        BY <3>1, <3>5
      <4>2. \A q \in 1..(p - 1) : z[q] = y[q]
        BY <2>1, <3>1, <3>5
      <4>. QED  BY <2>1, <4>1, <4>2 DEF Beats
    <3>. QED  BY <3>1, <3>2, <3>3, <3>4, <3>5
  <2>. QED  BY <2>2, <2>3
<1>. QED  BY <1>2, <1>3, <1>4

\* b is the first of the best of the candidates, or 0 without any.
FirstBest(b, candidates, score) ==
  IF candidates = {} THEN b = 0
  ELSE b \in candidates
       /\ \A k \in candidates : ~Beats(score[k], score[b]) /\ (k < b => Beats(score[b], score[k]))

\* That is what Best finds, if scores are tuples of one length.
LEMMA BestIsFirst ==
  ASSUME NEW n \in Nat, NEW candidates, candidates \subseteq 1..n, NEW score,
         NEW L \in Nat, \A j \in candidates : score[j] \in [1..L -> Int]
  PROVE  FirstBest(Best(candidates, score, n), candidates, score)
<1> DEFINE Upto(i) == {j \in candidates : j <= i}
<1>0. \A j \in candidates : j \in Int /\ 1 <= j /\ j <= n
  OBVIOUS
<1>1. PICK g : BestLoop(g, candidates, score, n) /\ Best(candidates, score, n) = g[n]
  BY BestRuns
<1> DEFINE G == {i \in 0..n : FirstBest(g[i], Upto(i), score)}
<1>2. 0 \in G
  <2>1. Upto(0) = {}
    <3>1. \A j \in candidates : ~(j <= 0)
      BY <1>0
    <3>. QED  BY <3>1
  <2> HIDE DEF Upto
  <2>. QED  BY <1>1, <2>1 DEF FirstBest, BestLoop
<1>3. ASSUME NEW i \in 0..(n - 1), i \in G PROVE i + 1 \in G
  <2> DEFINE j == i + 1 b == g[i]
  <2>1. j \in 1..n /\ j \in 0..n /\ j - 1 = i
    OBVIOUS
  <2>2. g[j] = IF j \in candidates /\ (b = 0 \/ Beats(score[j], score[b])) THEN j ELSE b
    BY <1>1, <2>1 DEF BestLoop
  <2>3. FirstBest(b, Upto(i), score)
    BY <1>3
  <2>4. Upto(j) = IF j \in candidates THEN Upto(i) \cup {j} ELSE Upto(i)
    <3>1. \A k \in candidates : k <= j <=> (k <= i \/ k = j)
      BY <1>0
    <3> HIDE DEF j
    <3>. QED  BY <1>0, <2>1, <3>1
  <2>5. \A k \in Upto(i) : k \in candidates /\ k \in Int /\ j \in Int /\ k < j /\ k # 0
    BY <1>0, <2>1
  <2>6. b = 0 <=> Upto(i) = {}
    BY <2>3, <2>5 DEF FirstBest
  <2> HIDE DEF Upto, b, j
  <2>7. \A k \in candidates : ~Beats(score[k], score[k])
    BY BeatsOrder
  <2>8. CASE j \notin candidates
    BY <2>1, <2>2, <2>3, <2>4, <2>8
  <2>9. CASE j \in candidates /\ b = 0
    BY <2>1, <2>2, <2>4, <2>6, <2>7, <2>9 DEF FirstBest
  <2>10. CASE j \in candidates /\ b # 0 /\ ~Beats(score[j], score[b])
    <3>1. g[j] = b /\ b \in Upto(i)
      BY <2>2, <2>3, <2>6, <2>10 DEF FirstBest
    <3>2. ~(j < b)
      BY <2>5, <3>1
    <3>. QED  BY <2>1, <2>3, <2>4, <2>10, <3>1, <3>2 DEF FirstBest
  <2>11. CASE j \in candidates /\ b # 0 /\ Beats(score[j], score[b])
    <3>1. g[j] = j /\ b \in Upto(i)
      BY <2>2, <2>3, <2>6, <2>11 DEF FirstBest
    <3>2. ASSUME NEW k \in Upto(i) PROVE Beats(score[j], score[k]) /\ ~Beats(score[k], score[j])
      <4>1. ~Beats(score[k], score[b]) /\ k \in candidates /\ b \in candidates
        BY <2>3, <2>5, <3>1 DEF FirstBest
      <4>2. score[j] \in [1..L -> Int] /\ score[k] \in [1..L -> Int] /\ score[b] \in [1..L -> Int]
        BY <2>11, <4>1
      <4>3. Beats(score[j], score[k])
        BY <2>11, <4>1, <4>2, BeatsOrder
      <4>. QED  BY <4>2, <4>3, BeatsOrder
    <3>. QED  BY <2>1, <2>4, <2>7, <2>11, <3>1, <3>2 DEF FirstBest
  <2>12. j \in G
    BY <2>8, <2>9, <2>10, <2>11, <2>1
  <2>. QED  BY <2>12 DEF j
<1>4. n \in G
  <2>1. \A i \in 0..(n - 1) : i \in G => i + 1 \in G
    BY <1>3
  <2> HIDE DEF G
  <2>2. 0..n \subseteq G
    BY <1>2, <2>1, SetInduction
  <2>. QED  BY <2>2
<1>5. Upto(n) = candidates
  BY <1>0
<1> HIDE DEF Upto
<1>. QED  BY <1>1, <1>4, <1>5

\* No two of d desired events have the same of the r remote ones.
OneToOne(m, d, r) ==
  /\ m \in [1..d -> 0..r]
  /\ \A i, k \in 1..d : m[i] = m[k] /\ m[i] # 0 => i = k

\* The loop over the desired events, each of which picks one that is free.
PassLoop(h, d, m, remote, pairs, score) ==
  /\ h \in [0..d -> [1..d -> 0..Len(remote)]] /\ h[0] = m
  /\ \A i \in 1..d : h[i] =
       IF h[i - 1][i] # 0 THEN h[i - 1]
       ELSE [h[i - 1] EXCEPT ![i] =
               Best({j \in Free(h[i - 1], remote) : <<i, j>> \in pairs},
                    [j \in DOMAIN remote |-> score[<<i, j>>]], Len(remote))]

\* Pass is that loop.
LEMMA PassRuns ==
  ASSUME NEW d \in Nat, NEW remote, Len(remote) \in Nat, DOMAIN remote = 1..Len(remote),
         NEW m \in [1..d -> 0..Len(remote)], NEW pairs, NEW score
  PROVE  \E h : PassLoop(h, d, m, remote, pairs, score) /\ Pass(m, remote, pairs, score) = h[d]
<1> DEFINE r == Len(remote)
           S == [1..d -> 0..r]
           Pick(x, i) == Best({j \in Free(x, remote) : <<i, j>> \in pairs},
                              [j \in DOMAIN remote |-> score[<<i, j>>]], Len(remote))
           Step(i, x) == IF x[i] # 0 THEN x ELSE [x EXCEPT ![i] = Pick(x, i)]
           F == [i \in 1..d |-> [x \in S |-> Step(i, x)]]
           Loop(g) == g = [i \in 0..Len(m) |-> IF i = 0 THEN m ELSE Step(i, g[i - 1])]
<1>0. m \in Seq(0..r) /\ Len(m) = d
  OBVIOUS
<1>2. ASSUME NEW i \in 1..d, NEW x \in S PROVE Step(i, x) \in S
  <2> DEFINE C == {j \in Free(x, remote) : <<i, j>> \in pairs}
             j == Pick(x, i)
  <2>1. C \subseteq 1..Len(remote)
    BY DEF Free
  <2>2. j \in C \cup {0}
    <3> HIDE DEF C
    <3>. QED  BY <2>1, BestIsCandidate DEF C
  <2> HIDE DEF C, j
  <2>3. j \in 0..r
    BY <2>1, <2>2
  <2>4. (IF x[i] # 0 THEN x ELSE [x EXCEPT ![i] = j]) \in S
    BY <2>3
  <2>. QED  BY <2>4 DEF j
<1> HIDE DEF Step
<1>3. F \in [1..d -> [S -> S]]
  BY <1>2
<1>4. PICK h : Iterates(h, d, S, m, F)
  <2> HIDE DEF S, F
  <2>1. m \in S
    BY DEF S
  <2>. QED  BY <1>3, <2>1, Iteration
<1>5. ASSUME NEW i \in 1..d PROVE h[i] = Step(i, h[i - 1]) /\ i - 1 \in 0..d
  <2>1. i - 1 \in 0..d
    OBVIOUS
  <2>2. h[i - 1] \in S
    BY <1>4, <2>1 DEF Iterates
  <2> HIDE DEF S
  <2>. QED  BY <1>4, <2>1, <2>2 DEF Iterates, F
<1>6. Loop(h)
  <2> HIDE DEF S
  <2>1. h = [i \in 0..d |-> h[i]] /\ h[0] = m
    BY <1>4 DEF Iterates
  <2>2. \A i \in 0..d : i # 0 => h[i] = Step(i, h[i - 1])
    BY <1>5
  <2>. QED  BY <1>0, <2>1, <2>2
<1>7. ASSUME NEW g, Loop(g) PROVE g[d] = h[d]
  <2> DEFINE G == {k \in 0..d : g[k] = h[k]}
  <2>1. 0 \in G
    BY <1>0, <1>6, <1>7
  <2>2. ASSUME NEW k \in 0..(d - 1), k \in G PROVE k + 1 \in G
    <3>1. k + 1 \in 0..d /\ k + 1 # 0 /\ (k + 1) - 1 = k
      OBVIOUS
    <3>. QED  BY <1>0, <1>6, <1>7, <2>2, <3>1
  <2>3. \A k \in 0..(d - 1) : k \in G => k + 1 \in G
    BY <2>2
  <2> HIDE DEF G, Loop
  <2>4. 0..d \subseteq G
    BY <2>1, <2>3, SetInduction
  <2>. QED  BY <2>4 DEF G
<1>8. Pass(m, remote, pairs, score) = (CHOOSE g : Loop(g))[Len(m)]
  BY DEF Pass, Step
<1>9. Loop(CHOOSE g : Loop(g))
  <2> HIDE DEF Loop
  <2>. QED  BY <1>6
<1>10. Pass(m, remote, pairs, score) = h[d]
  <2> HIDE DEF Loop
  <2>. QED  BY <1>0, <1>7, <1>8, <1>9
<1>11. h \in [0..d -> S] /\ h[0] = m
  BY <1>4 DEF Iterates
<1>12. PassLoop(h, d, m, remote, pairs, score)
  BY <1>5, <1>11 DEF PassLoop, Step
<1>. QED  BY <1>10, <1>12

\* What is left for i: a remote event of its pairs that neither a match found
\* before nor one made for an earlier event has taken.
Open(m, n, remote, pairs, i) ==
  {j \in DOMAIN remote : /\ <<i, j>> \in pairs
                         /\ \A k \in DOMAIN m : m[k] # j
                         /\ \A k \in 1..(i - 1) : n[k] # j}

\* A pass said without its loop.
Picks(n, m, remote, pairs, score) ==
  \A i \in DOMAIN m : n[i] =
    IF m[i] # 0 THEN m[i]
    ELSE Best(Open(m, n, remote, pairs, i),
              [j \in DOMAIN remote |-> score[<<i, j>>]], Len(remote))

\* That is what a pass picks.
LEMMA PassPicks ==
  ASSUME NEW d \in Nat, NEW remote, Len(remote) \in Nat, DOMAIN remote = 1..Len(remote),
         NEW m \in [1..d -> 0..Len(remote)], NEW pairs, NEW score,
         NEW n, n = Pass(m, remote, pairs, score)
  PROVE  n \in [1..d -> 0..Len(remote)] /\ Picks(n, m, remote, pairs, score)
<1> DEFINE r == Len(remote)
           Offer(x, i) == {j \in Free(x, remote) : <<i, j>> \in pairs}
           Pick(C, i) == Best(C, [j \in DOMAIN remote |-> score[<<i, j>>]], Len(remote))
<1>1. PICK h : PassLoop(h, d, m, remote, pairs, score) /\ n = h[d]
  BY PassRuns
<1>2. /\ h \in [0..d -> [1..d -> 0..r]] /\ h[0] = m
      /\ \A i \in 1..d : h[i] = IF h[i - 1][i] # 0 THEN h[i - 1]
                                ELSE [h[i - 1] EXCEPT ![i] = Pick(Offer(h[i - 1], i), i)]
  BY <1>1 DEF PassLoop
<1> HIDE DEF Pick, Offer
<1> DEFINE G == {i \in 0..d : \A k \in 1..d : h[i][k] = IF k <= i THEN h[k][k] ELSE m[k]}
<1>3. 0 \in G
  BY <1>2
<1>4. ASSUME NEW i \in 0..(d - 1), i \in G PROVE i + 1 \in G
  <2> DEFINE l == i + 1
  <2>1. l \in 1..d /\ l \in 0..d /\ l - 1 = i /\ i \in 0..d
    OBVIOUS
  <2>2. h[i] \in [1..d -> 0..r]
    BY <1>2, <2>1
  <2>3. h[l] = IF h[i][l] # 0 THEN h[i] ELSE [h[i] EXCEPT ![l] = Pick(Offer(h[i], l), l)]
    BY <1>2, <2>1
  <2>4. \A k \in 1..d : k <= l <=> (k <= i \/ k = l)
    OBVIOUS
  <2> HIDE DEF l
  <2>5. \A k \in 1..d : k # l => h[l][k] = h[i][k]
    BY <2>2, <2>3
  <2>6. \A k \in 1..d : h[l][k] = IF k <= l THEN h[k][k] ELSE m[k]
    BY <1>4, <2>1, <2>4, <2>5
  <2>7. l \in G
    BY <2>1, <2>6
  <2>. QED  BY <2>7 DEF l
<1>5. \A i \in 0..d : i \in G
  <2>1. \A i \in 0..(d - 1) : i \in G => i + 1 \in G
    BY <1>4
  <2> HIDE DEF G
  <2>2. 0..d \subseteq G
    BY <1>3, <2>1, SetInduction
  <2>. QED  BY <2>2
<1>6. n \in [1..d -> 0..r] /\ \A k \in 1..d : n[k] = h[k][k]
  <2>1. d \in 0..d /\ \A k \in 1..d : k <= d
    OBVIOUS
  <2>. QED  BY <1>1, <1>2, <1>5, <2>1
<1>7. ASSUME NEW i \in 1..d
      PROVE  n[i] = IF m[i] # 0 THEN m[i] ELSE Pick(Open(m, n, remote, pairs, i), i)
  <2> DEFINE x == h[i - 1]
  <2>1. i - 1 \in 0..d /\ ~(i <= i - 1) /\ \A k \in 1..d : k <= i - 1 <=> k \in 1..(i - 1)
    OBVIOUS
  <2>2. \A k \in 1..d : x[k] = IF k \in 1..(i - 1) THEN n[k] ELSE m[k]
    BY <1>5, <1>6, <2>1
  <2>3. h[i] = IF x[i] # 0 THEN x ELSE [x EXCEPT ![i] = Pick(Offer(x, i), i)]
    BY <1>2
  <2>4. x \in [1..d -> 0..r] /\ x[i] = m[i]
    BY <1>2, <2>1, <2>2
  <2> HIDE DEF x
  <2>5. n[i] = IF m[i] # 0 THEN m[i] ELSE Pick(Offer(x, i), i)
    BY <1>6, <2>3, <2>4
  <2>6. ASSUME NEW k \in 1..(i - 1) PROVE k \in 1..d /\ (m[k] = 0 \/ n[k] = m[k])
    <3>1. k \in 1..d /\ k - 1 \in 0..d /\ ~(k <= k - 1)
      OBVIOUS
    <3>2. h[k - 1] \in [1..d -> 0..r] /\ h[k - 1][k] = m[k]
      BY <1>2, <1>5, <3>1
    <3>3. h[k] = IF h[k - 1][k] # 0 THEN h[k - 1]
                 ELSE [h[k - 1] EXCEPT ![k] = Pick(Offer(h[k - 1], k), k)]
      BY <1>2, <3>1
    <3>. QED  BY <1>6, <3>1, <3>2, <3>3
  <2>7. DOMAIN x = 1..d /\ DOMAIN m = 1..d
    BY <2>4
  <2>8. ASSUME NEW j \in 1..r
        PROVE  (\A k \in 1..d : x[k] # j)
                 <=> (\A k \in 1..d : m[k] # j) /\ (\A k \in 1..(i - 1) : n[k] # j)
    BY <2>2, <2>6
  <2>9. Offer(x, i) = Open(m, n, remote, pairs, i)
    BY <2>7, <2>8 DEF Offer, Open, Free
  <2>. QED  BY <2>5, <2>9
<1>. QED  BY <1>6, <1>7 DEF Pick, Picks

\* A pass keeps the matches it finds and adds some of its pairs.
LEMMA PassMatches ==
  ASSUME NEW d \in Nat, NEW remote, Len(remote) \in Nat, DOMAIN remote = 1..Len(remote),
         NEW m, OneToOne(m, d, Len(remote)), NEW pairs, NEW score
  PROVE  /\ OneToOne(Pass(m, remote, pairs, score), d, Len(remote))
         /\ \A i \in 1..d : LET j == Pass(m, remote, pairs, score)[i] IN
              j = m[i] \/ (m[i] = 0 /\ (j = 0 \/ <<i, j>> \in pairs))
<1> DEFINE r == Len(remote) n == Pass(m, remote, pairs, score)
<1>1. m \in [1..d -> 0..r] /\ \A i, k \in 1..d : m[i] = m[k] /\ m[i] # 0 => i = k
  BY DEF OneToOne
<1>2. n \in [1..d -> 0..r] /\ Picks(n, m, remote, pairs, score)
  BY <1>1, PassPicks
<1> HIDE DEF n
<1>4. ASSUME NEW i \in 1..d
      PROVE  IF m[i] # 0 THEN n[i] = m[i] ELSE n[i] \in Open(m, n, remote, pairs, i) \cup {0}
  <2> DEFINE C == Open(m, n, remote, pairs, i)
  <2>1. C \subseteq 1..r
    BY DEF Open
  <2> HIDE DEF C
  <2>2. n[i] = IF m[i] # 0 THEN m[i]
               ELSE Best(C, [j \in DOMAIN remote |-> score[<<i, j>>]], Len(remote))
    BY <1>1, <1>2 DEF C, Picks
  <2>3. m[i] = 0 => n[i] \in C \cup {0}
    BY <2>1, <2>2, BestIsCandidate
  <2>. QED  BY <2>2, <2>3 DEF C
<1>5. ASSUME NEW i \in 1..d, NEW k \in 1..d, i < k, n[i] = n[k], n[i] # 0 PROVE FALSE
  <2>1. i \in 1..(k - 1) /\ DOMAIN m = 1..d
    BY <1>1, <1>5
  <2>2. m[k] # 0
    BY <1>4, <1>5, <2>1 DEF Open
  <2>3. n[k] = m[k] /\ i # k
    BY <1>4, <1>5, <2>2
  <2>4. m[i] = 0
    BY <1>1, <1>4, <1>5, <2>3
  <2>5. n[i] \in Open(m, n, remote, pairs, i)
    BY <1>4, <1>5, <2>4
  <2>. QED  BY <1>5, <2>1, <2>3, <2>5 DEF Open
<1>6. \A i, k \in 1..d : n[i] = n[k] /\ n[i] # 0 => i = k
  <2>1. \A i, k \in 1..d : i < k \/ k < i \/ i = k
    OBVIOUS
  <2>. QED  BY <1>5, <2>1
<1>7. \A i \in 1..d : n[i] = m[i] \/ (m[i] = 0 /\ (n[i] = 0 \/ <<i, n[i]>> \in pairs))
  BY <1>4 DEF Open
<1>. QED  BY <1>2, <1>6, <1>7 DEF OneToOne, n

\* The scores of pairs are tuples of one length.
Scored(pairs, score, d, remote, L) ==
  \A i \in 1..d, j \in 1..Len(remote) :
    <<i, j>> \in pairs => score[<<i, j>>] \in [1..L -> Int]

\* What a pass picks is the first of the best.
Chooses(n, m, remote, pairs, score) ==
  \A i \in DOMAIN m :
    IF m[i] # 0 THEN n[i] = m[i]
    ELSE FirstBest(n[i], Open(m, n, remote, pairs, i),
                   [j \in DOMAIN remote |-> score[<<i, j>>]])

\* That is what a pass chooses, if scores are tuples of one length.
LEMMA PassChooses ==
  ASSUME NEW d \in Nat, NEW remote, Len(remote) \in Nat, DOMAIN remote = 1..Len(remote),
         NEW m \in [1..d -> 0..Len(remote)], NEW pairs, NEW score, NEW L \in Nat,
         Scored(pairs, score, d, remote, L),
         NEW n, n = Pass(m, remote, pairs, score)
  PROVE  Chooses(n, m, remote, pairs, score)
<1>. SUFFICES ASSUME NEW i \in 1..d
     PROVE  IF m[i] # 0 THEN n[i] = m[i]
            ELSE FirstBest(n[i], Open(m, n, remote, pairs, i),
                           [j \in DOMAIN remote |-> score[<<i, j>>]])
  BY DEF Chooses
<1> DEFINE C == Open(m, n, remote, pairs, i)
           f == [j \in DOMAIN remote |-> score[<<i, j>>]]
<1>1. Picks(n, m, remote, pairs, score)
  BY PassPicks
<1>2. n[i] = IF m[i] # 0 THEN m[i] ELSE Best(C, f, Len(remote))
  BY <1>1 DEF Picks
<1>3. C \subseteq 1..Len(remote) /\ \A j \in C : f[j] \in [1..L -> Int]
  BY DEF Open, Scored
<1> HIDE DEF C, f
<1>4. FirstBest(Best(C, f, Len(remote)), C, f)
  BY <1>3, BestIsFirst
<1>. QED  BY <1>2, <1>4 DEF C, f

\* The events K of a plan are matched in one day as in another: with the
\* counterparts, by b, of the events V they are matched with there.
Follows(K, V, b, m, x) ==
  \A i \in K : IF m[i] = 0 THEN x[i] = 0 ELSE m[i] \in V /\ x[i] = b[m[i]]

\* Pairs and scores go by the class of a remote event.
ByClass(K, V, W, c, e, pairs, score, pairs2, score2) ==
  \A i \in K, j \in V, k \in W : c[j] = e[k] =>
    /\ <<i, j>> \in pairs <=> <<i, k>> \in pairs2
    /\ <<i, j>> \in pairs => score[<<i, j>>] = score2[<<i, k>>]

\* Of two classes with one score the same comes first on both days.
TiesInOrder(K, V, W, c, e, pairs, score) ==
  \A i \in K : \A j, l \in V, k, q \in W :
    /\ <<i, j>> \in pairs /\ <<i, l>> \in pairs
    /\ score[<<i, j>>] = score[<<i, l>>] /\ c[j] # c[l]
    /\ e[k] = c[j] /\ e[q] = c[l]
    => (j < l <=> k < q)

\* Counterparts of one class.
Paired(b, V, W, c, e) == b \in Bijection(V, W) /\ \A j \in V : e[b[j]] = c[j]

\* What is not in W is matched, and with events not in K.
OthersTaken(x, K, W, d, r) ==
  /\ \A i \in (1..d) \ K : x[i] # 0 /\ x[i] \notin W
  /\ \A k \in (1..r) \ W : \E i \in (1..d) \ K : x[i] = k

\* V is given to K alone, and K gets nothing else.
GivenTo(n, K, V, d) ==
  (\A i \in K : n[i] \in V \cup {0}) /\ (\A i \in (1..d) \ K : n[i] \notin V)

\* What a pass leaves: counterparts matched again, and the others as they were.
FollowsAgain(K, V, W, c, e, n, y) == \E a : Paired(a, V, W, c, e) /\ Follows(K, V, a, n, y)
Kept(S, x, y) == \A i \in S : y[i] = x[i]

\* A pass does the same on a day where the events V it gives to K have counterparts
\* W, of the same class, and all else is taken by others: as scores decide by class,
\* and of different classes with one score the same comes first on both days.
LEMMA PassAgain ==
  ASSUME NEW d \in Nat, NEW s, Len(s) \in Nat, DOMAIN s = 1..Len(s),
         NEW t, Len(t) \in Nat, DOMAIN t = 1..Len(t),
         NEW m \in [1..d -> 0..Len(s)], NEW x \in [1..d -> 0..Len(t)],
         NEW V, V \subseteq 1..Len(s), NEW W, W \subseteq 1..Len(t),
         NEW K, K \subseteq 1..d, NEW b, NEW c, NEW e, Paired(b, V, W, c, e),
         Follows(K, V, b, m, x), OthersTaken(x, K, W, d, Len(t)),
         NEW pairs, NEW score, NEW pairs2, NEW score2, NEW L \in Nat,
         Scored(pairs, score, d, s, L), Scored(pairs2, score2, d, t, L),
         ByClass(K, V, W, c, e, pairs, score, pairs2, score2),
         TiesInOrder(K, V, W, c, e, pairs, score),
         NEW n, n = Pass(m, s, pairs, score), NEW y, y = Pass(x, t, pairs2, score2),
         GivenTo(n, K, V, d)
  PROVE  FollowsAgain(K, V, W, c, e, n, y) /\ Kept((1..d) \ K, x, y)
<1>. b \in Bijection(V, W) /\ \A j \in V : e[b[j]] = c[j]
  BY DEF Paired
<1>. /\ \A i \in (1..d) \ K : x[i] # 0 /\ x[i] \notin W
     /\ \A k \in (1..Len(t)) \ W : \E i \in (1..d) \ K : x[i] = k
  BY DEF OthersTaken
<1>. (\A i \in K : n[i] \in V \cup {0}) /\ (\A i \in (1..d) \ K : n[i] \notin V)
  BY DEF GivenTo
<1>. \A i \in K, j \in V, k \in W : c[j] = e[k] =>
       /\ <<i, j>> \in pairs <=> <<i, k>> \in pairs2
       /\ <<i, j>> \in pairs => score[<<i, j>>] = score2[<<i, k>>]
  BY DEF ByClass
<1> DEFINE C(i) == Open(m, n, s, pairs, i)
           D(i) == Open(x, y, t, pairs2, i)
           f(i) == [j \in DOMAIN s |-> score[<<i, j>>]]
           g(i) == [j \in DOMAIN t |-> score2[<<i, j>>]]
           Same(a) == \A j \in V : e[a[j]] = c[j]
           Upto(a, i) == \A q \in K : q <= i =>
                           IF n[q] = 0 THEN y[q] = 0 ELSE y[q] = a[n[q]]
           Ok(a, i) == a \in Bijection(V, W) /\ Same(a) /\ Follows(K, V, a, m, x) /\ Upto(a, i)
<1>1. \A i \in 1..d : IF m[i] # 0 THEN n[i] = m[i] ELSE FirstBest(n[i], C(i), f(i))
  <2>1. Chooses(n, m, s, pairs, score)
    BY PassChooses
  <2>. QED  BY <2>1 DEF Chooses
<1>2. \A i \in 1..d : IF x[i] # 0 THEN y[i] = x[i] ELSE FirstBest(y[i], D(i), g(i))
  <2>1. Chooses(y, x, t, pairs2, score2)
    BY PassChooses
  <2>. QED  BY <2>1 DEF Chooses
<1>3. n \in [1..d -> 0..Len(s)] /\ y \in [1..d -> 0..Len(t)]
  BY PassPicks
<1>4. \A i \in (1..d) \ K : y[i] = x[i]
  BY <1>2
<1>5. \A i \in 1..d, j \in 1..Len(s) : j \in C(i) <=>
        /\ <<i, j>> \in pairs /\ \A k \in 1..d : m[k] # j
        /\ \A k \in 1..(i - 1) : n[k] # j
  BY DEF Open
<1>6. \A i \in 1..d, j \in 1..Len(t) : j \in D(i) <=>
        /\ <<i, j>> \in pairs2 /\ \A k \in 1..d : x[k] # j
        /\ \A k \in 1..(i - 1) : y[k] # j
  BY DEF Open
<1>7. \A i \in 1..d : C(i) \subseteq 1..Len(s) /\ D(i) \subseteq W
  BY <1>6 DEF Open
<1>8. \A i \in 1..d, j \in 1..Len(s) : f(i)[j] = score[<<i, j>>]
  OBVIOUS
<1>9. \A i \in 1..d, j \in 1..Len(t) : g(i)[j] = score2[<<i, j>>]
  OBVIOUS
<1> HIDE DEF C, D, f, g
\* One event further: what is open on one day is what is open on the other.
<1>10. ASSUME NEW i \in K, m[i] = 0, NEW a, Ok(a, i - 1), NEW j \in V
       PROVE  j \in C(i) <=> a[j] \in D(i)
  <2>1. a[j] \in W /\ e[a[j]] = c[j] /\ \A l \in V : a[l] = a[j] => l = j
    BY <1>10 DEF Bijection, Injection, Surjection, IsInjective
  <2>2. <<i, j>> \in pairs <=> <<i, a[j]>> \in pairs2
    BY <2>1
  <2>3. \A k \in 1..d : m[k] = j => x[k] = a[j]
    <3>1. ASSUME NEW k \in 1..d, m[k] = j PROVE x[k] = a[j]
      <4>1. j # 0
        OBVIOUS
      <4>2. n[k] = m[k]
        BY <1>1, <3>1, <4>1
      <4>3. k \in K
        BY <3>1, <4>2
      <4>. QED  BY <1>10, <3>1, <4>1, <4>3 DEF Follows
    <3>. QED  BY <3>1
  <2>4. \A k \in 1..d : x[k] = a[j] => m[k] = j
    <3>1. ASSUME NEW k \in 1..d, x[k] = a[j] PROVE m[k] = j
      <4>1. k \in K /\ x[k] # 0
        BY <2>1, <3>1
      <4>2. m[k] \in V /\ x[k] = a[m[k]]
        BY <1>10, <4>1 DEF Follows
      <4>. QED  BY <2>1, <3>1, <4>2
    <3>. QED  BY <3>1
  <2>5. \A k \in 1..(i - 1) : n[k] = j <=> y[k] = a[j]
    <3>1. ASSUME NEW k \in 1..(i - 1) PROVE n[k] = j <=> y[k] = a[j]
      <4>1. k \in 1..d /\ k <= i - 1
        OBVIOUS
      <4>2. CASE k \in K
        <5>1. IF n[k] = 0 THEN y[k] = 0 ELSE y[k] = a[n[k]]
          BY <1>10, <4>1, <4>2
        <5>2. n[k] \in V \cup {0} /\ j # 0 /\ a[j] # 0
          BY <2>1, <4>2
        <5>. QED  BY <2>1, <5>1, <5>2
      <4>3. CASE k \notin K
        BY <1>4, <2>1, <4>1, <4>3
      <4>. QED  BY <4>2, <4>3
    <3>. QED  BY <3>1
  <2>6. i \in 1..d /\ j \in 1..Len(s) /\ a[j] \in 1..Len(t)
    BY <2>1
  <2>7. j \in C(i) <=> /\ <<i, j>> \in pairs /\ \A k \in 1..d : m[k] # j
                       /\ \A k \in 1..(i - 1) : n[k] # j
    BY <1>5, <2>6
  <2>8. a[j] \in D(i) <=> /\ <<i, a[j]>> \in pairs2 /\ \A k \in 1..d : x[k] # a[j]
                          /\ \A k \in 1..(i - 1) : y[k] # a[j]
    BY <1>6, <2>6
  <2>. QED  BY <2>2, <2>3, <2>4, <2>5, <2>7, <2>8
<1> DEFINE G == {i \in 0..d : \E a : Ok(a, i)}
<1>11. 0 \in G
  <2>1. \A q \in K : ~(q <= 0)
    OBVIOUS
  <2>2. Ok(b, 0)
    BY <2>1
  <2> HIDE DEF Ok
  <2>. QED  BY <2>2
<1>12. ASSUME NEW i \in 1..d, i - 1 \in G PROVE i \in G
  <2>1. PICK a : Ok(a, i - 1)
    BY <1>12
  <2>2. \A q \in K : q <= i <=> (q <= i - 1 \/ q = i)
    OBVIOUS
  <2>3. CASE i \notin K
    <3>1. Ok(a, i)
      BY <2>1, <2>2, <2>3
    <3> HIDE DEF Ok
    <3>. QED  BY <3>1
  <2>4. CASE i \in K /\ m[i] # 0
    <3>1. n[i] = m[i] /\ x[i] = a[m[i]] /\ m[i] \in V
      BY <1>1, <2>1, <2>4 DEF Follows
    <3>2. x[i] # 0
      BY <2>1, <3>1 DEF Bijection, Injection
    <3>3. y[i] = a[n[i]]
      BY <1>2, <3>1, <3>2
    <3>4. Ok(a, i)
      BY <2>1, <2>2, <2>4, <3>1, <3>3
    <3> HIDE DEF Ok
    <3>. QED  BY <3>4
  <2>5. CASE i \in K /\ m[i] = 0 /\ n[i] = 0
    <3>1. x[i] = 0
      BY <2>1, <2>5 DEF Follows
    <3>2. 0 \notin C(i)
      BY <1>7
    <3>3. C(i) = {}
      BY <1>1, <2>5, <3>2 DEF FirstBest
    <3>4. D(i) = {}
      <4>. SUFFICES ASSUME NEW k \in D(i) PROVE FALSE
        OBVIOUS
      <4>1. PICK j \in V : a[j] = k
        BY <1>7, <2>1 DEF Bijection, Surjection
      <4>2. j \in C(i) <=> a[j] \in D(i)
        BY <1>10, <2>1, <2>5
      <4>. QED  BY <3>3, <4>1, <4>2
    <3>5. y[i] = 0
      BY <1>2, <3>1, <3>4 DEF FirstBest
    <3>6. Ok(a, i)
      BY <2>1, <2>2, <2>5, <3>5
    <3> HIDE DEF Ok
    <3>. QED  BY <3>6
  <2>6. CASE i \in K /\ m[i] = 0 /\ n[i] # 0
    <3> DEFINE j == n[i] k == y[i]
    <3>1. x[i] = 0
      BY <2>1, <2>6 DEF Follows
    <3>2. j \in V /\ j \in C(i)
      BY <1>1, <2>6 DEF FirstBest
    <3>3. a[j] \in D(i)
      BY <1>10, <2>1, <2>6, <3>2
    <3>4. k \in D(i) /\ k \in W
      BY <1>2, <1>7, <3>1, <3>3 DEF FirstBest
    <3>5. PICK l \in V : a[l] = k
      BY <2>1, <3>4 DEF Bijection, Surjection
    <3>6. l \in C(i)
      BY <1>10, <2>1, <2>6, <3>4, <3>5
    <3>7. /\ ~Beats(f(i)[l], f(i)[j]) /\ (l < j => Beats(f(i)[j], f(i)[l]))
      BY <1>1, <2>6, <3>2, <3>6 DEF FirstBest
    <3>8. /\ ~Beats(g(i)[a[j]], g(i)[k]) /\ (a[j] < k => Beats(g(i)[k], g(i)[a[j]]))
      BY <1>2, <3>1, <3>3, <3>4 DEF FirstBest
    <3>9. a[j] \in W /\ e[a[j]] = c[j] /\ e[k] = c[l]
      BY <2>1, <3>2, <3>5 DEF Bijection, Injection
    <3>10. <<i, j>> \in pairs /\ <<i, l>> \in pairs
      BY <1>5, <3>2, <3>6
    <3> DEFINE v == score[<<i, j>>] w == score[<<i, l>>]
    <3>11. /\ v = f(i)[j] /\ w = f(i)[l] /\ v = g(i)[a[j]] /\ w = g(i)[k]
           /\ v \in [1..L -> Int] /\ w \in [1..L -> Int]
      <4>1. i \in 1..d /\ j \in 1..Len(s) /\ l \in 1..Len(s) /\ k \in 1..Len(t) /\ a[j] \in 1..Len(t)
        BY <2>6, <3>2, <3>4, <3>9
      <4>2. v = f(i)[j] /\ w = f(i)[l]
        BY <1>8, <4>1
      <4>3. g(i)[a[j]] = score2[<<i, a[j]>>] /\ g(i)[k] = score2[<<i, k>>]
        <5>1. \A q \in 1..Len(t) : g(i)[q] = score2[<<i, q>>]
          BY <1>9, <4>1
        <5> HIDE DEF j, k
        <5>. QED  BY <4>1, <5>1
      <4>4. v = score2[<<i, a[j]>>] /\ w = score2[<<i, k>>]
        <5>1. \A p \in V, q \in W : c[p] = e[q] /\ <<i, p>> \in pairs => score[<<i, p>>] = score2[<<i, q>>]
          BY <2>6
        <5> HIDE DEF j, k
        <5>2. v = score2[<<i, a[j]>>]
          BY <3>2, <3>9, <3>10, <5>1
        <5>3. w = score2[<<i, k>>]
          BY <3>4, <3>9, <3>10, <5>1
        <5>. QED  BY <5>2, <5>3
      <4>5. v \in [1..L -> Int] /\ w \in [1..L -> Int]
        BY <3>10, <4>1 DEF Scored
      <4>. QED  BY <4>2, <4>3, <4>4, <4>5
    <3> HIDE DEF j, k, v, w
    <3>12. ~Beats(w, v) /\ ~Beats(v, w) /\ ~(l < j) /\ ~(a[j] < k)
      BY <3>7, <3>8, <3>11
    <3>13. v = w
      BY <3>11, <3>12, BeatsOrder
    <3>14. CASE c[j] = c[l]
      <4> DEFINE z == [a EXCEPT ![j] = k, ![l] = a[j]]
      <4>1. a \in [V -> W] /\ \A o, p \in V : a[o] = a[p] => o = p
        BY <2>1 DEF Bijection, Injection, IsInjective
      <4>2. z \in [V -> W] /\ \A o \in V : z[o] = IF o = l THEN a[j] ELSE IF o = j THEN k ELSE a[o]
        BY <3>2, <3>4, <3>5, <3>9, <4>1
      <4> HIDE DEF z
      <4>3. \A o \in V : z[o] = IF o = j THEN a[l] ELSE IF o = l THEN a[j] ELSE a[o]
        BY <3>5, <4>2
      <4>4. z \in Bijection(V, W)
        <5>1. \A o, p \in V : z[o] = z[p] => o = p
          BY <3>2, <3>5, <4>1, <4>3
        <5>2. \A q \in W : \E o \in V : z[o] = q
          <6>1. ASSUME NEW q \in W PROVE \E o \in V : z[o] = q
            <7>1. PICK o \in V : a[o] = q
              BY <2>1 DEF Bijection, Surjection
            <7>4. CASE o = j
              BY <3>5, <4>2, <7>1, <7>4
            <7>2. CASE o = l
              BY <3>2, <4>3, <7>1, <7>2
            <7>3. CASE o # j /\ o # l
              BY <4>3, <7>1, <7>3
            <7>. QED  BY <7>4, <7>2, <7>3
          <6>. QED  BY <6>1
        <5>. QED  BY <4>2, <5>1, <5>2 DEF Bijection, Injection, Surjection, IsInjective
      <4>5. Same(z)
        BY <2>1, <3>2, <3>5, <3>9, <3>14, <4>3
      <4>6. \A q \in 1..d : m[q] # j /\ m[q] # l
        BY <1>5, <3>2, <3>6
      <4>7. \A q \in K : q <= i - 1 => n[q] # j /\ n[q] # l
        <5>1. \A q \in K : q <= i - 1 => q \in 1..(i - 1)
          OBVIOUS
        <5>2. i \in 1..d /\ j \in 1..Len(s) /\ l \in 1..Len(s)
          BY <3>2
        <5>3. \A q \in 1..(i - 1) : n[q] # j /\ n[q] # l
          <6>1. \A q \in 1..(i - 1) : n[q] # j
            BY <1>5, <3>2, <5>2
          <6>2. \A q \in 1..(i - 1) : n[q] # l
            BY <1>5, <3>6, <5>2
          <6>. QED  BY <6>1, <6>2
        <5>. QED  BY <5>1, <5>3
      <4>8. Follows(K, V, z, m, x)
        <5>. SUFFICES ASSUME NEW q \in K PROVE IF m[q] = 0 THEN x[q] = 0 ELSE m[q] \in V /\ x[q] = z[m[q]]
          BY DEF Follows
        <5>1. IF m[q] = 0 THEN x[q] = 0 ELSE m[q] \in V /\ x[q] = a[m[q]]
          BY <2>1 DEF Follows
        <5>2. q \in 1..d /\ m[q] # j /\ m[q] # l
          BY <4>6
        <5>. QED  BY <4>3, <5>1, <5>2
      <4>9. Upto(z, i)
        <5>1. z[j] = k
          BY <3>2, <3>5, <4>3
        <5>2. ASSUME NEW q \in K, q <= i - 1 PROVE n[q] = 0 \/ (n[q] \in V /\ z[n[q]] = a[n[q]])
          <6>1. n[q] = 0 \/ n[q] \in V
            OBVIOUS
          <6>2. n[q] # j /\ n[q] # l
            BY <4>7, <5>2
          <6>. QED  BY <4>3, <6>1, <6>2
        <5>. SUFFICES ASSUME NEW q \in K, q <= i
             PROVE  IF n[q] = 0 THEN y[q] = 0 ELSE y[q] = z[n[q]]
          OBVIOUS
        <5>3. CASE q = i
          BY <2>6, <5>1, <5>3 DEF j, k
        <5>4. CASE q # i
          <6>1. q <= i - 1
            BY <5>4
          <6>2. IF n[q] = 0 THEN y[q] = 0 ELSE y[q] = a[n[q]]
            BY <2>1, <6>1
          <6>. QED  BY <5>2, <6>1, <6>2
        <5>. QED  BY <5>3, <5>4
      <4>10. Ok(z, i)
        BY <4>4, <4>5, <4>8, <4>9
      <4> HIDE DEF Ok
      <4>. QED  BY <4>10
    <3>15. CASE c[j] # c[l]
      <4>0. \A o, p \in V, q, r \in W :
              /\ <<i, o>> \in pairs /\ <<i, p>> \in pairs
              /\ score[<<i, o>>] = score[<<i, p>>] /\ c[o] # c[p]
              /\ e[q] = c[o] /\ e[r] = c[p]
              => (o < p <=> q < r)
        <5> DEFINE Ties(h) == \A o, p \in V, q, r \in W :
                                /\ <<h, o>> \in pairs /\ <<h, p>> \in pairs
                                /\ score[<<h, o>>] = score[<<h, p>>] /\ c[o] # c[p]
                                /\ e[q] = c[o] /\ e[r] = c[p]
                                => (o < p <=> q < r)
        <5>1. \A h \in K : Ties(h)
          BY ZenonT(30) DEF TiesInOrder
        <5>2. i \in K
          BY <2>6
        <5> HIDE DEF Ties
        <5>3. Ties(i)
          BY <5>1, <5>2
        <5>. QED  BY <5>3 DEF Ties
      <4>1. j < l <=> a[j] < k
        BY <3>2, <3>4, <3>9, <3>10, <3>13, <3>15, <4>0 DEF v, w
      <4>2. j \in Int /\ l \in Int
        BY <3>2
      <4>3. j = l
        BY <3>12, <4>1, <4>2
      <4>. QED  BY <3>15, <4>3
    <3>. QED  BY <3>14, <3>15
  <2>. QED  BY <2>3, <2>4, <2>5, <2>6
<1>13. d \in G
  <2> HIDE DEF G
  <2>1. \A i \in 0..(d - 1) : i \in G => i + 1 \in G
    <3>1. \A i \in 0..(d - 1) : i + 1 \in 1..d /\ (i + 1) - 1 = i
      OBVIOUS
    <3>. QED  BY <1>12, <3>1
  <2>2. 0..d \subseteq G
    BY <1>11, <2>1, SetInduction
  <2>. QED  BY <2>2
<1>14. PICK a : Ok(a, d)
  BY <1>13
<1>15. Follows(K, V, a, n, y)
  <2>1. \A q \in K : q <= d
    OBVIOUS
  <2>. QED  BY <1>14, <2>1 DEF Follows
<1>16. Paired(a, V, W, c, e)
  BY <1>14 DEF Paired
<1>. QED  BY <1>4, <1>15, <1>16 DEF FollowsAgain, Kept

\* Summary and start single out an event.
OneOfKey(r) == \A j, k \in 1..Len(r) : SameKey(r[j], r[k]) => j = k

\* The result of the first two passes: by summary and start.
ByKey(desired, remote) ==
  LET all == (DOMAIN desired) \X (DOMAIN remote)
      noScore == [c \in all |-> <<>>]
      byId == Pass([i \in DOMAIN desired |-> 0], remote,
                   {c \in all : Hinted(desired[c[1]], remote, c[2])}, noScore)
  IN  Pass(byId, remote, {c \in all : Canonical(desired[c[1]], remote[c[2]])}, noScore)

\* The pairs and scores of the last two passes.
FuzzyPairs(desired, remote) ==
  {c \in (DOMAIN desired) \X (DOMAIN remote) : Fuzzy(desired[c[1]], remote[c[2]])}
FuzzyScores(desired, remote) ==
  [c \in (DOMAIN desired) \X (DOMAIN remote) |-> FuzzyScore(desired[c[1]], remote[c[2]])]
CoverPairs(desired, remote) ==
  {c \in (DOMAIN desired) \X (DOMAIN remote) : Covered(desired[c[1]], remote[c[2]])}
CoverScores(desired, remote) ==
  [c \in (DOMAIN desired) \X (DOMAIN remote) |-> CoverScore(desired[c[1]], remote[c[2]])]

\* The result of the first three passes.
ByTime(desired, remote) ==
  Pass(ByKey(desired, remote), remote, FuzzyPairs(desired, remote), FuzzyScores(desired, remote))

\* The matching, pass by pass.
LEMMA MatchingPasses ==
  ASSUME NEW desired, NEW remote
  PROVE  Matching(desired, remote) =
           Pass(ByTime(desired, remote), remote, CoverPairs(desired, remote), CoverScores(desired, remote))
BY DEF Matching, ByTime, ByKey, FuzzyPairs, FuzzyScores, CoverPairs, CoverScores

\* Where summary and start single out an event on both sides, the first two passes
\* match by them.
LEMMA ByKeyMatches ==
  ASSUME NEW desired, Len(desired) \in Nat, DOMAIN desired = 1..Len(desired),
         NEW remote, Len(remote) \in Nat, DOMAIN remote = 1..Len(remote),
         OneOfKey(desired), OneOfKey(remote), NEW m, m = ByKey(desired, remote)
  PROVE  /\ m \in [1..Len(desired) -> 0..Len(remote)]
         /\ \A i \in 1..Len(desired), j \in 1..Len(remote) :
              m[i] = j <=> SameKey(desired[i], remote[j])
<1> DEFINE d == Len(desired)
           r == Len(remote)
           all == (DOMAIN desired) \X (DOMAIN remote)
           noScore == [c \in all |-> <<>>]
           none == [i \in DOMAIN desired |-> 0]
           hinted == {c \in all : Hinted(desired[c[1]], remote, c[2])}
           canonical == {c \in all : Canonical(desired[c[1]], remote[c[2]])}
           byId == Pass(none, remote, hinted, noScore)
<1>1. m = Pass(byId, remote, canonical, noScore)
  BY DEF ByKey
<1>2. none \in [1..d -> 0..r] /\ \A i \in 1..d : none[i] = 0
  OBVIOUS
<1>3. \A i \in 1..d, j \in 1..r : <<i, j>> \in hinted <=> SameKey(desired[i], remote[j])
  <2>1. ASSUME NEW i \in 1..d, NEW j \in 1..r, NEW k \in 1..(j - 1),
               SameKey(desired[i], remote[j])
        PROVE  ~SameKey(desired[i], remote[k])
    <3>1. k \in 1..r /\ k # j
      OBVIOUS
    <3>. QED  BY <2>1, <3>1 DEF OneOfKey, SameKey
  <2>. QED  BY <2>1 DEF Hinted
<1>4. \A i \in 1..d, j \in 1..r : <<i, j>> \in canonical => SameKey(desired[i], remote[j])
  BY DEF Canonical
<1>5. Scored(hinted, noScore, d, remote, 0) /\ Scored(canonical, noScore, d, remote, 0)
  <2>1. <<>> \in [1..0 -> Int]
    OBVIOUS
  <2>2. \A i \in 1..d, j \in 1..r : noScore[<<i, j>>] = <<>>
    OBVIOUS
  <2> HIDE DEF hinted, canonical, noScore
  <2>. QED  BY <2>1, <2>2 DEF Scored
<1> HIDE DEF hinted, canonical, noScore, none
<1>6. byId \in [1..d -> 0..r] /\ Chooses(byId, none, remote, hinted, noScore)
  BY <1>2, <1>5, PassPicks, PassChooses
<1> HIDE DEF byId
<1>7. m \in [1..d -> 0..r] /\ Chooses(m, byId, remote, canonical, noScore)
  <2>1. m \in [1..d -> 0..r]
    BY <1>1, <1>6, PassPicks
  <2>2. Chooses(m, byId, remote, canonical, noScore)
    BY <1>1, <1>5, <1>6, PassChooses
  <2>. QED  BY <2>1, <2>2
<1>8. ASSUME NEW i \in 1..d, byId[i] # 0 PROVE SameKey(desired[i], remote[byId[i]])
  <2>1. byId[i] \in Open(none, byId, remote, hinted, i)
    BY <1>2, <1>6, <1>8 DEF Chooses, FirstBest
  <2>. QED  BY <1>3, <1>6, <2>1 DEF Open
<1>9. ASSUME NEW i \in 1..d, NEW j \in 1..r, SameKey(desired[i], remote[j])
      PROVE  byId[i] = j
  <2>1. \A k \in 1..(i - 1) : byId[k] # j
    <3>1. ASSUME NEW k \in 1..(i - 1), byId[k] = j PROVE FALSE
      <4>1. k \in 1..d /\ k # i /\ j # 0
        OBVIOUS
      <4>2. SameKey(desired[k], remote[j])
        BY <1>8, <3>1, <4>1
      <4>. QED  BY <1>9, <4>1, <4>2 DEF OneOfKey, SameKey
    <3>. QED  BY <3>1
  <2>2. j \in Open(none, byId, remote, hinted, i)
    <3>1. \A k \in DOMAIN none : none[k] # j
      BY <1>2
    <3>2. <<i, j>> \in hinted
      BY <1>3, <1>9
    <3>. QED  BY <2>1, <3>1, <3>2 DEF Open
  <2>3. byId[i] \in Open(none, byId, remote, hinted, i)
    BY <1>2, <1>6, <2>2 DEF Chooses, FirstBest
  <2>4. byId[i] \in 1..r /\ SameKey(desired[i], remote[byId[i]])
    BY <1>3, <2>3 DEF Open
  <2>. QED  BY <1>9, <2>4 DEF OneOfKey, SameKey
<1>10. ASSUME NEW i \in 1..d PROVE m[i] = byId[i]
  <2>1. CASE byId[i] # 0
    BY <1>6, <1>7, <2>1 DEF Chooses
  <2>2. CASE byId[i] = 0
    <3>1. Open(byId, m, remote, canonical, i) = {}
      <4>1. ASSUME NEW j \in Open(byId, m, remote, canonical, i) PROVE FALSE
        <5>1. j \in 1..r /\ <<i, j>> \in canonical
          BY DEF Open
        <5>2. byId[i] = j
          BY <1>4, <1>9, <5>1
        <5>. QED  BY <2>2, <5>1, <5>2
      <4>. QED  BY <4>1
    <3>. QED  BY <1>6, <1>7, <2>2, <3>1 DEF Chooses, FirstBest
  <2>. QED  BY <2>1, <2>2
<1>. QED  BY <1>7, <1>8, <1>9, <1>10

\* Why a desired event and a remote one can be the same.
Alike(d, r) ==
  \/ SameKey(d, r)
  \/ Fuzzy(d, r)
  \/ Covered(d, r)

\* The four passes together.
LEMMA MatchingMatches ==
  ASSUME NEW desired, Len(desired) \in Nat, DOMAIN desired = 1..Len(desired),
         NEW remote, Len(remote) \in Nat, DOMAIN remote = 1..Len(remote)
  PROVE  LET m == Matching(desired, remote) IN
         /\ OneToOne(m, Len(desired), Len(remote))
         /\ \A i \in DOMAIN desired : m[i] # 0 => Alike(desired[i], remote[m[i]])
<1> DEFINE d == Len(desired)
           r == Len(remote)
           all == (DOMAIN desired) \X (DOMAIN remote)
           noScore == [c \in all |-> <<>>]
           none == [i \in DOMAIN desired |-> 0]
           hinted == {c \in all : Hinted(desired[c[1]], remote, c[2])}
           canonical == {c \in all : Canonical(desired[c[1]], remote[c[2]])}
           fuzzy == {c \in all : Fuzzy(desired[c[1]], remote[c[2]])}
           covered == {c \in all : Covered(desired[c[1]], remote[c[2]])}
           fuzzyScore == [c \in all |-> FuzzyScore(desired[c[1]], remote[c[2]])]
           coverScore == [c \in all |-> CoverScore(desired[c[1]], remote[c[2]])]
           byId == Pass(none, remote, hinted, noScore)
           byShape == Pass(byId, remote, canonical, noScore)
           byTime == Pass(byShape, remote, fuzzy, fuzzyScore)
           m == Pass(byTime, remote, covered, coverScore)
           Good(x) == \A i \in 1..d : x[i] # 0 => Alike(desired[i], remote[x[i]])
<1>1. Matching(desired, remote) = m
  BY DEF Matching
<1>2. \A i, j : <<i, j>> \in hinted \cup canonical \cup fuzzy \cup covered
                  => Alike(desired[i], remote[j])
  BY DEF Hinted, Canonical, Alike
<1> HIDE DEF hinted, canonical, fuzzy, covered, fuzzyScore, coverScore, noScore
<1>3. OneToOne(none, d, r) /\ Good(none)
  BY DEF OneToOne
<1>4. ASSUME NEW x, OneToOne(x, d, r), Good(x), NEW pairs, NEW score,
             pairs \subseteq hinted \cup canonical \cup fuzzy \cup covered
      PROVE  OneToOne(Pass(x, remote, pairs, score), d, r) /\ Good(Pass(x, remote, pairs, score))
  <2> DEFINE y == Pass(x, remote, pairs, score)
  <2>1. /\ OneToOne(y, d, r)
        /\ \A i \in 1..d : y[i] = x[i] \/ (x[i] = 0 /\ (y[i] = 0 \/ <<i, y[i]>> \in pairs))
    BY <1>4, PassMatches
  <2> HIDE DEF y
  <2>2. Good(y)
    BY <1>2, <1>4, <2>1
  <2>. QED  BY <2>1, <2>2 DEF y
<1> HIDE DEF none, Good
<1>5. OneToOne(byId, d, r) /\ Good(byId)
  BY <1>3, <1>4
<1> HIDE DEF byId
<1>6. OneToOne(byShape, d, r) /\ Good(byShape)
  BY <1>4, <1>5
<1> HIDE DEF byShape
<1>7. OneToOne(byTime, d, r) /\ Good(byTime)
  BY <1>4, <1>6
<1> HIDE DEF byTime
<1>8. OneToOne(m, d, r) /\ Good(m)
  BY <1>4, <1>7
<1> HIDE DEF m
<1>. QED  BY <1>1, <1>8 DEF Good
-----------------------------------------------------------------------------
(* The order of a snapshot *)

\* In start order.
Ascending(s) == \A k, l \in 1..Len(s) : k < l => s[k].st <= s[l].st

\* A finite set in start order: a sequence with each of its elements once.
Enumerates(s, S) ==
  /\ IsFiniteSet(S) /\ s \in Seq(S) /\ Len(s) = Cardinality(S)
  /\ \A e \in S : \E k \in 1..Len(s) : s[k] = e
  /\ \A k, l \in 1..Len(s) : s[k] = s[l] => k = l
  /\ Ascending(s)

\* The order of InOrder is total, so the events before each one number 0, 1, 2...
LEMMA InOrderEnumerates ==
  ASSUME NEW S, IsFiniteSet(S), \A e \in S : e.st \in Int
  PROVE  Enumerates(InOrder(S), S)
<1> DEFINE n == Cardinality(S)
           served == SetToSeq(S)
           rank(e) == CHOOSE k \in DOMAIN served : served[k] = e
           Lt(f, e) == f.st < e.st \/ (f.st = e.st /\ rank(f) < rank(e))
           before(e) == {f \in S : Lt(f, e)}
           pos == [e \in S |-> Cardinality(before(e)) + 1]
           s == [k \in 1..n |-> CHOOSE e \in S : Cardinality(before(e)) = k - 1]
<1>0. n \in Nat
  BY FS_CardinalityType
<1>1. InOrder(S) = s
  BY DEF InOrder
<1>2. IsFiniteSet(1..n) /\ Cardinality(1..n) = n
  BY <1>0, FS_Interval
<1>3. served \in Injection(1..n, S)
  <2>1. PICK f \in Bijection(1..n, S) : TRUE
    BY FS_CardinalityType DEF ExistsBijection
  <2>2. f \in [1..n -> S] /\ IsInjective(f)
    BY <2>1 DEF Bijection, Injection, IsInjective
  <2>3. served \in [1..n -> S] /\ IsInjective(served)
    BY <2>2 DEF SetToSeq
  <2> HIDE DEF served
  <2>. QED  BY <2>3 DEF Injection, IsInjective
<1>4. served \in Surjection(1..n, S)
  <2> HIDE DEF served
  <2>1. IsFiniteSet(S) /\ Cardinality(1..n) = Cardinality(S)
    BY <1>2
  <2>. QED  BY <1>3, <2>1, FS_Injection
<1> HIDE DEF served
<1>5. \A e \in S : rank(e) \in 1..n /\ served[rank(e)] = e
  BY <1>3, <1>4 DEF Injection, Surjection
<1> HIDE DEF rank
<1>6. \A e, f \in S : rank(e) = rank(f) => e = f
  BY <1>5
<1>7. \A e \in S : rank(e) \in Int
  BY <1>0, <1>5
<1>8. /\ \A e \in S : ~Lt(e, e)
      /\ \A e, f \in S : e # f => Lt(e, f) \/ Lt(f, e)
      /\ \A e, f, g \in S : Lt(e, f) /\ Lt(f, g) => Lt(e, g)
  BY <1>6, <1>7
<1> HIDE DEF Lt
<1>9. ASSUME NEW e \in S
      PROVE  IsFiniteSet(before(e)) /\ Cardinality(before(e)) \in 0..(n - 1)
  <2>1. IsFiniteSet(S \ {e}) /\ Cardinality(S \ {e}) = n - 1
    BY FS_RemoveElement
  <2>2. before(e) \in SUBSET (S \ {e})
    BY <1>8
  <2>3. IsFiniteSet(before(e)) /\ Cardinality(before(e)) <= Cardinality(S \ {e})
    <3> HIDE DEF before
    <3>. QED  BY <2>1, <2>2, FS_Subset
  <2>4. Cardinality(before(e)) \in Nat
    <3> HIDE DEF before
    <3>. QED  BY <2>3, FS_CardinalityType
  <2>. QED  BY <1>0, <2>1, <2>3, <2>4
<1>10. ASSUME NEW e \in S, NEW f \in S, Lt(f, e)
       PROVE  /\ Cardinality(before(f)) # Cardinality(before(e))
              /\ Cardinality(before(f)) <= Cardinality(before(e))
  <2>1. before(f) \in SUBSET before(e) /\ f \in before(e) /\ f \notin before(f)
    BY <1>8, <1>10
  <2>2. IsFiniteSet(before(e))
    BY <1>9
  <2> HIDE DEF before
  <2>. QED  BY <2>1, <2>2, FS_Subset
<1> HIDE DEF before
<1>11. \A e, f \in S : Cardinality(before(e)) = Cardinality(before(f)) => e = f
  BY <1>8, <1>10
<1>12. pos \in Injection(S, 1..n)
  <2>1. \A e \in S : Cardinality(before(e)) + 1 \in 1..n
    BY <1>0, <1>9
  <2>2. \A e, f \in S : Cardinality(before(e)) + 1 = Cardinality(before(f)) + 1 => e = f
    BY <1>9, <1>11
  <2>. QED  BY <2>1, <2>2 DEF Injection, IsInjective
<1>13. pos \in Surjection(S, 1..n)
  <2> HIDE DEF pos
  <2>. QED  BY <1>2, <1>12, FS_Injection
<1>14. ASSUME NEW k \in 1..n PROVE s[k] \in S /\ Cardinality(before(s[k])) = k - 1
  <2>1. PICK e \in S : pos[e] = k
    BY <1>13 DEF Surjection
  <2>2. Cardinality(before(e)) = k - 1
    BY <1>9, <2>1
  <2>. QED  BY <2>2
<1> HIDE DEF s
<1>15. ASSUME NEW k \in 1..n, NEW l \in 1..n, s[k] = s[l] PROVE k = l
  BY <1>14, <1>15
<1>16. ASSUME NEW e \in S PROVE \E k \in 1..n : s[k] = e
  <2> DEFINE k == Cardinality(before(e)) + 1
  <2>1. k \in 1..n /\ k - 1 = Cardinality(before(e))
    BY <1>0, <1>9
  <2> HIDE DEF k
  <2>2. s[k] \in S /\ Cardinality(before(s[k])) = Cardinality(before(e))
    BY <1>14, <2>1
  <2>. QED  BY <1>11, <2>1, <2>2
<1>17. s \in Seq(S) /\ Len(s) = n
  <2>1. s = [k \in 1..n |-> s[k]]
    BY DEF s
  <2>2. s \in [1..n -> S]
    BY <1>14, <2>1
  <2>. QED  BY <1>0, <2>2
<1>18. ASSUME NEW k \in 1..n, NEW l \in 1..n, k < l PROVE s[k].st <= s[l].st
  <2>1. s[k] \in S /\ s[l] \in S /\ ~(Cardinality(before(s[l])) <= Cardinality(before(s[k])))
    BY <1>14, <1>18
  <2>2. ~Lt(s[l], s[k])
    BY <1>10, <2>1
  <2>3. s[k].st \in Int /\ s[l].st \in Int /\ ~(s[l].st < s[k].st)
    BY <2>1, <2>2 DEF Lt
  <2>. QED  BY <2>3
<1>19. Ascending(s)
  BY <1>17, <1>18 DEF Ascending
<1>. QED  BY <1>1, <1>15, <1>16, <1>17, <1>19 DEF Enumerates
-----------------------------------------------------------------------------
(* Type correctness *)

\* An operation that can be carried out, and undone.
GoodOp == {op \in Op : /\ op.kind # "delete" => op.after \in Event
                       /\ op.kind # "create" => op.before \in Event}

\* The inductive strengthening of TypeOK: what is written, and written back,
\* has a payload where it needs one; a calendar has finitely many entries, and
\* no id twice.
DistinctIds(c) == \A e, f \in c : e.id = f.id => e = f

TypeInv ==
  /\ TypeOK
  /\ IsFiniteSet(cal) /\ DistinctIds(cal) /\ IsFiniteSet(anchors)
  /\ \A h \in Handlers : todo[h] \subseteq GoodOp /\ done[h] \subseteq GoodOp
  /\ tx # None => tx.done \subseteq GoodOp

Shown(e) == [id |-> e.id, n |-> e.n, st |-> e.st, et |-> e.et]

\* A snapshot shows every entry once.
LEMMA SnapshotShows ==
  ASSUME NEW c, c \subseteq Entries, IsFiniteSet(c)
  PROVE  /\ Snapshot(c) \in Seq(Remote)
         /\ \A e \in c : \E j \in 1..Len(Snapshot(c)) : Snapshot(c)[j] = Shown(e)
         /\ \A j \in 1..Len(Snapshot(c)) : \E e \in c : Snapshot(c)[j] = Shown(e)
         /\ \A j, k \in 1..Len(Snapshot(c)) : Snapshot(c)[j] = Snapshot(c)[k] => j = k
         /\ Ascending(Snapshot(c))
<1> DEFINE S == {Shown(e) : e \in c}
           f == [e \in c |-> Shown(e)]
<1>1. IsFiniteSet(S)
  <2>1. f \in Surjection(c, S)
    BY DEF Surjection
  <2> HIDE DEF f, S
  <2>. QED  BY <2>1, FS_Surjection
<1>2. S \subseteq Remote
  BY DEF Entries, Remote, Shown
<1>3. \A r \in S : r.st \in Int
  BY SubmitAssumption, <1>2 DEF Remote
<1>4. Enumerates(InOrder(S), S)
  <2> HIDE DEF S
  <2>. QED  BY <1>1, <1>3, InOrderEnumerates
<1>5. Snapshot(c) = InOrder(S)
  BY DEF Snapshot, Shown
<1> DEFINE s == Snapshot(c)
<1>6. /\ s \in Seq(S)
      /\ \A r \in S : \E k \in 1..Len(s) : s[k] = r
      /\ \A k, l \in 1..Len(s) : s[k] = s[l] => k = l
      /\ Ascending(s)
  BY <1>4, <1>5 DEF Enumerates
<1> HIDE DEF s, S
<1>7. s \in Seq(Remote)
  BY <1>2, <1>6, SeqMonotonic
<1>8. \A j \in 1..Len(s) : s[j] \in S
  BY <1>6
<1>. QED  BY <1>6, <1>7, <1>8 DEF s, S

\* A snapshot read as a plan.
LEMMA AsPlanType ==
  ASSUME NEW s \in Seq(Remote)
  PROVE  /\ AsPlan(s) \in Seq(Event) /\ IsFiniteSet(Range(AsPlan(s)))
         /\ Range(AsPlan(s)) \subseteq Event
<1> DEFINE p == AsPlan(s) n == Len(s)
<1>1. n \in Nat /\ DOMAIN s = 1..n
  OBVIOUS
<1>2. ASSUME NEW k \in 1..n PROVE AsEvent(s[k]) \in Event
  <2>1. s[k] \in Remote
    OBVIOUS
  <2>. QED  BY <2>1, SubmitAssumption DEF AsEvent, Remote, Event
<1>3. p \in [1..n -> Event]
  BY <1>1, <1>2 DEF AsPlan
<1>4. p \in Surjection(1..n, Range(p))
  <2> HIDE DEF p
  <2>. QED  BY <1>3 DEF Surjection, Range
<1>5. IsFiniteSet(Range(p))
  <2> HIDE DEF p
  <2>. QED  BY <1>1, <1>4, FS_Interval, FS_Surjection
<1> HIDE DEF p
<1>6. p \in Seq(Event) /\ Range(p) \subseteq Event
  BY <1>1, <1>3 DEF Range
<1>. QED  BY <1>5, <1>6 DEF p

\* The anchors in order are a plan.
LEMMA InOrderType ==
  ASSUME NEW S, IsFiniteSet(S), S \subseteq Event
  PROVE  InOrder(S) \in Seq(Event)
<1>1. \A e \in S : e.st \in Int
  BY SubmitAssumption DEF Event
<1>2. InOrder(S) \in Seq(S)
  BY <1>1, InOrderEnumerates DEF Enumerates
<1>. QED  BY <1>2, SeqMonotonic

\* Every operation of a sync has the payload it needs.
LEMMA PlanSyncType ==
  ASSUME NEW remote \in Seq(Remote), NEW desired \in Seq(Event)
  PROVE  PlanSync(remote, desired) \subseteq GoodOp
<1> DEFINE m == Matching(desired, remote)
<1>1. /\ Len(desired) \in Nat /\ DOMAIN desired = 1..Len(desired)
      /\ Len(remote) \in Nat /\ DOMAIN remote = 1..Len(remote)
      /\ \A i \in 1..Len(desired) : desired[i] \in Event
      /\ \A j \in 1..Len(remote) : remote[j] \in Remote
  OBVIOUS
<1>2. m \in [1..Len(desired) -> 0..Len(remote)]
  BY <1>1, MatchingMatches DEF OneToOne
<1>3. \A j \in 1..Len(remote) : remote[j].id \in Ids /\ AsEvent(remote[j]) \in Event
  BY <1>1, SubmitAssumption DEF Remote, AsEvent, Event
<1> HIDE DEF m
<1>4. CreateOps(m, desired) \subseteq GoodOp
  <2>. SUFFICES ASSUME NEW i \in Creates(m)
       PROVE [kind |-> "create", at |-> i, id |-> Seed(desired[i], i),
              after |-> desired[i], before |-> None] \in GoodOp
    BY DEF CreateOps
  <2>1. i \in 1..Len(desired) /\ i \in Nat \ {0}
    BY <1>1, <1>2 DEF Creates
  <2>2. Seed(desired[i], i) \in Ids
    BY <1>1, <2>1 DEF Event, Seed, Seeds, Ids
  <2>. QED  BY <1>1, <2>1, <2>2 DEF GoodOp, Op
<1>5. UpdateOps(m, remote, desired) \subseteq GoodOp
  <2>. SUFFICES ASSUME NEW i \in OwnedMatches(m, remote)
       PROVE [kind |-> "update", at |-> i, id |-> remote[m[i]].id,
              after |-> desired[i], before |-> AsEvent(remote[m[i]])] \in GoodOp
    BY DEF UpdateOps
  <2>1. i \in 1..Len(desired) /\ i \in Nat \ {0} /\ m[i] \in 1..Len(remote)
    BY <1>1, <1>2 DEF OwnedMatches
  <2>. QED  BY <1>1, <1>3, <2>1 DEF GoodOp, Op
<1>6. DeleteOps(m, remote) \subseteq GoodOp
  <2>. SUFFICES ASSUME NEW j \in Deletes(m, remote)
       PROVE [kind |-> "delete", at |-> j, id |-> remote[j].id,
              after |-> None, before |-> AsEvent(remote[j])] \in GoodOp
    BY DEF DeleteOps
  <2>1. j \in 1..Len(remote) /\ j \in Nat \ {0}
    BY <1>1 DEF Deletes, Free
  <2>. QED  BY <1>3, <2>1 DEF GoodOp, Op
<1>. QED  BY <1>4, <1>5, <1>6 DEF PlanSync, m

\* So has the one that undoes it.
LEMMA UndoingType ==
  ASSUME NEW op \in GoodOp PROVE Undoing(op) \in GoodOp
BY SubmitAssumption DEF GoodOp, Op, Undoing

\* The server keeps finitely many entries with distinct ids.
LEMMA AppliedType ==
  ASSUME NEW c, c \subseteq Entries, IsFiniteSet(c), DistinctIds(c), NEW op \in GoodOp
  PROVE  /\ Applied(c, op) \subseteq Entries /\ IsFiniteSet(Applied(c, op))
         /\ DistinctIds(Applied(c, op))
<1> DEFINE rest == {e \in c : e.id # op.id}
<1>1. IsFiniteSet(rest) /\ rest \subseteq Entries
  BY FS_Subset
<1>2. op.kind # "delete" => Entry(op.id, op.after) \in Entries
  BY DEF GoodOp, Op, Event, Entry, Entries
<1>3. Entry(op.id, op.after).id = op.id
  BY DEF Entry
<1>4. CASE op.kind = "delete"
  <2>1. Applied(c, op) = rest
    BY <1>4 DEF Applied
  <2>. QED  BY <1>1, <2>1 DEF DistinctIds
<1>5. CASE op.kind # "delete"
  <2> DEFINE x == Entry(op.id, op.after)
  <2>1. Applied(c, op) = rest \cup {x}
    BY <1>5 DEF Applied
  <2> HIDE DEF x
  <2>2. IsFiniteSet(rest \cup {x})
    BY <1>1, FS_AddElement
  <2>. QED  BY <1>1, <1>2, <1>3, <1>5, <2>1, <2>2 DEF DistinctIds, x
<1>. QED  BY <1>4, <1>5

\* The counters stay within their bounds.
LEMMA Bounds ==
  /\ MaxRequests \in Nat /\ MaxEdits \in Nat
  /\ \A k \in 0..MaxRequests : k < MaxRequests => k + 1 \in 0..MaxRequests
  /\ \A k \in 0..MaxEdits : k \in Nat /\ (k < MaxEdits => k + 1 \in 0..MaxEdits)
  /\ 0 \in 0..MaxRequests /\ 0 \in 0..MaxEdits
<1>1. MaxRequests \in Nat /\ MaxEdits \in Nat
  BY SubmitAssumption
<1>. QED  BY <1>1

LEMMA NoOriginType == NoOrigin \in Origin
BY DEF NoOrigin, Origin

LEMMA TypesAtStart ==
  ASSUME Init PROVE TypeInv
<1>1. cal \subseteq Entries /\ IsFiniteSet(cal) /\ DistinctIds(cal)
  BY SubmitAssumption DEF Init, DistinctIds
<1>2. cache \in Seq(Remote)
  BY <1>1, SnapshotShows DEF Init
<1>3. base \in Seq(Event) /\ IsFiniteSet(anchors) /\ anchors \subseteq Event
  BY <1>2, AsPlanType DEF Init
<1>4. plan \in Seq(Event) /\ requests \in 0..MaxRequests /\ edits \in 0..MaxEdits
  BY SubmitAssumption, Bounds DEF Init
<1>. QED  BY <1>1, <1>2, <1>3, <1>4, NoOriginType DEF Init, TypeInv, TypeOK

\* The parts of a step that several actions share.
LEMMA ReturnTypes ==
  ASSUME TypeInv, NEW h \in Handlers, Return(h)
  PROVE  /\ pc' \in [Handlers -> {"idle", "list", "listed", "write", "relist", "relisted", "undo"}]
         /\ resubmit' \in [Handlers -> BOOLEAN] /\ failed' \in [Handlers -> BOOLEAN]
         /\ answer' \in [Handlers -> Seq(Remote) \cup {None}]
         /\ todo' \in [Handlers -> SUBSET Op] /\ done' \in [Handlers -> SUBSET Op]
         /\ origin' \in [Handlers -> Origin]
         /\ \A g \in Handlers : todo'[g] \subseteq GoodOp /\ done'[g] \subseteq GoodOp
BY NoOriginType DEF TypeInv, TypeOK, Return

LEMMA RefreshedTypes ==
  ASSUME TypeInv, NEW h \in Handlers, Refreshed(h)
  PROVE  cache' \in Seq(Remote) \cup {None} /\ base' \in Seq(Event)
<1>1. cache' \in Seq(Remote) \cup {None}
  BY DEF TypeInv, TypeOK, Refreshed, Prefetched
<1>2. cache' # None => AsPlan(cache') \in Seq(Event)
  BY <1>1, AsPlanType
<1>. QED  BY <1>1, <1>2 DEF TypeInv, TypeOK, Refreshed

\* A calendar call.
LEMMA CallTypes ==
  ASSUME TypeInv, NEW h \in Handlers, NEW op \in todo[h],
         NEW rest, rest \subseteq todo[h], Call(h, op, rest)
  PROVE  /\ cal' \subseteq Entries /\ IsFiniteSet(cal') /\ DistinctIds(cal')
         /\ todo' \in [Handlers -> SUBSET Op] /\ done' \in [Handlers -> SUBSET Op]
         /\ failed' \in [Handlers -> BOOLEAN]
         /\ \A g \in Handlers : todo'[g] \subseteq GoodOp /\ done'[g] \subseteq GoodOp
<1>1. op \in GoodOp /\ op \in Op /\ todo[h] \subseteq GoodOp /\ done[h] \subseteq GoodOp
  BY DEF TypeInv, GoodOp
<1>2. cal \subseteq Entries /\ IsFiniteSet(cal) /\ DistinctIds(cal)
  BY DEF TypeInv, TypeOK
<1>3. cal' = cal \/ cal' = Applied(cal, op)
  BY DEF Call
<1>4. cal' \subseteq Entries /\ IsFiniteSet(cal') /\ DistinctIds(cal')
  BY <1>1, <1>2, <1>3, AppliedType
<1>5. /\ todo \in [Handlers -> SUBSET Op] /\ done \in [Handlers -> SUBSET Op]
      /\ failed \in [Handlers -> BOOLEAN]
      /\ \A g \in Handlers : todo[g] \subseteq GoodOp /\ done[g] \subseteq GoodOp
  BY DEF TypeInv, TypeOK
<1>6. GoodOp \subseteq Op
  BY DEF GoodOp
<1>7. CASE done' = [done EXCEPT ![h] = @ \cup {op}] /\ todo' = [todo EXCEPT ![h] = @ \ {op}]
           /\ failed' = failed
  BY <1>1, <1>4, <1>5, <1>7
<1>8. CASE done' = done /\ todo' = [todo EXCEPT ![h] = rest] /\ failed' = [failed EXCEPT ![h] = TRUE]
  BY <1>1, <1>4, <1>5, <1>6, <1>8
<1>. QED  BY <1>7, <1>8 DEF Call

\* The steps outside of the handlers.
LEMMA TurnTypes ==
  ASSUME TypeInv, Turn PROVE TypeInv'
<1>1. ASSUME NEW p \in Plans \cup {plan}, RefineTurn(p) PROVE TypeInv'
  <2>1. p \in Seq(Event)
    BY SubmitAssumption DEF TypeInv, TypeOK
  <2>2. Snapshot(cal) \in Seq(Remote)
    BY SnapshotShows DEF TypeInv, TypeOK
  <2>3. cache' \in Seq(Remote) \cup {None}
    BY <1>1, <2>2 DEF RefineTurn, TypeInv, TypeOK
  <2>4. anchors' \subseteq Event /\ IsFiniteSet(anchors')
    <3>1. CASE cache' = None
      BY <1>1, <3>1 DEF RefineTurn, TypeInv, TypeOK
    <3>2. CASE cache' # None
      <4>1. IsFiniteSet(Range(AsPlan(cache'))) /\ Range(AsPlan(cache')) \subseteq Event
        BY <2>3, <3>2, AsPlanType
      <4>2. anchors' = anchors \cup Range(AsPlan(cache'))
        BY <1>1, <3>2 DEF RefineTurn
      <4>. QED  BY <4>1, <4>2, FS_Union DEF TypeInv, TypeOK
    <3>. QED  BY <3>1, <3>2
  <2>. QED  BY <1>1, <2>1, <2>3, <2>4
            DEF RefineTurn, TypeInv, TypeOK, handling, writing, history
<1>2. CASE ReviewTurn
  BY <1>2 DEF ReviewTurn, TypeInv, TypeOK, handling, writing, history
<1>3. CASE CancelSubmit
  BY <1>3 DEF CancelSubmit, TypeInv, TypeOK, handling, writing, history
<1>. QED  BY <1>1, <1>2, <1>3 DEF Turn

\* The user's changes.
LEMMA EditTypes ==
  ASSUME TypeInv, Edit PROVE TypeInv'
<1>1. PICK e \in cal :
        \E new : /\ UserEdit(e, new)
                 /\ \/ new = {}
                    \/ \E slot \in UserSlots :
                         new = {[e EXCEPT !.st = slot[1], !.et = slot[2]]}
  BY DEF Edit
<1> PICK moved : /\ UserEdit(e, moved)
                 /\ \/ moved = {}
                    \/ \E slot \in UserSlots :
                         moved = {[e EXCEPT !.st = slot[1], !.et = slot[2]]}
  BY <1>1
<1>2. cal' = (cal \ {e}) \cup moved /\ edits' = edits + 1 /\ edits < MaxEdits
  BY <1>1 DEF UserEdit
<1>3. IsFiniteSet(cal \ {e}) /\ cal \ {e} \subseteq Entries /\ e \in Entries /\ DistinctIds(cal)
  BY FS_RemoveElement DEF TypeInv, TypeOK
<1>4. CASE moved = {}
  <2>1. cal' \subseteq Entries /\ IsFiniteSet(cal') /\ DistinctIds(cal')
    BY <1>2, <1>3, <1>4 DEF DistinctIds
  <2>. QED  BY <1>1, <1>2, <2>1, Bounds
            DEF UserEdit, TypeInv, TypeOK, session, handling, writing, history
<1>5. ASSUME NEW slot \in UserSlots, moved = {[e EXCEPT !.st = slot[1], !.et = slot[2]]}
      PROVE  TypeInv'
  <2> DEFINE x == [e EXCEPT !.st = slot[1], !.et = slot[2]]
  <2>1. x \in Entries /\ x.id = e.id
    BY <1>3, SubmitAssumption DEF Entries
  <2> HIDE DEF x
  <2>2. cal' = (cal \ {e}) \cup {x}
    BY <1>2, <1>5 DEF x
  <2>3. IsFiniteSet(cal')
    BY <1>3, <2>2, FS_AddElement
  <2>4. cal' \subseteq Entries /\ DistinctIds(cal')
    BY <1>3, <2>1, <2>2 DEF DistinctIds
  <2>. QED  BY <1>1, <1>2, <2>3, <2>4, Bounds
            DEF UserEdit, TypeInv, TypeOK, session, handling, writing, history
<1>. QED  BY <1>1, <1>4, <1>5

\* The steps of a submit, and of an undo.
LEMMA SubmitTypes ==
  ASSUME TypeInv, NEW h \in Handlers, Submit(h) PROVE TypeInv'
<1>1. CASE StartSubmit(h)
  <2>1. requests' \in 0..MaxRequests
    BY <1>1, Bounds DEF StartSubmit, TypeInv, TypeOK
  <2>. QED  BY <1>1, <2>1 DEF StartSubmit, TypeInv, TypeOK, writing, history
<1>2. CASE ListEvents(h)
  <2>1. Snapshot(cal) \in Seq(Remote) /\ Unreadable \subseteq Seq(Remote)
    BY SnapshotShows, SubmitAssumption DEF TypeInv, TypeOK
  <2>. QED  BY <1>2, <2>1 DEF ListEvents, TypeInv, TypeOK, session, writing, history
<1>3. CASE RefuseSubmit(h)
  BY <1>3, ReturnTypes, RefreshedTypes DEF RefuseSubmit, TypeInv, TypeOK, history
<1>4. CASE SkipSubmit(h)
  BY <1>4, ReturnTypes, RefreshedTypes DEF SkipSubmit, TypeInv, TypeOK, history
<1>5. CASE PlanSubmit(h)
  <2>1. cache' \in Seq(Remote) /\ base' \in Seq(Event)
    BY <1>5, RefreshedTypes DEF PlanSubmit
  <2>2. PlanSync(cache', plan) \subseteq GoodOp
    BY <2>1, PlanSyncType DEF TypeInv, TypeOK
  <2>3. GoodOp \subseteq Op
    BY DEF GoodOp
  <2>4. [cal |-> cal, fresh |-> cache' = Snapshot(cal), edits |-> edits, plan |-> plan] \in Origin
    BY Bounds DEF TypeInv, TypeOK, Origin
  <2>5. todo' = [todo EXCEPT ![h] = PlanSync(cache', plan)]
        /\ origin' = [origin EXCEPT ![h] =
             [cal |-> cal, fresh |-> cache' = Snapshot(cal), edits |-> edits, plan |-> plan]]
    BY <1>5 DEF PlanSubmit
  <2>6. /\ todo' \in [Handlers -> SUBSET Op] /\ origin' \in [Handlers -> Origin]
        /\ \A g \in Handlers : todo'[g] \subseteq GoodOp
    BY <2>2, <2>3, <2>4, <2>5 DEF TypeInv, TypeOK
  <2>. QED  BY <1>5, <2>1, <2>6 DEF PlanSubmit, TypeInv, TypeOK
<1>6. CASE Write(h)
  <2>1. PICK op \in todo[h] : Call(h, op, {})
    BY <1>6 DEF Write
  <2>. QED  BY <1>6, <2>1, CallTypes DEF Write, TypeInv, TypeOK, session, history
<1>7. CASE RecordTransaction(h)
  BY <1>7 DEF RecordTransaction, TypeInv, TypeOK, writing
<1>8. CASE Rebase(h)
  <2>1. cache' \in Seq(Remote) \cup {None}
    BY <1>8 DEF Rebase, Prefetched, TypeInv, TypeOK
  <2>2. base' \in Seq(Event)
    BY <1>8, <2>1, AsPlanType, InOrderType DEF Rebase, TypeInv, TypeOK
  <2>. QED  BY <1>8, <2>1, <2>2, ReturnTypes DEF Rebase, TypeInv, TypeOK, history
<1>. QED  BY <1>1, <1>2, <1>3, <1>4, <1>5, <1>6, <1>7, <1>8 DEF Submit

LEMMA UndoTypes ==
  ASSUME TypeInv, NEW h \in Handlers, Undo(h) PROVE TypeInv'
<1>1. CASE StartUndo(h)
  <2>1. requests' \in 0..MaxRequests
    BY <1>1, Bounds DEF StartUndo, TypeInv, TypeOK
  <2>2. {Undoing(op) : op \in tx.done} \subseteq GoodOp
    BY <1>1, UndoingType DEF StartUndo, TypeInv
  <2>3. GoodOp \subseteq Op
    BY DEF GoodOp
  <2>4. /\ todo' \in [Handlers -> SUBSET Op]
        /\ \A g \in Handlers : todo'[g] \subseteq GoodOp
    <3>1. todo' = [todo EXCEPT ![h] = {Undoing(op) : op \in tx.done}]
      BY <1>1 DEF StartUndo
    <3>. QED  BY <2>2, <2>3, <3>1 DEF TypeInv, TypeOK
  <2>. QED  BY <1>1, <2>1, <2>4 DEF StartUndo, TypeInv, TypeOK, session, history
<1>2. CASE UndoWrite(h)
  <2>1. PICK op \in todo[h] : Call(h, op, todo[h] \ {op})
    BY <1>2 DEF UndoWrite
  <2>. QED  BY <1>2, <2>1, CallTypes DEF UndoWrite, TypeInv, TypeOK, session, history
<1>3. CASE FinishUndo(h)
  BY <1>3, ReturnTypes DEF FinishUndo, TypeInv, TypeOK, history
<1>. QED  BY <1>1, <1>2, <1>3 DEF Undo

LEMMA TypesKept == TypeInv /\ [Next]_vars => TypeInv'
<1>1. TypeInv /\ UNCHANGED vars => TypeInv'
  BY DEF TypeInv, TypeOK, vars, session, handling, writing, history
<1>. QED  BY <1>1, TurnTypes, EditTypes, SubmitTypes, UndoTypes DEF Next

\* TypeOK for every plan, calendar, number of handlers and malformed answer:
\* what is matched, planned, written and written back are events and operations
\* (calendar_reconciliation.py, sync_engine.py), and no id is in the calendar
\* twice.
THEOREM TypeCorrect == Spec => []TypeOK
<1>1. TypeInv => TypeOK
  BY DEF TypeInv
<1>. QED  BY TypesAtStart, TypesKept, <1>1, PTL DEF Spec
-----------------------------------------------------------------------------
(* One handler at a time: what a submit leaves on the calendar, and an undo *)

\* A day the server can hold.
IsCalendar(c) == c \subseteq Entries /\ IsFiniteSet(c) /\ DistinctIds(c)

\* What operations make of a calendar, in whatever order.
Effect(c, ops) ==
  {e \in c : \A op \in ops : op.id # e.id}
  \cup {Entry(op.id, op.after) : op \in {o \in ops : o.kind # "delete"}}

\* The operations that make a calendar the plan.
SyncOps(o) == PlanSync(Snapshot(o.cal), o.plan)

\* A calendar on which some of the operations have been carried out.
CarriedOut(c, o, ops) ==
  /\ ops \subseteq SyncOps(o)
  /\ c = Effect(o.cal, ops)
  /\ \A op \in ops : op.kind = "create" => ~Has(o.cal, op.id)

\* A submit set out from the calendar as it was, and the user left it alone.
Undisturbed(o) == o.fresh /\ o.edits = edits

Writing(h) ==
  pc[h] = "write" /\ Undisturbed(origin[h]) /\ ~failed[h] =>
    /\ CarriedOut(cal, origin[h], done[h])
    /\ done[h] \cup todo[h] = SyncOps(origin[h])
    /\ \A op \in done[h], next \in todo[h] : op # next /\ Rank(op) <= Rank(next)

Committed(h) ==
  tx # None /\ Undoable(tx) /\ Undisturbed(txOrigin) /\ pc[h] \notin {"write", "undo"} =>
    CarriedOut(cal, txOrigin, tx.done) /\ tx.done = SyncOps(txOrigin)

Undone(h) ==
  pc[h] = "undo" /\ Undisturbed(origin[h]) /\ ~failed[h] =>
    \E ops \in SUBSET SyncOps(origin[h]) :
      /\ todo[h] = {Undoing(op) : op \in ops}
      /\ Undescribed(cal) = Undescribed(Effect(origin[h].cal, ops))
      /\ \A op \in SyncOps(origin[h]) : op.kind = "create" => ~Has(origin[h].cal, op.id)

SerialInv(h) ==
  /\ \A o \in {origin[h], txOrigin} : IsCalendar(o.cal) /\ o.edits <= edits
  /\ pc[h] \in {"idle", "list", "listed"} => done[h] = {} /\ ~failed[h]
  /\ Writing(h) /\ Committed(h) /\ Undone(h)

\* A sync of a plan p with the snapshot s of a calendar: what is matched, and
\* the operations that come of it.
LEMMA SyncFacts ==
  ASSUME NEW o \in Origin, IsCalendar(o.cal), NEW p, p = o.plan,
         NEW s, s = Snapshot(o.cal), NEW m, m = Matching(p, s)
  PROVE  /\ Len(p) \in Nat /\ DOMAIN p = 1..Len(p) /\ \A i \in 1..Len(p) : p[i] \in Event
         /\ Len(s) \in Nat /\ DOMAIN s = 1..Len(s) /\ s \in Seq(Remote)
         /\ \A j \in 1..Len(s) : \E e \in o.cal : s[j] = Shown(e)
         /\ \A e \in o.cal : \E j \in 1..Len(s) : s[j] = Shown(e)
         /\ \A j, k \in 1..Len(s) : s[j].id = s[k].id => j = k
         /\ Ascending(s)
         /\ OneToOne(m, Len(p), Len(s))
         /\ \A i \in 1..Len(p) : m[i] # 0 => Alike(p[i], s[m[i]])
         /\ SyncOps(o) = CreateOps(m, p) \cup UpdateOps(m, s, p) \cup DeleteOps(m, s)
<1>1. o.cal \subseteq Entries /\ IsFiniteSet(o.cal) /\ DistinctIds(o.cal) /\ p \in Seq(Event)
  BY DEF IsCalendar, Origin
<1>2. /\ s \in Seq(Remote)
      /\ \A j \in 1..Len(s) : \E e \in o.cal : s[j] = Shown(e)
      /\ \A e \in o.cal : \E j \in 1..Len(s) : s[j] = Shown(e)
      /\ \A j, k \in 1..Len(s) : s[j] = s[k] => j = k
      /\ Ascending(s)
  BY <1>1, SnapshotShows
<1>3. /\ Len(p) \in Nat /\ DOMAIN p = 1..Len(p) /\ Len(s) \in Nat /\ DOMAIN s = 1..Len(s)
      /\ \A i \in 1..Len(p) : p[i] \in Event
  BY <1>1, <1>2
<1>4. /\ OneToOne(m, Len(p), Len(s))
      /\ \A i \in 1..Len(p) : m[i] # 0 => Alike(p[i], s[m[i]])
  BY <1>3, MatchingMatches
<1>5. SyncOps(o) = CreateOps(m, p) \cup UpdateOps(m, s, p) \cup DeleteOps(m, s)
  BY DEF SyncOps, PlanSync
<1>6. ASSUME NEW j \in 1..Len(s), NEW k \in 1..Len(s), s[j].id = s[k].id PROVE j = k
  <2>1. PICK e \in o.cal : s[j] = Shown(e)
    BY <1>2
  <2>2. PICK f \in o.cal : s[k] = Shown(f)
    BY <1>2
  <2>3. e = f
    BY <1>1, <1>6, <2>1, <2>2 DEF Shown, DistinctIds
  <2>. QED  BY <1>2, <2>1, <2>2, <2>3
<1>. QED  BY <1>2, <1>3, <1>4, <1>5, <1>6

\* The operations, one kind after the other.
LEMMA SyncKinds ==
  ASSUME NEW p, NEW s, NEW m, DOMAIN p = 1..Len(p), Len(p) \in Nat, Len(s) \in Nat,
         DOMAIN s = 1..Len(s), OneToOne(m, Len(p), Len(s))
  PROVE  /\ \A op \in CreateOps(m, p) :
              /\ op.kind = "create" /\ op.at \in 1..Len(p) /\ m[op.at] = 0
              /\ op = [kind |-> "create", at |-> op.at, id |-> Seed(p[op.at], op.at),
                       after |-> p[op.at], before |-> None]
         /\ \A op \in UpdateOps(m, s, p) :
              /\ op.kind = "update" /\ op.at \in 1..Len(p) /\ m[op.at] \in 1..Len(s)
              /\ IsOwned(s[m[op.at]].id) /\ AsEvent(s[m[op.at]]) # p[op.at]
              /\ op = [kind |-> "update", at |-> op.at, id |-> s[m[op.at]].id,
                       after |-> p[op.at], before |-> AsEvent(s[m[op.at]])]
         /\ \A op \in DeleteOps(m, s) :
              /\ op.kind = "delete" /\ op.at \in 1..Len(s) /\ \A i \in 1..Len(p) : m[i] # op.at
              /\ op = [kind |-> "delete", at |-> op.at, id |-> s[op.at].id,
                       after |-> None, before |-> AsEvent(s[op.at])]
<1>1. m \in [1..Len(p) -> 0..Len(s)]
  BY DEF OneToOne
<1>2. \A i \in Creates(m) : i \in 1..Len(p) /\ m[i] = 0
  BY <1>1 DEF Creates
<1>3. \A i \in OwnedMatches(m, s) : i \in 1..Len(p) /\ m[i] \in 1..Len(s) /\ IsOwned(s[m[i]].id)
  BY <1>1 DEF OwnedMatches
<1>4. \A j \in Deletes(m, s) : j \in 1..Len(s) /\ \A i \in 1..Len(p) : m[i] # j
  BY <1>1 DEF Deletes, Free
<1>. QED  BY <1>2, <1>3, <1>4 DEF CreateOps, UpdateOps, DeleteOps

\* The operations of a sync, by their ids.
LEMMA SyncIds ==
  ASSUME NEW o \in Origin, IsCalendar(o.cal)
  PROVE  /\ SyncOps(o) \subseteq GoodOp
         /\ \A op \in SyncOps(o) : op.kind # "create" =>
              \E e \in o.cal : e.id = op.id /\ op.before = AsEvent(Shown(e))
         /\ \A op, q \in SyncOps(o) :
              op.id = q.id /\ (op.kind = "create" <=> q.kind = "create") => op = q
<1> DEFINE c == o.cal p == o.plan s == Snapshot(c) m == Matching(p, s)
<1>1. /\ Len(p) \in Nat /\ DOMAIN p = 1..Len(p) /\ Len(s) \in Nat /\ DOMAIN s = 1..Len(s)
      /\ s \in Seq(Remote) /\ p \in Seq(Event)
      /\ \A j \in 1..Len(s) : \E e \in c : s[j] = Shown(e)
      /\ OneToOne(m, Len(p), Len(s))
  BY SyncFacts DEF Origin
<1>5. SyncOps(o) = CreateOps(m, p) \cup UpdateOps(m, s, p) \cup DeleteOps(m, s)
  BY SyncFacts
<1>6. SyncOps(o) \subseteq GoodOp
  BY <1>1, PlanSyncType DEF SyncOps
<1>7. \A j, k \in 1..Len(s) : s[j].id = s[k].id => j = k
  BY SyncFacts
<1> HIDE DEF m, s, p, c
<1>8. \A op \in CreateOps(m, p) :
        /\ op.kind = "create" /\ op.at \in 1..Len(p)
        /\ op = [kind |-> "create", at |-> op.at, id |-> Seed(p[op.at], op.at),
                 after |-> p[op.at], before |-> None]
  BY <1>1, SyncKinds
<1>9. \A op \in UpdateOps(m, s, p) :
        /\ op.kind = "update" /\ op.at \in 1..Len(p) /\ m[op.at] \in 1..Len(s)
        /\ op = [kind |-> "update", at |-> op.at, id |-> s[m[op.at]].id,
                 after |-> p[op.at], before |-> AsEvent(s[m[op.at]])]
  BY <1>1, SyncKinds
<1>10. \A op \in DeleteOps(m, s) :
        /\ op.kind = "delete" /\ op.at \in 1..Len(s) /\ \A i \in 1..Len(p) : m[i] # op.at
        /\ op = [kind |-> "delete", at |-> op.at, id |-> s[op.at].id,
                 after |-> None, before |-> AsEvent(s[op.at])]
  BY <1>1, SyncKinds
<1>13. ASSUME NEW j \in 1..Len(s)
       PROVE  \E e \in c : e.id = s[j].id /\ AsEvent(s[j]) = AsEvent(Shown(e))
  <2>1. PICK e \in c : s[j] = Shown(e)
    BY <1>1
  <2>. QED  BY <2>1 DEF Shown
<1>14. ASSUME NEW op \in SyncOps(o), op.kind # "create"
       PROVE  \E e \in c : e.id = op.id /\ op.before = AsEvent(Shown(e))
  <2>1. CASE op \in UpdateOps(m, s, p)
    <3>1. m[op.at] \in 1..Len(s) /\ op.id = s[m[op.at]].id /\ op.before = AsEvent(s[m[op.at]])
      BY <1>9, <2>1
    <3>. QED  BY <1>13, <3>1
  <2>2. CASE op \in DeleteOps(m, s)
    <3>1. op.at \in 1..Len(s) /\ op.id = s[op.at].id /\ op.before = AsEvent(s[op.at])
      BY <1>10, <2>2
    <3>. QED  BY <1>13, <3>1
  <2>. QED  BY <1>5, <1>8, <1>14, <2>1, <2>2
<1>15. ASSUME NEW op \in SyncOps(o), NEW q \in SyncOps(o), op.id = q.id,
              op.kind = "create" <=> q.kind = "create"
       PROVE  op = q
  <2>1. CASE op \in CreateOps(m, p)
    <3>1. q \in CreateOps(m, p)
      BY <1>5, <1>8, <1>9, <1>10, <1>15, <2>1
    <3>2. Seed(p[op.at], op.at) = Seed(p[q.at], q.at)
      BY <1>8, <1>15, <2>1, <3>1
    <3>3. op.at = q.at
      BY <3>2 DEF Seed
    <3>. QED  BY <1>8, <2>1, <3>1, <3>3
  <2>2. CASE op \in UpdateOps(m, s, p) /\ q \in UpdateOps(m, s, p)
    <3>1. m[op.at] = m[q.at]
      BY <1>7, <1>9, <1>15, <2>2
    <3>2. op.at = q.at
      BY <1>1, <1>9, <2>2, <3>1 DEF OneToOne
    <3>. QED  BY <1>9, <2>2, <3>2
  <2>3. CASE op \in UpdateOps(m, s, p) /\ q \in DeleteOps(m, s)
    <3>1. m[op.at] = q.at
      BY <1>7, <1>9, <1>10, <1>15, <2>3
    <3>. QED  BY <1>9, <1>10, <2>3, <3>1
  <2>4. CASE op \in DeleteOps(m, s) /\ q \in UpdateOps(m, s, p)
    <3>1. m[q.at] = op.at
      BY <1>7, <1>9, <1>10, <1>15, <2>4
    <3>. QED  BY <1>9, <1>10, <2>4, <3>1
  <2>5. CASE op \in DeleteOps(m, s) /\ q \in DeleteOps(m, s)
    <3>1. op.at = q.at
      BY <1>7, <1>10, <1>15, <2>5
    <3>. QED  BY <1>10, <2>5, <3>1
  <2>6. op \notin CreateOps(m, p) => q \notin CreateOps(m, p)
    BY <1>5, <1>8, <1>9, <1>10, <1>15
  <2>. QED  BY <1>5, <2>1, <2>2, <2>3, <2>4, <2>5, <2>6
<1>. QED  BY <1>6, <1>14, <1>15 DEF c

\* One more operation.
LEMMA EffectStep ==
  ASSUME NEW c, NEW ops, NEW op, \A q \in ops : q.id # op.id
  PROVE  Applied(Effect(c, ops), op) = Effect(c, ops \cup {op})
BY DEF Applied, Effect, Entry

\* No operation, no effect.
LEMMA EffectOfNone ==
  ASSUME NEW c PROVE Effect(c, {}) = c
BY DEF Effect

\* An id that is not on the calendar after others were written was not before.
LEMMA HasNot ==
  ASSUME NEW c, NEW ops, NEW id, ~Has(Effect(c, ops), id), \A q \in ops : q.id # id
  PROVE  ~Has(c, id)
BY DEF Has, Effect

\* The order of the operations goes by rank first.
LEMMA Ranks ==
  ASSUME NEW op \in Op, NEW q \in Op
  PROVE  /\ Rank(op) \in Nat
         /\ Precedes(op, q) => Rank(op) <= Rank(q)
         /\ Rank(op) = 0 <=> op.kind = "create"
BY DEF Op, Rank, Precedes

\* A call of a submit that succeeds: the next operation in the order is one
\* more that the calendar shows.
LEMMA WriteCarriesOut ==
  ASSUME NEW o \in Origin, IsCalendar(o.cal), NEW c, NEW ops, CarriedOut(c, o, ops),
         NEW op \in SyncOps(o), op \notin ops, \A q \in ops : Rank(q) <= Rank(op),
         Accepts(c, op)
  PROVE  CarriedOut(Applied(c, op), o, ops \cup {op})
<1>1. ops \subseteq SyncOps(o) /\ c = Effect(o.cal, ops)
      /\ \A q \in ops : q.kind = "create" => ~Has(o.cal, q.id)
  BY DEF CarriedOut
<1>2. \A q \in SyncOps(o) : q \in Op
  BY SyncIds DEF GoodOp
<1>3. CASE op.kind = "create"
  <2>1. \A q \in ops : q.kind = "create"
    BY <1>1, <1>2, <1>3, Ranks
  <2>2. \A q \in ops : q.id # op.id
    BY <1>1, <1>3, <2>1, SyncIds
  <2>3. ~Has(o.cal, op.id)
    BY <1>1, <1>3, <2>2, HasNot DEF Accepts
  <2>. QED  BY <1>1, <2>2, <2>3, EffectStep DEF CarriedOut
<1>4. CASE op.kind # "create"
  <2>1. Has(o.cal, op.id)
    BY <1>4, SyncIds DEF Has
  <2>2. \A q \in ops : q.id # op.id
    BY <1>1, <1>4, <2>1, SyncIds
  <2>. QED  BY <1>1, <1>4, <2>2, EffectStep DEF CarriedOut
<1>. QED  BY <1>3, <1>4
-----------------------------------------------------------------------------
(* Undo *)

\* An entry without its description.
Bare(e) == [e EXCEPT !.d = ""]

\* What becomes of the fields of an entry.
LEMMA BareType ==
  ASSUME NEW e \in Entries
  PROVE  /\ Bare(e) \in Entries /\ Bare(e).id = e.id /\ Bare(e).n = e.n
         /\ Bare(e).st = e.st /\ Bare(e).et = e.et /\ Bare(e).d = ""
BY SubmitAssumption DEF Entries, Bare

\* An entry is its fields.
LEMMA SameEntry ==
  ASSUME NEW e \in Entries, NEW f \in Entries,
         f.id = e.id, f.n = e.n, f.st = e.st, f.et = e.et, f.d = e.d
  PROVE  e = f
BY DEF Entries

\* An entry written back from a snapshot has lost its description, no more.
LEMMA BareIsShown ==
  ASSUME NEW e \in Entries
  PROVE  Bare(e) = Entry(e.id, AsEvent(Shown(e))) /\ Bare(Bare(e)) = Bare(e)
<1>1. Entry(e.id, AsEvent(Shown(e))) \in Entries /\ Bare(e) \in Entries
  BY BareType, SubmitAssumption DEF Entries, Entry, AsEvent, Shown
<1>2. Bare(e) = Entry(e.id, AsEvent(Shown(e)))
  BY BareType, SameEntry, <1>1 DEF Entry, AsEvent, Shown
<1> DEFINE b == Bare(e) bb == Bare(Bare(e))
<1>3. b \in Entries /\ b.id = e.id /\ b.n = e.n /\ b.st = e.st /\ b.et = e.et /\ b.d = ""
  BY BareType
<1>4. bb \in Entries /\ bb.id = b.id /\ bb.n = b.n /\ bb.st = b.st /\ bb.et = b.et /\ bb.d = ""
  BY BareType, <1>1
<1> HIDE DEF b, bb
<1>5. bb = b
  BY SameEntry, <1>3, <1>4
<1>. QED  BY <1>2, <1>5 DEF b, bb

\* What an operation is undone with is in the calendar but for descriptions.
LEMMA UndoCarriesOut ==
  ASSUME NEW o \in Origin, IsCalendar(o.cal),
         \A op \in SyncOps(o) : op.kind = "create" => ~Has(o.cal, op.id),
         NEW c, c \subseteq Entries, NEW ops, ops \subseteq SyncOps(o), NEW op \in ops,
         Undescribed(c) = Undescribed(Effect(o.cal, ops))
  PROVE  Undescribed(Applied(c, Undoing(op))) = Undescribed(Effect(o.cal, ops \ {op}))
<1> DEFINE x == Undoing(op)
           E == Effect(o.cal, ops)
           F == Effect(o.cal, ops \ {op})
           old == {e \in o.cal : e.id = op.id}
           new == IF x.kind = "delete" THEN {} ELSE {Entry(x.id, x.after)}
<1>1. \A q \in ops : q.id = op.id => q = op
  <2>1. \A q \in SyncOps(o) : (q.kind = "create" <=> Has(o.cal, q.id) = FALSE)
    BY SyncIds DEF Has
  <2>. QED  BY <2>1, SyncIds
<1>2. F = {e \in E : e.id # op.id} \cup old
  BY <1>1 DEF Effect, Entry
<1>3. o.cal \subseteq Entries /\ DistinctIds(o.cal) /\ op \in GoodOp
  BY SyncIds DEF IsCalendar
<1>4. x.id = op.id
  BY DEF Undoing
<1>5. Undescribed(new) = Undescribed(old)
  <2>1. CASE op.kind = "create"
    <3>1. x.kind = "delete"
      BY <2>1 DEF Undoing
    <3>2. old = {}
      BY <2>1 DEF Has
    <3>. QED  BY <3>1, <3>2
  <2>2. CASE op.kind # "create"
    <3>1. x.kind # "delete" /\ x.after = op.before
      BY <1>3, <2>2 DEF Undoing, GoodOp, Op
    <3>2. PICK e \in o.cal : e.id = op.id /\ op.before = AsEvent(Shown(e))
      BY <2>2, SyncIds
    <3>3. old = {e}
      BY <1>3, <3>2 DEF DistinctIds
    <3>4. new = {Entry(e.id, AsEvent(Shown(e)))}
      BY <1>4, <3>1, <3>2
    <3>5. Entry(e.id, AsEvent(Shown(e))) = Bare(e) /\ Bare(Bare(e)) = Bare(e)
      BY <1>3, <3>2, BareIsShown
    <3>6. \A y : Undescribed({y}) = {Bare(y)}
      BY DEF Undescribed, Bare
    <3>. QED  BY <3>3, <3>4, <3>5, <3>6
  <2>. QED  BY <2>1, <2>2
<1>6. Applied(c, x) = {e \in c : e.id # op.id} \cup new
  BY <1>4 DEF Applied
<1> HIDE DEF E, F, old, new, x
<1>7. \A A, B : Undescribed(A \cup B) = Undescribed(A) \cup Undescribed(B)
  BY DEF Undescribed
<1>8. ASSUME NEW A, \A e \in A : e \in Entries
      PROVE  Undescribed({e \in A : e.id # op.id}) = {u \in Undescribed(A) : u.id # op.id}
  <2>1. \A e \in A : Bare(e).id = e.id
    BY <1>8 DEF Bare, Entries
  <2>. QED  BY <2>1 DEF Undescribed, Bare
<1>9. \A e \in E : e \in Entries
  <2>1. \A q \in ops : q.kind # "delete" => Entry(q.id, q.after) \in Entries
    BY SyncIds DEF GoodOp, Op, Event, Entry, Entries
  <2>. QED  BY <1>3, <2>1 DEF E, Effect
<1>10. Undescribed({e \in c : e.id # op.id}) = Undescribed({e \in E : e.id # op.id})
  BY <1>8, <1>9 DEF E
<1>11. Undescribed(Applied(c, x)) = Undescribed(F)
  <2>1. Undescribed(Applied(c, x)) = Undescribed({e \in c : e.id # op.id}) \cup Undescribed(new)
    BY <1>6, <1>7
  <2>2. Undescribed(F) = Undescribed({e \in E : e.id # op.id}) \cup Undescribed(old)
    BY <1>2, <1>7
  <2>. QED  BY <1>5, <1>10, <2>1, <2>2
<1>. QED  BY <1>11 DEF x, F
-----------------------------------------------------------------------------
(* The invariant *)

\* The hypothesis of what follows, Handlers = {h}: one message at a time.
LEMMA SerialAtStart ==
  ASSUME NEW h, Handlers = {h}, Init PROVE SerialInv(h)
<1>1. IsCalendar({})
  BY FS_EmptySet DEF IsCalendar, DistinctIds
<1>2. /\ origin[h] = NoOrigin /\ txOrigin = NoOrigin /\ edits = 0 /\ tx = None
      /\ pc[h] = "idle" /\ done[h] = {} /\ failed[h] = FALSE
  BY DEF Init
<1>3. NoOrigin.cal = {} /\ NoOrigin.edits = 0
  BY DEF NoOrigin
<1>. QED  BY <1>1, <1>2, <1>3 DEF SerialInv, Writing, Committed, Undone

\* A step that leaves alone what the invariant is about.
LEMMA SerialSame ==
  ASSUME NEW h, SerialInv(h), cal' = cal, edits' = edits, tx' = tx, txOrigin' = txOrigin,
         pc'[h] = pc[h], origin'[h] = origin[h], todo'[h] = todo[h],
         done'[h] = done[h], failed'[h] = failed[h]
  PROVE  SerialInv(h)'
BY DEF SerialInv, Writing, Committed, Undone, Undisturbed

\* A step after which the handler has nothing to write, and nothing written.
LEMMA SerialAtRest ==
  ASSUME NEW h, SerialInv(h), cal' = cal, edits' = edits, txOrigin' = txOrigin,
         (tx' = tx /\ pc[h] \notin {"write", "undo"}) \/ tx' = None,
         pc'[h] \notin {"write", "undo"},
         pc'[h] \in {"idle", "list", "listed"} => done'[h] = {} /\ ~failed'[h],
         origin'[h] = origin[h] \/ (IsCalendar(origin'[h].cal) /\ origin'[h].edits <= edits)
  PROVE  SerialInv(h)'
BY DEF SerialInv, Writing, Committed, Undone, Undisturbed

\* A handler that returns has nothing to write.
LEMMA ReturnRests ==
  ASSUME NEW h \in Handlers, TypeInv, Return(h)
  PROVE  /\ pc'[h] = "idle" /\ done'[h] = {} /\ ~failed'[h]
         /\ IsCalendar(origin'[h].cal) /\ origin'[h].edits <= edits
<1>1. IsCalendar({})
  BY FS_EmptySet DEF IsCalendar, DistinctIds
<1>2. NoOrigin.cal = {} /\ NoOrigin.edits = 0 /\ 0 <= edits
  BY Bounds DEF NoOrigin, TypeInv, TypeOK
<1>3. pc'[h] = "idle" /\ done'[h] = {} /\ failed'[h] = FALSE /\ origin'[h] = NoOrigin
  BY DEF Return, TypeInv, TypeOK
<1>. QED  BY <1>1, <1>2, <1>3

\* A plan is made of the calendar as the snapshot shows it.
LEMMA PlanIsSerial ==
  ASSUME NEW h \in Handlers, TypeInv, SerialInv(h), PlanSubmit(h)
  PROVE  SerialInv(h)'
<1> DEFINE o == [cal |-> cal, fresh |-> cache' = Snapshot(cal), edits |-> edits, plan |-> plan]
<1>1. /\ origin'[h] = o /\ pc'[h] = "write" /\ todo'[h] = PlanSync(cache', plan)
      /\ done'[h] = {} /\ failed'[h] = FALSE /\ cal' = cal /\ edits' = edits
      /\ txOrigin' = txOrigin
  BY DEF PlanSubmit, TypeInv, TypeOK, SerialInv
<1>2. o.cal = cal /\ o.fresh = (cache' = Snapshot(cal)) /\ o.edits = edits /\ o.plan = plan
  OBVIOUS
<1> HIDE DEF o
<1>3. IsCalendar(cal) /\ edits <= edits
  BY Bounds DEF IsCalendar, TypeInv, TypeOK
<1>4. o.fresh => todo'[h] = SyncOps(o)
  BY <1>1, <1>2 DEF SyncOps
<1>5. CarriedOut(cal, o, {})
  BY <1>2, EffectOfNone DEF CarriedOut
<1>6. Writing(h)'
  BY <1>1, <1>4, <1>5 DEF Writing, Undisturbed
<1>7. Committed(h)' /\ Undone(h)'
  BY <1>1 DEF Committed, Undone
<1>. QED  BY <1>1, <1>2, <1>3, <1>6, <1>7 DEF SerialInv

\* A call carries out the next operation, or the submit has failed.
LEMMA WriteIsSerial ==
  ASSUME NEW h \in Handlers, TypeInv, SerialInv(h), Write(h)
  PROVE  SerialInv(h)'
<1> DEFINE o == origin[h]
<1>1. PICK op \in todo[h] : /\ \A q \in todo[h] : q = op \/ Precedes(op, q)
                            /\ Call(h, op, {})
  BY DEF Write
<1>2. /\ pc[h] = "write" /\ pc'[h] = "write" /\ origin'[h] = o /\ tx' = tx
      /\ txOrigin' = txOrigin /\ edits' = edits
  BY DEF Write, session, history
<1>3. Writing(h)'
  <2>. SUFFICES ASSUME Undisturbed(o), ~failed'[h]
       PROVE  /\ CarriedOut(cal', o, done'[h])
              /\ done'[h] \cup todo'[h] = SyncOps(o)
              /\ \A p \in done'[h], q \in todo'[h] : p # q /\ Rank(p) <= Rank(q)
    BY <1>2 DEF Writing, Undisturbed
  <2>1. /\ Accepts(cal, op) /\ cal' = Applied(cal, op) /\ ~failed[h]
        /\ done'[h] = done[h] \cup {op} /\ todo'[h] = todo[h] \ {op}
    BY <1>1 DEF Call, TypeInv, TypeOK
  <2>2. /\ CarriedOut(cal, o, done[h]) /\ done[h] \cup todo[h] = SyncOps(o)
        /\ \A p \in done[h], q \in todo[h] : p # q /\ Rank(p) <= Rank(q)
    BY <1>2, <2>1 DEF SerialInv, Writing
  <2>3. IsCalendar(o.cal) /\ o \in Origin
    BY DEF SerialInv, TypeInv, TypeOK
  <2>4. CarriedOut(cal', o, done'[h])
    BY <2>1, <2>2, <2>3, WriteCarriesOut
  <2>5. todo[h] \subseteq Op
    BY DEF TypeInv, TypeOK
  <2>6. \A q \in todo[h] : Rank(op) <= Rank(q)
    BY <1>1, <2>5, Ranks
  <2>. QED  BY <2>1, <2>2, <2>4, <2>6
<1>4. Committed(h)' /\ Undone(h)'
  BY <1>2 DEF Committed, Undone
<1>. QED  BY <1>2, <1>3, <1>4 DEF SerialInv

\* The transaction recorded holds all operations, unless one failed.
LEMMA RecordIsSerial ==
  ASSUME NEW h \in Handlers, TypeInv, SerialInv(h), RecordTransaction(h)
  PROVE  SerialInv(h)'
<1>1. /\ pc[h] = "write" /\ pc'[h] = "relist" /\ cal' = cal /\ edits' = edits
      /\ txOrigin' = origin[h] /\ origin'[h] = origin[h] /\ todo[h] = {}
      /\ tx' = [status |-> IF failed[h] THEN "partial_halted" ELSE "committed",
                done |-> done[h]]
  BY DEF RecordTransaction, writing, TypeInv, TypeOK
<1>2. Undoable(tx') => ~failed[h] /\ tx'.done = done[h]
  BY <1>1 DEF Undoable
<1>3. Committed(h)'
  BY <1>1, <1>2 DEF Committed, SerialInv, Writing, Undisturbed, Undoable
<1>4. Writing(h)' /\ Undone(h)'
  BY <1>1 DEF Writing, Undone
<1>. QED  BY <1>1, <1>3, <1>4 DEF SerialInv

\* An undo sets out from all operations carried out.
LEMMA StartUndoIsSerial ==
  ASSUME NEW h \in Handlers, TypeInv, SerialInv(h), StartUndo(h)
  PROVE  SerialInv(h)'
<1>1. /\ pc[h] = "idle" /\ pc'[h] = "undo" /\ cal' = cal /\ edits' = edits
      /\ txOrigin' = txOrigin /\ origin'[h] = txOrigin /\ tx # None /\ Undoable(tx)
      /\ todo'[h] = {Undoing(op) : op \in tx.done}
  BY DEF StartUndo, session, history, TypeInv, TypeOK
<1>2. Undone(h)'
  <2>. SUFFICES ASSUME Undisturbed(txOrigin)
       PROVE  \E ops \in SUBSET SyncOps(txOrigin) :
                /\ todo'[h] = {Undoing(op) : op \in ops}
                /\ Undescribed(cal) = Undescribed(Effect(txOrigin.cal, ops))
                /\ \A op \in SyncOps(txOrigin) : op.kind = "create" => ~Has(txOrigin.cal, op.id)
    BY <1>1 DEF Undone, Undisturbed
  <2>1. CarriedOut(cal, txOrigin, tx.done) /\ tx.done = SyncOps(txOrigin)
    BY <1>1 DEF SerialInv, Committed
  <2>. QED  BY <1>1, <2>1 DEF CarriedOut
<1>3. Writing(h)' /\ Committed(h)'
  BY <1>1 DEF Writing, Committed
<1>. QED  BY <1>1, <1>2, <1>3 DEF SerialInv

\* A call takes back one of them.
LEMMA UndoWriteIsSerial ==
  ASSUME NEW h \in Handlers, TypeInv, SerialInv(h), UndoWrite(h)
  PROVE  SerialInv(h)'
<1> DEFINE o == origin[h]
<1>1. PICK x \in todo[h] : Call(h, x, todo[h] \ {x})
  BY DEF UndoWrite
<1>2. /\ pc[h] = "undo" /\ pc'[h] = "undo" /\ origin'[h] = o /\ tx' = tx
      /\ txOrigin' = txOrigin /\ edits' = edits
  BY DEF UndoWrite, session, history
<1>3. Undone(h)'
  <2>. SUFFICES ASSUME Undisturbed(o), ~failed'[h]
       PROVE  \E ops \in SUBSET SyncOps(o) :
                /\ todo'[h] = {Undoing(op) : op \in ops}
                /\ Undescribed(cal') = Undescribed(Effect(o.cal, ops))
                /\ \A op \in SyncOps(o) : op.kind = "create" => ~Has(o.cal, op.id)
    BY <1>2 DEF Undone, Undisturbed
  <2>1. cal' = Applied(cal, x) /\ ~failed[h] /\ todo'[h] = todo[h] \ {x}
    BY <1>1 DEF Call, TypeInv, TypeOK
  <2>2. PICK ops \in SUBSET SyncOps(o) :
          /\ todo[h] = {Undoing(op) : op \in ops}
          /\ Undescribed(cal) = Undescribed(Effect(o.cal, ops))
          /\ \A op \in SyncOps(o) : op.kind = "create" => ~Has(o.cal, op.id)
    BY <1>2, <2>1 DEF SerialInv, Undone
  <2>3. IsCalendar(o.cal) /\ o \in Origin /\ cal \subseteq Entries
    BY DEF SerialInv, TypeInv, TypeOK
  <2>4. PICK op \in ops : x = Undoing(op)
    BY <2>2
  <2>5. Undescribed(cal') = Undescribed(Effect(o.cal, ops \ {op}))
    BY <2>1, <2>2, <2>3, <2>4, UndoCarriesOut
  <2>6. \A q \in SyncOps(o) : q \in GoodOp
    BY <2>3, SyncIds
  <2>7. ASSUME NEW q \in ops, Undoing(q) = x PROVE q = op
    <3>1. q \in SyncOps(o) /\ op \in SyncOps(o) /\ q \in GoodOp /\ op \in GoodOp
      BY <2>2, <2>4, <2>6
    <3>2. q.id = op.id
      BY <2>4, <2>7 DEF Undoing
    <3>3. \A y \in GoodOp : y.kind = "create" <=> Undoing(y).kind = "delete"
      BY DEF GoodOp, Op, Undoing
    <3>. QED  BY <2>3, <2>4, <2>7, <3>1, <3>2, <3>3, SyncIds
  <2>8. todo'[h] = {Undoing(q) : q \in ops \ {op}}
    BY <2>1, <2>2, <2>4, <2>7
  <2>. QED  BY <2>2, <2>5, <2>8
<1>4. Writing(h)' /\ Committed(h)'
  BY <1>2 DEF Writing, Committed
<1>. QED  BY <1>2, <1>3, <1>4 DEF SerialInv

\* Every step keeps the invariant: an edit by the user ends its hypothesis.
LEMMA SerialKept ==
  ASSUME NEW h, Handlers = {h}, TypeInv, SerialInv(h), [Next]_vars
  PROVE  SerialInv(h)'
<1>0. h \in Handlers
  OBVIOUS
<1>1. CASE UNCHANGED vars
  BY <1>1, SerialSame DEF vars, session, handling, writing, history
<1>2. CASE Turn
  BY <1>2, SerialSame DEF Turn, RefineTurn, ReviewTurn, CancelSubmit, handling, writing, history
<1>3. CASE Edit
  <2>1. PICK e, moved : UserEdit(e, moved)
    BY <1>3 DEF Edit
  <2>2. /\ edits' = edits + 1 /\ pc'[h] = pc[h] /\ done'[h] = done[h] /\ failed'[h] = failed[h]
        /\ origin'[h] = origin[h] /\ txOrigin' = txOrigin
    BY <2>1 DEF UserEdit, handling, writing, history
  <2>3. edits \in Nat /\ \A o \in {origin[h], txOrigin} : o.edits \in Nat
    BY <1>0, Bounds DEF TypeInv, TypeOK, Origin
  <2>4. \A o \in {origin[h], txOrigin} : o.edits <= edits' /\ o.edits # edits'
    BY <2>2, <2>3 DEF SerialInv
  <2>. QED  BY <2>2, <2>4 DEF SerialInv, Writing, Committed, Undone, Undisturbed
<1>4. CASE StartSubmit(h)
  BY <1>0, <1>4, SerialAtRest DEF StartSubmit, writing, SerialInv, TypeInv, TypeOK, history
<1>5. CASE ListEvents(h)
  <2>1. /\ pc[h] \in {"list", "relist"} /\ pc'[h] \in {"listed", "relisted"}
        /\ pc'[h] = "listed" => pc[h] = "list"
    BY <1>0, <1>5 DEF ListEvents, TypeInv, TypeOK
  <2>. QED  BY <1>0, <1>5, <2>1, SerialAtRest DEF ListEvents, session, writing, SerialInv, history
<1>6. CASE RefuseSubmit(h) \/ SkipSubmit(h) \/ Rebase(h)
  <2>1. Return(h) /\ cal' = cal /\ edits' = edits /\ tx' = tx /\ txOrigin' = txOrigin
        /\ pc[h] \notin {"write", "undo"}
    BY <1>6 DEF RefuseSubmit, SkipSubmit, Rebase, history
  <2>. QED  BY <1>0, <2>1, ReturnRests, SerialAtRest
<1>7. CASE FinishUndo(h)
  <2>1. Return(h) /\ cal' = cal /\ edits' = edits /\ tx' = None /\ txOrigin' = txOrigin
    BY <1>7 DEF FinishUndo, history
  <2>. QED  BY <1>0, <2>1, ReturnRests, SerialAtRest
<1>. QED  BY <1>0, <1>1, <1>2, <1>3, <1>4, <1>5, <1>6, <1>7, PlanIsSerial, WriteIsSerial,
             RecordIsSerial, StartUndoIsSerial, UndoWriteIsSerial
          DEF Next, Submit, Undo

\* The invariant holds throughout.
LEMMA SerialAlways ==
  ASSUME NEW one, Handlers = {one} PROVE Spec => [](TypeInv /\ SerialInv(one))
<1>1. Init => TypeInv /\ SerialInv(one)
  BY TypesAtStart, SerialAtStart
<1>2. TypeInv /\ SerialInv(one) /\ [Next]_vars => TypeInv' /\ SerialInv(one)'
  BY TypesKept, SerialKept
<1>. QED  BY <1>1, <1>2, PTL DEF Spec

\* UndoRestores, for every plan, calendar and sequence of failed calls: an undo
\* that reports "undone" gives back the day as it was before the submit, but for
\* descriptions (on_undo_submit in agent.py, undo_sync in sync_engine.py).
THEOREM UndoCorrect ==
  ASSUME NEW one, Handlers = {one} PROVE Spec => UndoRestores
<1>1. Handlers = {one}
  OBVIOUS
<1>2. Init => TypeInv /\ SerialInv(one)
  BY <1>1, TypesAtStart, SerialAtStart
<1>3. TypeInv /\ SerialInv(one) /\ [Next]_vars => TypeInv' /\ SerialInv(one)'
  BY <1>1, TypesKept, SerialKept
<1>4. TypeInv /\ SerialInv(one) =>
        (\A h \in Handlers :
           FinishUndo(h) /\ ~failed[h] /\ origin[h].fresh /\ origin[h].edits = edits
             => Undescribed(cal) = Undescribed(origin[h].cal))
  <2>. SUFFICES ASSUME SerialInv(one), FinishUndo(one), ~failed[one],
              Undisturbed(origin[one])
       PROVE  Undescribed(cal) = Undescribed(origin[one].cal)
    BY <1>1 DEF Undisturbed
  <2>1. pc[one] = "undo" /\ todo[one] = {}
    BY DEF FinishUndo
  <2>2. PICK ops \in SUBSET SyncOps(origin[one]) :
          /\ todo[one] = {Undoing(op) : op \in ops}
          /\ Undescribed(cal) = Undescribed(Effect(origin[one].cal, ops))
    BY <2>1 DEF SerialInv, Undone
  <2>3. ops = {}
    BY <2>1, <2>2
  <2>. QED  BY <2>2, <2>3, EffectOfNone
<1>. QED  BY <1>2, <1>3, <1>4, PTL DEF Spec, UndoRestores
-----------------------------------------------------------------------------
(* A submit that is through *)

\* Whole percents: what reaches the threshold after the division reached it
\* before.
LEMMA PercentBound ==
  ASSUME NEW x \in Nat, NEW y \in Nat \ {0}, NEW k \in Nat, (x * 100) \div y >= k
  PROVE  x * 100 >= k * y
<1> DEFINE q == (x * 100) \div y
<1>1. x * 100 \in Nat /\ q \in Int /\ q * y <= x * 100
  OBVIOUS
<1>2. q >= k
  OBVIOUS
<1> HIDE DEF q
<1>3. q * y >= k * y
  BY <1>1, <1>2
<1>. QED  BY <1>1, <1>3

\* A foreign event that is matched stands in for what is planned.
LEMMA AlikeStandsIn ==
  ASSUME NEW e \in Entries, NEW d \in Event, ~IsOwned(e.id), Alike(d, Shown(e))
  PROVE  StandsIn(e, d)
<1> DEFINE r == Shown(e)
<1>1. /\ e.st \in Int /\ e.et \in Int /\ d.st \in Int /\ d.et \in Int
      /\ r.id = e.id /\ r.n = e.n /\ r.st = e.st /\ r.et = e.et
  BY SubmitAssumption DEF Entries, Event, Shown
<1>2. StartTolerance \in Nat /\ OverlapPercent \in Nat
  BY ToleranceAssumption
<1> HIDE DEF r
<1>3. /\ OverlapMinutes(d, r) = OverlapMinutes(e, d) /\ OverlapMinutes(e, d) \in Nat
      /\ StartDelta(d, r) = Distance(e.st, d.st)
      /\ Smaller(Duration(d), Duration(r)) = Smaller(Duration(e), Duration(d))
  BY <1>1 DEF OverlapMinutes, StartDelta, Distance, Duration, Larger, Smaller
<1>4. CASE SameKey(d, r)
  <2>1. e.n = d.n /\ Distance(e.st, d.st) = 0
    BY <1>1, <1>4 DEF SameKey, Distance, Larger, Smaller
  <2>. QED  BY <1>2, <2>1 DEF StandsIn
<1>5. CASE Fuzzy(d, r)
  BY <1>1, <1>3, <1>5 DEF Fuzzy, StandsIn
<1>6. CASE Covered(d, r)
  <2> DEFINE x == OverlapMinutes(e, d) y == Smaller(Duration(e), Duration(d))
  <2>1. x > 0 => y \in Nat \ {0}
    BY <1>1 DEF OverlapMinutes, Duration, Larger, Smaller
  <2>2. x \in Nat /\ x > 0 /\ (x * 100) \div y >= OverlapPercent
    BY <1>3, <1>6 DEF Covered, Percent
  <2> HIDE DEF x, y
  <2>3. x * 100 >= OverlapPercent * y
    BY <1>2, <2>1, <2>2, PercentBound
  <2>. QED  BY <2>3 DEF StandsIn, x, y
<1>. QED  BY <1>4, <1>5, <1>6 DEF Alike, r

\* What a planned event is written as.
LEMMA WrittenAsPlanned ==
  ASSUME NEW id, NEW d \in Event
  PROVE  AsPlanned(Entry(id, d), d)
<1>1. Entry(id, d).id = id /\ Entry(id, d).d = d.d
  BY DEF Entry
<1>2. d.d = "" => [d EXCEPT !.d = Entry(id, d).d] = d
  BY <1>1 DEF Event
<1>. QED  BY <1>1, <1>2 DEF AsPlanned

\* An entry that shows no difference is left as it is.
LEMMA UnchangedAsPlanned ==
  ASSUME NEW e \in Entries, NEW d \in Event, AsEvent(Shown(e)) = d
  PROVE  AsPlanned(e, d)
<1> DEFINE x == [d EXCEPT !.d = e.d]
<1>1. d.n = e.n /\ d.st = e.st /\ d.et = e.et /\ d.d = ""
  BY DEF AsEvent, Shown
<1>2. x \in Event /\ x.n = d.n /\ x.st = d.st /\ x.et = d.et /\ x.d = e.d
  BY DEF Event, Entries
<1> HIDE DEF x
<1>3. Entry(e.id, x) \in Entries
  BY <1>2 DEF Entry, Entries, Event
<1>4. Entry(e.id, x) = e
  BY <1>1, <1>2, <1>3, SameEntry DEF Entry
<1>. QED  BY <1>1, <1>4 DEF AsPlanned, x

\* The entries f of a calendar c that a plan p has, when m is how the day s was
\* matched with it: the foreign ones that were matched, and the agent's own.
Fulfils(f, c, p, s, m) ==
  /\ \A i, j \in DOMAIN p : f[i] = f[j] => i = j
  /\ \A e \in c : IsOwned(e.id) => \E i \in DOMAIN p : f[i] = e
  /\ \A i \in DOMAIN p :
       IF m[i] # 0 /\ ~IsOwned(s[m[i]].id)
         THEN Shown(f[i]) = s[m[i]] /\ StandsIn(f[i], p[i])
         ELSE IsOwned(f[i].id) /\ AsPlanned(f[i], p[i])

\* All operations carried out: each planned event has its entry.
LEMMA CarriedOutFulfils ==
  ASSUME NEW o \in Origin, IsCalendar(o.cal), NEW c, CarriedOut(c, o, SyncOps(o)),
         NEW p, p = o.plan, NEW s, s = Snapshot(o.cal), NEW m, m = Matching(p, s)
  PROVE  \E f \in [DOMAIN p -> c] : Fulfils(f, c, p, s, m)
<1> DEFINE at(j) == CHOOSE e \in o.cal : Shown(e) = s[j]
           id(i) == IF m[i] = 0 THEN Seed(p[i], i) ELSE s[m[i]].id
           written(i) == m[i] = 0 \/ (IsOwned(s[m[i]].id) /\ AsEvent(s[m[i]]) # p[i])
           F(i) == IF written(i) THEN Entry(id(i), p[i]) ELSE at(m[i])
           f == [i \in DOMAIN p |-> F(i)]
<1>1. /\ Len(p) \in Nat /\ DOMAIN p = 1..Len(p) /\ \A i \in 1..Len(p) : p[i] \in Event
      /\ Len(s) \in Nat /\ DOMAIN s = 1..Len(s)
      /\ \A j \in 1..Len(s) : \E e \in o.cal : s[j] = Shown(e)
      /\ \A e \in o.cal : \E j \in 1..Len(s) : s[j] = Shown(e)
      /\ OneToOne(m, Len(p), Len(s))
      /\ \A i \in 1..Len(p) : m[i] # 0 => Alike(p[i], s[m[i]])
  <2>1. /\ Len(p) \in Nat /\ DOMAIN p = 1..Len(p) /\ \A i \in 1..Len(p) : p[i] \in Event
    BY SyncFacts
  <2>2. /\ Len(s) \in Nat /\ DOMAIN s = 1..Len(s)
        /\ \A j \in 1..Len(s) : \E e \in o.cal : s[j] = Shown(e)
    BY SyncFacts
  <2>3. \A e \in o.cal : \E j \in 1..Len(s) : s[j] = Shown(e)
    BY SyncFacts
  <2>4. OneToOne(m, Len(p), Len(s))
    BY SyncFacts
  <2>5. \A i \in 1..Len(p) : m[i] # 0 => Alike(p[i], s[m[i]])
    BY SyncFacts
  <2>. QED  BY <2>1, <2>2, <2>3, <2>4, <2>5
<1>2. SyncOps(o) = CreateOps(m, p) \cup UpdateOps(m, s, p) \cup DeleteOps(m, s)
  BY SyncFacts
<1>3. \A j, k \in 1..Len(s) : s[j].id = s[k].id => j = k
  BY SyncFacts
<1>4. /\ c = Effect(o.cal, SyncOps(o))
      /\ \A op \in SyncOps(o) : op.kind = "create" => ~Has(o.cal, op.id)
  BY DEF CarriedOut
<1>5. o.cal \subseteq Entries /\ DistinctIds(o.cal)
  BY DEF IsCalendar
<1>6. /\ \A op \in CreateOps(m, p) :
           /\ op.kind = "create" /\ op.at \in 1..Len(p) /\ m[op.at] = 0
           /\ op.id = Seed(p[op.at], op.at) /\ op.after = p[op.at]
      /\ \A op \in UpdateOps(m, s, p) :
           /\ op.kind = "update" /\ op.at \in 1..Len(p) /\ m[op.at] \in 1..Len(s)
           /\ IsOwned(s[m[op.at]].id) /\ AsEvent(s[m[op.at]]) # p[op.at]
           /\ op.id = s[m[op.at]].id /\ op.after = p[op.at]
      /\ \A op \in DeleteOps(m, s) :
           /\ op.kind = "delete" /\ op.at \in 1..Len(s) /\ \A i \in 1..Len(p) : m[i] # op.at
           /\ op.id = s[op.at].id
  BY <1>1, SyncKinds
<1>7. m \in [1..Len(p) -> 0..Len(s)]
      /\ \A i, k \in 1..Len(p) : m[i] = m[k] /\ m[i] # 0 => i = k
  BY <1>1 DEF OneToOne
<1>8. ASSUME NEW j \in 1..Len(s)
      PROVE  /\ at(j) \in o.cal /\ Shown(at(j)) = s[j] /\ at(j).id = s[j].id
             /\ \A e \in o.cal : e.id = s[j].id => e = at(j)
  <2>1. at(j) \in o.cal /\ Shown(at(j)) = s[j]
    BY <1>1
  <2> HIDE DEF at
  <2>2. at(j).id = s[j].id
    BY <2>1 DEF Shown
  <2>. QED  BY <1>5, <2>1, <2>2 DEF DistinctIds
<1> HIDE DEF at
\* No operation but the one of its own match touches a matched entry.
<1>9. ASSUME NEW i \in 1..Len(p), ~written(i), NEW op \in SyncOps(o)
      PROVE  op.id # s[m[i]].id
  <2>1. m[i] \in 1..Len(s)
    BY <1>1, <1>7, <1>9
  <2>2. Has(o.cal, s[m[i]].id)
    BY <1>8, <2>1 DEF Has
  <2>3. CASE op \in CreateOps(m, p)
    BY <1>4, <1>6, <2>2, <2>3
  <2>4. CASE op \in UpdateOps(m, s, p)
    BY <1>3, <1>6, <1>7, <1>9, <2>1, <2>4
  <2>5. CASE op \in DeleteOps(m, s)
    BY <1>3, <1>6, <2>1, <2>5
  <2>. QED  BY <1>2, <2>3, <2>4, <2>5
<1>10. ASSUME NEW i \in 1..Len(p), m[i] = 0
       PROVE  Seed(p[i], i) \notin {e.id : e \in o.cal} /\ Entry(id(i), p[i]) \in c
  <2> DEFINE op == [kind |-> "create", at |-> i, id |-> Seed(p[i], i),
                    after |-> p[i], before |-> None]
  <2>1. op \in CreateOps(m, p)
    BY <1>7, <1>10 DEF CreateOps, Creates
  <2>2. op \in SyncOps(o) /\ op.kind = "create" /\ op.id = Seed(p[i], i) /\ op.after = p[i]
    BY <1>2, <2>1
  <2> HIDE DEF op
  <2>. QED  BY <1>4, <1>10, <2>2 DEF Has, Effect
<1>11. ASSUME NEW i \in 1..Len(p), m[i] # 0, written(i)
       PROVE  Entry(id(i), p[i]) \in c
  <2> DEFINE op == [kind |-> "update", at |-> i, id |-> s[m[i]].id,
                    after |-> p[i], before |-> AsEvent(s[m[i]])]
  <2>1. op \in UpdateOps(m, s, p)
    BY <1>7, <1>11 DEF UpdateOps, OwnedMatches
  <2>2. op \in SyncOps(o) /\ op.kind = "update" /\ op.id = s[m[i]].id /\ op.after = p[i]
    BY <1>2, <2>1
  <2> HIDE DEF op
  <2>. QED  BY <1>4, <1>11, <2>2 DEF Effect
<1>12. ASSUME NEW i \in 1..Len(p), ~written(i)
       PROVE  m[i] \in 1..Len(s) /\ at(m[i]) \in o.cal /\ at(m[i]) \in c
  <2>1. m[i] \in 1..Len(s)
    BY <1>1, <1>7, <1>12
  <2>. QED  BY <1>4, <1>8, <1>9, <1>12, <2>1 DEF Effect
<1>13. ASSUME NEW i \in 1..Len(p) PROVE F(i) \in c /\ F(i).id = id(i)
  <2>1. CASE written(i)
    BY <1>10, <1>11, <2>1 DEF Entry
  <2>2. CASE ~written(i)
    BY <1>8, <1>12, <2>2
  <2>. QED  BY <2>1, <2>2
<1>14. ASSUME NEW i \in 1..Len(p), NEW k \in 1..Len(p), id(i) = id(k) PROVE i = k
  <2>1. \A l \in 1..Len(p) : m[l] # 0 => s[m[l]].id \in {e.id : e \in o.cal}
    BY <1>7, <1>8
  <2>2. CASE m[i] = 0 /\ m[k] = 0
    BY <1>14, <2>2 DEF Seed
  <2>3. CASE m[i] # 0 /\ m[k] # 0
    BY <1>3, <1>7, <1>14, <2>3
  <2>. QED  BY <1>10, <1>14, <2>1, <2>2, <2>3
<1>15. ASSUME NEW i \in 1..Len(p)
       PROVE  IF m[i] # 0 /\ ~IsOwned(s[m[i]].id)
                THEN Shown(F(i)) = s[m[i]] /\ StandsIn(F(i), p[i])
                ELSE IsOwned(F(i).id) /\ AsPlanned(F(i), p[i])
  <2>1. CASE m[i] # 0 /\ ~IsOwned(s[m[i]].id)
    <3>1. ~written(i)
      BY <2>1
    <3>2. /\ m[i] \in 1..Len(s) /\ at(m[i]) \in Entries /\ Shown(at(m[i])) = s[m[i]]
          /\ at(m[i]).id = s[m[i]].id
      BY <1>5, <1>8, <1>12, <3>1
    <3>3. F(i) = at(m[i])
      BY <3>1
    <3>. QED  BY <1>1, <2>1, <3>2, <3>3, AlikeStandsIn
  <2>2. CASE m[i] = 0 \/ IsOwned(s[m[i]].id)
    <3>1. IsOwned(F(i).id)
      <4>1. F(i).id = id(i)
        BY <1>13
      <4> HIDE DEF F
      <4>2. IsOwned(id(i))
        BY <2>2 DEF IsOwned, Seed
      <4>. QED  BY <4>1, <4>2
    <3>2. CASE written(i)
      BY <1>1, <2>2, <3>1, <3>2, WrittenAsPlanned
    <3>3. CASE ~written(i)
      <4>1. /\ m[i] \in 1..Len(s) /\ at(m[i]) \in Entries /\ Shown(at(m[i])) = s[m[i]]
        BY <1>5, <1>8, <1>12, <3>3
      <4>2. AsEvent(s[m[i]]) = p[i] /\ F(i) = at(m[i])
        BY <2>2, <3>3
      <4>. QED  BY <1>1, <2>2, <3>1, <4>1, <4>2, UnchangedAsPlanned
    <3>. QED  BY <3>2, <3>3
  <2>. QED  BY <2>1, <2>2
<1>16. ASSUME NEW e \in c, IsOwned(e.id) PROVE \E i \in 1..Len(p) : F(i) = e
  <2>1. CASE e \in o.cal /\ \A op \in SyncOps(o) : op.id # e.id
    <3>1. PICK j \in 1..Len(s) : s[j] = Shown(e)
      BY <1>1, <2>1
    <3>2. s[j].id = e.id
      BY <3>1 DEF Shown
    <3>3. \E i \in 1..Len(p) : m[i] = j
      <4>. SUFFICES ASSUME \A i \in 1..Len(p) : m[i] # j PROVE FALSE
        OBVIOUS
      <4> DEFINE op == [kind |-> "delete", at |-> j, id |-> s[j].id,
                        after |-> None, before |-> AsEvent(s[j])]
      <4>1. op \in DeleteOps(m, s)
        BY <1>1, <1>7, <1>16, <3>2 DEF DeleteOps, Deletes, Free
      <4>2. op \in SyncOps(o) /\ op.id = e.id
        BY <1>2, <3>2, <4>1
      <4> HIDE DEF op
      <4>. QED  BY <2>1, <4>2
    <3>4. PICK i \in 1..Len(p) : m[i] = j
      BY <3>3
    <3>5. ~written(i)
      <4>. SUFFICES ASSUME AsEvent(s[j]) # p[i] PROVE FALSE
        BY <3>4
      <4> DEFINE op == [kind |-> "update", at |-> i, id |-> s[m[i]].id,
                        after |-> p[i], before |-> AsEvent(s[m[i]])]
      <4>1. op \in UpdateOps(m, s, p)
        <5>1. DOMAIN m = 1..Len(p) /\ m[i] # 0 /\ IsOwned(s[m[i]].id)
          BY <1>7, <1>16, <3>2, <3>4
        <5>2. i \in OwnedMatches(m, s) /\ AsEvent(s[m[i]]) # p[i]
          BY <3>4, <5>1 DEF OwnedMatches
        <5>. QED  BY <5>2 DEF UpdateOps
      <4>2. op \in SyncOps(o) /\ op.id = e.id
        BY <1>2, <3>2, <3>4, <4>1
      <4> HIDE DEF op
      <4>. QED  BY <2>1, <4>2
    <3>6. F(i) = e
      BY <1>8, <2>1, <3>2, <3>4, <3>5
    <3>. QED  BY <3>6
  <2>2. ASSUME NEW op \in SyncOps(o), op.kind # "delete", e = Entry(op.id, op.after)
        PROVE  \E i \in 1..Len(p) : F(i) = e
    <3>1. op.at \in 1..Len(p) /\ written(op.at) /\ op.id = id(op.at) /\ op.after = p[op.at]
      BY <1>2, <1>6, <2>2
    <3>. QED  BY <2>2, <3>1
  <2>. QED  BY <1>4, <2>1, <2>2 DEF Effect
<1> HIDE DEF F, id, written
<1>17. f \in [DOMAIN p -> c] /\ \A i \in DOMAIN p : f[i] = F(i)
  BY <1>1, <1>13
<1>18. Fulfils(f, c, p, s, m)
  <2>1. \A i, j \in DOMAIN p : f[i] = f[j] => i = j
    BY <1>1, <1>13, <1>14, <1>17
  <2>2. \A i \in DOMAIN p :
          IF m[i] # 0 /\ ~IsOwned(s[m[i]].id)
            THEN Shown(f[i]) = s[m[i]] /\ StandsIn(f[i], p[i])
            ELSE IsOwned(f[i].id) /\ AsPlanned(f[i], p[i])
    BY <1>1, <1>15, <1>17
  <2>3. \A e \in c : IsOwned(e.id) => \E i \in DOMAIN p : f[i] = e
    BY <1>1, <1>16, <1>17
  <2>. QED  BY <2>1, <2>2, <2>3 DEF Fulfils
<1> HIDE DEF f
<1>. QED  BY <1>17, <1>18

\* All operations carried out: the calendar realises the plan.
LEMMA CarriedOutRealises ==
  ASSUME NEW o \in Origin, IsCalendar(o.cal), NEW c, CarriedOut(c, o, SyncOps(o))
  PROVE  Realises(c, o.plan)
<1> DEFINE p == o.plan s == Snapshot(o.cal) m == Matching(p, s)
<1>1. PICK f \in [DOMAIN p -> c] : Fulfils(f, c, p, s, m)
  BY CarriedOutFulfils
<1> HIDE DEF p, s, m
<1>. QED  BY <1>1 DEF Fulfils, Realises, p

\* CommittedIsRealised, for every plan and every calendar: a submit that reports
\* "committed" leaves the planned day on the calendar (execute_sync in
\* sync_engine.py, the matching in calendar_reconciliation.py).
THEOREM CommitCorrect ==
  ASSUME NEW one, Handlers = {one} PROVE Spec => []CommittedIsRealised
<1>1. TypeInv /\ SerialInv(one) => CommittedIsRealised
  <2>. SUFFICES ASSUME TypeInv, SerialInv(one), Settled PROVE Realises(cal, txOrigin.plan)
    BY DEF CommittedIsRealised
  <2>1. CarriedOut(cal, txOrigin, tx.done) /\ tx.done = SyncOps(txOrigin)
    BY DEF Settled, SerialInv, Committed, Undisturbed
  <2>2. txOrigin \in Origin /\ IsCalendar(txOrigin.cal)
    BY DEF TypeInv, TypeOK, SerialInv
  <2>. QED  BY <2>1, <2>2, CarriedOutRealises
<1>2. Spec => [](TypeInv /\ SerialInv(one))
  BY SerialAlways
<1>. QED  BY <1>1, <1>2, PTL
-----------------------------------------------------------------------------
(* Racing submits of one plan *)

\* What the bookings rest on, beside the model's own assumptions: the user moves
\* nothing, starts lie further apart than the tolerance, events take time, and a
\* malformed answer shows none of the agent's events.
Lasts(e) == e.st < e.et
Steady(p) == \A i \in DOMAIN p : Lasts(p[i])

OnlySubmits ==
  /\ MaxEdits = 0 \/ UserSlots = {}
  /\ \A s, t \in Times : s # t => Distance(s, t) > StartTolerance
  /\ \A p \in Plans : Steady(p)
  /\ \A e \in Day : Lasts(e)
  /\ \A s \in Unreadable : Steady(s) /\ \A j \in DOMAIN s : ~IsOwned(s[j].id)

\* One plan of those submitted, and no event of the agent's before it.
OnePlan(S) == (\A p, q \in S : p = q) /\ \A e \in Day : ~IsOwned(e.id)

\* The id is the one of an event of the plan, at its times.
Books(S, id, e) ==
  \E p \in S : \E i \in DOMAIN p :
    id = Seed(p[i], i) /\ e.n = p[i].n /\ e.st = p[i].st /\ e.et = p[i].et

\* An event under an id of the agent's is the event the id was made for.
Agrees(S, id, e) == Lasts(e) /\ (OnePlan(S) /\ IsOwned(id) => Books(S, id, e))

Holds(S, c) == \A e \in c : Agrees(S, e.id, e)
Shows(S, s) == \A j \in DOMAIN s : Agrees(S, s[j].id, s[j])
Writes(S, ops) ==
  \A op \in ops : /\ op.kind # "delete" => Agrees(S, op.id, op.after)
                  /\ op.kind # "create" => Agrees(S, op.id, op.before)

\* The inductive invariant behind NoDoubleBooking: whatever is in the calendar,
\* in a snapshot however old, or in an operation to come or to undo, an id of the
\* agent's goes with the event it was made for.
BookInv ==
  /\ IsFiniteSet(submitted)
  /\ \A p \in submitted : p \in Seq(Event) /\ Steady(p) /\ ~Overlapping(p)
  /\ Steady(plan) /\ Steady(base) /\ \A e \in anchors : Lasts(e)
  /\ Holds(submitted, cal)
  /\ cache # None => Shows(submitted, cache)
  /\ \A h \in Handlers :
       /\ answer[h] # None => Shows(submitted, answer[h])
       /\ Writes(submitted, todo[h]) /\ Writes(submitted, done[h])
  /\ tx # None => Writes(submitted, tx.done)

\* Submitting more keeps what agrees.
LEMMA AgreesOn ==
  ASSUME NEW S, NEW T, S \subseteq T
  PROVE  /\ \A id, e : Agrees(S, id, e) => Agrees(T, id, e)
         /\ \A c : Holds(S, c) => Holds(T, c)
         /\ \A s : Shows(S, s) => Shows(T, s)
         /\ \A ops : Writes(S, ops) => Writes(T, ops)
<1>1. OnePlan(T) => OnePlan(S)
  BY DEF OnePlan
<1>2. ASSUME NEW id, NEW e, Agrees(S, id, e) PROVE Agrees(T, id, e)
  BY <1>1, <1>2 DEF Agrees, Books
<1>. QED  BY <1>2 DEF Holds, Shows, Writes

\* What a snapshot shows of a calendar.
LEMMA ShowsHeld ==
  ASSUME NEW S, NEW c, c \subseteq Entries, IsFiniteSet(c), Holds(S, c)
  PROVE  Shows(S, Snapshot(c))
<1> DEFINE s == Snapshot(c)
<1>1. s \in Seq(Remote) /\ \A j \in 1..Len(s) : \E e \in c : s[j] = Shown(e)
  BY SnapshotShows
<1> HIDE DEF s
<1>2. ASSUME NEW j \in DOMAIN s PROVE Agrees(S, s[j].id, s[j])
  <2>1. PICK e \in c : s[j] = Shown(e)
    BY <1>1
  <2>2. Agrees(S, e.id, e)
    BY DEF Holds
  <2>3. s[j].id = e.id /\ s[j].n = e.n /\ s[j].st = e.st /\ s[j].et = e.et
    BY <2>1 DEF Shown
  <2>. QED  BY <2>2, <2>3 DEF Agrees, Books, Lasts
<1>. QED  BY <1>2 DEF Shows, s

\* A snapshot as a plan takes its time, and so do the anchors in order.
LEMMA SteadyPlans ==
  /\ \A S, s : s \in Seq(Remote) /\ Shows(S, s)
                 => Steady(AsPlan(s)) /\ \A e \in Range(AsPlan(s)) : Lasts(e)
  /\ \A A : IsFiniteSet(A) /\ A \subseteq Event /\ (\A e \in A : Lasts(e))
                 => Steady(InOrder(A))
<1>1. ASSUME NEW S, NEW s \in Seq(Remote), Shows(S, s)
      PROVE  Steady(AsPlan(s)) /\ \A e \in Range(AsPlan(s)) : Lasts(e)
  <2>1. \A j \in DOMAIN s : Lasts(AsPlan(s)[j])
    BY <1>1 DEF Shows, Agrees, Lasts, AsPlan, AsEvent
  <2>2. DOMAIN AsPlan(s) = DOMAIN s
    BY DEF AsPlan
  <2>. QED  BY <2>1, <2>2 DEF Steady, Range
<1>2. ASSUME NEW A, IsFiniteSet(A), A \subseteq Event, \A e \in A : Lasts(e)
      PROVE  Steady(InOrder(A))
  <2>1. \A e \in A : e.st \in Int
    BY <1>2, SubmitAssumption DEF Event
  <2>2. InOrder(A) \in Seq(A)
    BY <1>2, <2>1, InOrderEnumerates DEF Enumerates
  <2>. QED  BY <1>2, <2>2 DEF Steady
<1>. QED  BY <1>1, <1>2

\* Carrying out an operation leaves what agrees.
LEMMA AppliedHolds ==
  ASSUME NEW S, NEW c, Holds(S, c), NEW ops, Writes(S, ops), NEW op \in ops
  PROVE  Holds(S, Applied(c, op))
<1>1. CASE op.kind = "delete"
  BY <1>1 DEF Applied, Holds
<1>2. CASE op.kind # "delete"
  <2> DEFINE x == Entry(op.id, op.after)
  <2>1. Agrees(S, op.id, op.after)
    BY <1>2 DEF Writes
  <2>2. x.id = op.id /\ x.n = op.after.n /\ x.st = op.after.st /\ x.et = op.after.et
    BY DEF Entry
  <2>3. Agrees(S, x.id, x)
    BY <2>1, <2>2 DEF Agrees, Books, Lasts
  <2>4. Applied(c, op) = {e \in c : e.id # op.id} \cup {x}
    BY <1>2 DEF Applied
  <2> HIDE DEF x
  <2>. QED  BY <2>3, <2>4 DEF Holds
<1>. QED  BY <1>1, <1>2

\* So does undoing it.
LEMMA UndoingWrites ==
  ASSUME NEW S, NEW ops, ops \subseteq Op, Writes(S, ops)
  PROVE  Writes(S, {Undoing(op) : op \in ops})
<1>1. ASSUME NEW op \in ops
      PROVE  /\ Undoing(op).kind # "delete" => Agrees(S, Undoing(op).id, Undoing(op).after)
             /\ Undoing(op).kind # "create" => Agrees(S, Undoing(op).id, Undoing(op).before)
  <2>1. op.kind \in {"create", "update", "delete"}
    BY DEF Op
  <2>. QED  BY <2>1 DEF Undoing, Writes
<1>. QED  BY <1>1 DEF Writes

\* Events of a plan without overlaps follow one another.
LEMMA InTurn ==
  ASSUME NEW p \in Seq(Event), Steady(p), ~Overlapping(p),
         NEW i \in DOMAIN p, NEW j \in DOMAIN p, i < j
  PROVE  p[i].et <= p[j].st
<1> DEFINE n == Len(p) - i - 1
           S == {k \in 0..n : p[i].et <= p[i + 1 + k].st}
<1>1. Len(p) \in Nat /\ DOMAIN p = 1..Len(p) /\ \A k \in 1..Len(p) : p[k] \in Event
  OBVIOUS
<1>2. n \in Nat
  BY <1>1
<1>3. \A k \in 1..Len(p) : p[k].st \in Int /\ p[k].et \in Int /\ p[k].st < p[k].et
  BY <1>1, SubmitAssumption DEF Event, Steady, Lasts
<1>4. \A k \in 1..(Len(p) - 1) : p[k].et <= p[k + 1].st
  <2>1. ASSUME NEW k \in 1..(Len(p) - 1) PROVE ~(p[k].et > p[k + 1].st)
    BY DEF Overlapping
  <2>2. ASSUME NEW k \in 1..(Len(p) - 1) PROVE p[k].et \in Int /\ p[k + 1].st \in Int
    <3>1. k \in 1..Len(p) /\ k + 1 \in 1..Len(p)
      BY <1>1
    <3>. QED  BY <1>3, <3>1
  <2>. QED  BY <2>1, <2>2
<1>5. 0 \in S
  <2>1. i \in 1..(Len(p) - 1)
    BY <1>1
  <2>2. p[i].et <= p[i + 1].st
    BY <1>4, <2>1
  <2>3. 0 \in 0..n /\ i + 1 + 0 = i + 1
    BY <1>1, <1>2, <2>1
  <2>. QED  BY <2>2, <2>3
<1>6. ASSUME NEW k \in 0..(n - 1), k \in S PROVE k + 1 \in S
  <2> DEFINE l == i + 1 + k
  <2>1. l \in 1..(Len(p) - 1) /\ l \in 1..Len(p) /\ l + 1 \in 1..Len(p) /\ l + 1 = i + 1 + (k + 1)
    BY <1>1
  <2>2. p[i].et <= p[l].st
    BY <1>6
  <2>3. p[l].et <= p[l + 1].st /\ p[l].st < p[l].et
    BY <1>3, <1>4, <2>1
  <2>4. p[i].et \in Int /\ p[l].st \in Int /\ p[l].et \in Int /\ p[l + 1].st \in Int
    BY <1>1, <1>3, <2>1
  <2> HIDE DEF l
  <2>5. p[i].et <= p[l + 1].st
    <3>1. \A a, b, c, d \in Int : a <= b /\ b < c /\ c <= d => a <= d
      OBVIOUS
    <3>. QED  BY <2>2, <2>3, <2>4, <3>1
  <2>6. k + 1 \in 0..n
    BY <1>2
  <2>. QED  BY <2>1, <2>5, <2>6
<1>7. 0..n \subseteq S
  <2> HIDE DEF S, n
  <2>. QED  BY <1>2, <1>5, <1>6, SetInduction
<1>8. j - i - 1 \in 0..n /\ i + 1 + (j - i - 1) = j
  BY <1>1
<1>. QED  BY <1>7, <1>8

\* Of a plan that can be submitted, no two events overlap or start at once.
LEMMA Apart ==
  ASSUME NEW p \in Seq(Event), Steady(p), ~Overlapping(p),
         NEW i \in DOMAIN p, NEW j \in DOMAIN p,
         OverlapMinutes(p[i], p[j]) > 0 \/ p[i].st = p[j].st
  PROVE  i = j
<1>1. /\ p[i].st \in Int /\ p[i].et \in Int /\ p[i].st < p[i].et
      /\ p[j].st \in Int /\ p[j].et \in Int /\ p[j].st < p[j].et
  <2>1. p[i] \in Event /\ p[j] \in Event
    OBVIOUS
  <2>. QED  BY <2>1, SubmitAssumption DEF Event, Steady, Lasts
<1>2. i \in Int /\ j \in Int
  OBVIOUS
<1>3. CASE i < j
  BY <1>1, <1>3, InTurn DEF OverlapMinutes, Larger, Smaller
<1>4. CASE j < i
  BY <1>1, <1>4, InTurn DEF OverlapMinutes, Larger, Smaller
<1>. QED  BY <1>2, <1>3, <1>4

\* An event of the plan is alike only to the event booked for it.
LEMMA AlikeBooked ==
  ASSUME OnlySubmits, NEW p \in Seq(Event), Steady(p), ~Overlapping(p),
         NEW i \in DOMAIN p, NEW j \in DOMAIN p,
         NEW r, IsOwned(r.id), r.n = p[j].n, r.st = p[j].st, r.et = p[j].et,
         Alike(p[i], r)
  PROVE  i = j
<1>1. p[i] \in Event /\ p[j] \in Event
  OBVIOUS
<1>2. /\ p[i].st \in Times /\ p[j].st \in Times
      /\ p[i].st \in Int /\ p[i].et \in Int /\ p[j].st \in Int /\ p[j].et \in Int
  BY <1>1, SubmitAssumption DEF Event
<1>3. CASE SameKey(p[i], r)
  BY <1>3, Apart DEF SameKey
<1>4. CASE Fuzzy(p[i], r)
  <2>1. CASE OverlapMinutes(p[i], r) > 0
    <3>1. OverlapMinutes(p[i], p[j]) = OverlapMinutes(p[i], r)
      BY DEF OverlapMinutes
    <3>. QED  BY <2>1, <3>1, Apart
  <2>2. CASE StartDelta(p[i], r) <= StartTolerance
    <3>1. Distance(p[i].st, p[j].st) <= StartTolerance
      BY <2>2 DEF StartDelta
    <3>2. Distance(p[i].st, p[j].st) \in Int /\ StartTolerance \in Int
      BY <1>2, ToleranceAssumption DEF Distance, Larger, Smaller
    <3>3. p[i].st = p[j].st
      BY <1>2, <3>1, <3>2 DEF OnlySubmits
    <3>. QED  BY <3>3, Apart
  <2>. QED  BY <1>4, <2>1, <2>2 DEF Fuzzy
<1>. QED  BY <1>3, <1>4 DEF Alike, Covered

\* The sync of the plan with any snapshot of what was booked for it.
LEMMA SyncWrites ==
  ASSUME OnlySubmits, NEW S, NEW p \in Seq(Event), Steady(p), ~Overlapping(p), p \in S,
         NEW s \in Seq(Remote), Shows(S, s)
  PROVE  Writes(S, PlanSync(s, p))
<1> DEFINE m == Matching(p, s)
<1>1. /\ Len(p) \in Nat /\ DOMAIN p = 1..Len(p) /\ Len(s) \in Nat /\ DOMAIN s = 1..Len(s)
      /\ \A i \in 1..Len(p) : p[i] \in Event
  OBVIOUS
<1>2. /\ m \in [1..Len(p) -> 0..Len(s)]
      /\ \A i \in 1..Len(p) : m[i] # 0 => Alike(p[i], s[m[i]])
  BY <1>1, MatchingMatches DEF OneToOne
<1> HIDE DEF m
<1>3. \A j \in 1..Len(s) : Agrees(S, s[j].id, AsEvent(s[j]))
  BY <1>1 DEF Shows, Agrees, Books, Lasts, AsEvent
<1>4. ASSUME NEW i \in 1..Len(p) PROVE Agrees(S, Seed(p[i], i), p[i])
  BY <1>1 DEF Agrees, Books, Steady
<1>5. ASSUME NEW i \in 1..Len(p), m[i] # 0, IsOwned(s[m[i]].id)
      PROVE  Agrees(S, s[m[i]].id, p[i])
  <2>1. m[i] \in 1..Len(s) /\ Alike(p[i], s[m[i]])
    BY <1>2, <1>5
  <2>. SUFFICES ASSUME OnePlan(S) PROVE Books(S, s[m[i]].id, p[i])
    BY <1>1 DEF Agrees, Steady
  <2>2. Books(S, s[m[i]].id, s[m[i]])
    BY <1>1, <1>5, <2>1 DEF Shows, Agrees
  <2>3. PICK q \in S : \E j \in DOMAIN q :
          /\ s[m[i]].id = Seed(q[j], j)
          /\ s[m[i]].n = q[j].n /\ s[m[i]].st = q[j].st /\ s[m[i]].et = q[j].et
    BY <2>2 DEF Books
  <2>4. q = p
    BY DEF OnePlan
  <2>5. PICK j \in DOMAIN p :
          /\ s[m[i]].id = Seed(p[j], j)
          /\ s[m[i]].n = p[j].n /\ s[m[i]].st = p[j].st /\ s[m[i]].et = p[j].et
    BY <2>3, <2>4
  <2>6. i = j
    BY <1>1, <1>5, <2>1, <2>5, AlikeBooked
  <2>. QED  BY <1>1, <2>5, <2>6 DEF Books
<1>6. Writes(S, CreateOps(m, p))
  BY <1>2, <1>4 DEF Writes, CreateOps, Creates
<1>7. Writes(S, UpdateOps(m, s, p))
  BY <1>2, <1>3, <1>5 DEF Writes, UpdateOps, OwnedMatches
<1>8. Writes(S, DeleteOps(m, s))
  BY <1>1, <1>3 DEF Writes, DeleteOps, Deletes, Free
<1>. QED  BY <1>6, <1>7, <1>8 DEF PlanSync, Writes, m

\* The parts of a step that several actions share.
LEMMA ReturnBooks ==
  ASSUME TypeInv, BookInv, NEW h \in Handlers, Return(h)
  PROVE  \A g \in Handlers : /\ answer'[g] # None => Shows(submitted, answer'[g])
                             /\ Writes(submitted, todo'[g]) /\ Writes(submitted, done'[g])
<1>1. Writes(submitted, {})
  BY DEF Writes
<1>. QED  BY <1>1 DEF Return, TypeInv, TypeOK, BookInv

LEMMA RefreshedBooks ==
  ASSUME TypeInv, BookInv, NEW h \in Handlers, Refreshed(h)
  PROVE  /\ cache' # None => Shows(submitted, cache')
         /\ Steady(base')
<1>1. /\ cache' # None => Shows(submitted, cache')
      /\ cache' \in Seq(Remote) \cup {None}
  BY RefreshedTypes DEF Refreshed, Prefetched, BookInv
<1>2. cache' # None => Steady(AsPlan(cache'))
  BY <1>1, SteadyPlans
<1>. QED  BY <1>1, <1>2 DEF Refreshed, BookInv

LEMMA CallBooks ==
  ASSUME TypeInv, BookInv, NEW h \in Handlers, NEW op \in todo[h],
         NEW rest, rest \subseteq todo[h], Call(h, op, rest)
  PROVE  /\ Holds(submitted, cal')
         /\ \A g \in Handlers : Writes(submitted, todo'[g]) /\ Writes(submitted, done'[g])
<1>1. Holds(submitted, cal) /\ Writes(submitted, todo[h])
  BY DEF BookInv
<1>2. Holds(submitted, Applied(cal, op))
  BY <1>1, AppliedHolds
<1>3. Holds(submitted, cal')
  BY <1>1, <1>2 DEF Call
<1>4. \A g \in Handlers :
        todo'[g] \subseteq todo[g] /\ done'[g] \subseteq done[g] \cup (IF g = h THEN {op} ELSE {})
  BY DEF Call, TypeInv, TypeOK
<1>5. \A g \in Handlers : Writes(submitted, todo[g]) /\ Writes(submitted, done[g])
  BY DEF BookInv
<1>. QED  BY <1>3, <1>4, <1>5 DEF Writes

LEMMA BooksAtStart ==
  ASSUME OnlySubmits, Init PROVE BookInv
<1>1. Holds(submitted, cal)
  BY DEF Init, OnlySubmits, Holds, Agrees, OnePlan
<1>2. Shows(submitted, cache) /\ cache \in Seq(Remote)
  BY <1>1, ShowsHeld, SnapshotShows, SubmitAssumption DEF Init
<1>3. Steady(base) /\ \A e \in anchors : Lasts(e)
  BY <1>2, SteadyPlans DEF Init
<1>4. Steady(plan) /\ IsFiniteSet(submitted) /\ submitted = {}
  BY FS_EmptySet DEF Init, OnlySubmits
<1>5. Writes(submitted, {})
  BY DEF Writes
<1>. QED  BY <1>1, <1>2, <1>3, <1>4, <1>5 DEF Init, BookInv

LEMMA TurnBooks ==
  ASSUME OnlySubmits, TypeInv, BookInv, Turn PROVE BookInv'
<1>1. ASSUME NEW p \in Plans \cup {plan}, RefineTurn(p) PROVE BookInv'
  <2>1. Steady(plan')
    BY <1>1 DEF RefineTurn, OnlySubmits, BookInv
  <2>2. Snapshot(cal) \in Seq(Remote) /\ Shows(submitted, Snapshot(cal))
    BY SnapshotShows, ShowsHeld DEF TypeInv, TypeOK, BookInv
  <2>3. cache' # None => cache' \in Seq(Remote) /\ Shows(submitted, cache')
    BY <1>1, <2>2 DEF RefineTurn, TypeInv, TypeOK, BookInv
  <2>4. cache' # None => \A e \in Range(AsPlan(cache')) : Lasts(e)
    BY <2>3, SteadyPlans
  <2>5. \A e \in anchors' : Lasts(e)
    BY <1>1, <2>4 DEF RefineTurn, BookInv
  <2>. QED  BY <1>1, <2>1, <2>3, <2>5 DEF RefineTurn, BookInv, handling, writing, history
<1>2. CASE ReviewTurn \/ CancelSubmit
  BY <1>2 DEF ReviewTurn, CancelSubmit, BookInv, handling, writing, history
<1>. QED  BY <1>1, <1>2 DEF Turn

LEMMA SubmitBooks ==
  ASSUME OnlySubmits, TypeInv, BookInv, NEW h \in Handlers, Submit(h) PROVE BookInv'
<1>1. CASE StartSubmit(h)
  BY <1>1 DEF StartSubmit, BookInv, writing, history
<1>2. CASE ListEvents(h)
  <2>1. Shows(submitted, Snapshot(cal))
    BY ShowsHeld DEF TypeInv, TypeOK, BookInv
  <2>2. \A s \in Unreadable : Shows(submitted, s)
    BY DEF OnlySubmits, Steady, Shows, Agrees
  <2>3. PICK a \in {Snapshot(cal), None} \cup Unreadable : answer' = [answer EXCEPT ![h] = a]
    BY <1>2 DEF ListEvents
  <2>4. \A g \in Handlers : answer'[g] # None => Shows(submitted, answer'[g])
    BY <2>1, <2>2, <2>3 DEF TypeInv, TypeOK, BookInv
  <2>. QED  BY <1>2, <2>4 DEF ListEvents, BookInv, session, writing, history
<1>3. CASE RefuseSubmit(h) \/ SkipSubmit(h)
  <2>1. /\ Refreshed(h) /\ Return(h)
        /\ UNCHANGED <<cal, plan, anchors, tx, history>>
    BY <1>3 DEF RefuseSubmit, SkipSubmit
  <2>. QED  BY <2>1, ReturnBooks, RefreshedBooks DEF BookInv, history
<1>4. CASE PlanSubmit(h)
  <2>1. /\ Refreshed(h) /\ cache' # None /\ ~Overlapping(plan)
        /\ todo' = [todo EXCEPT ![h] = PlanSync(cache', plan)]
        /\ submitted' = submitted \cup {plan}
        /\ UNCHANGED <<cal, plan, anchors, tx, answer, done>>
    BY <1>4 DEF PlanSubmit
  <2>2. cache' \in Seq(Remote) /\ Shows(submitted, cache') /\ Steady(base')
    BY <2>1, RefreshedTypes, RefreshedBooks
  <2>3. submitted \subseteq submitted' /\ plan \in submitted' /\ plan \in Seq(Event) /\ Steady(plan)
    BY <2>1 DEF TypeInv, TypeOK, BookInv
  <2>4. Shows(submitted', cache')
    BY <2>2, <2>3, AgreesOn
  <2>5. Writes(submitted', PlanSync(cache', plan))
    BY <2>1, <2>2, <2>3, <2>4, SyncWrites
  <2>6. \A g \in Handlers : /\ answer[g] # None => Shows(submitted', answer[g])
                            /\ Writes(submitted', todo[g]) /\ Writes(submitted', done[g])
    BY <2>3, AgreesOn DEF BookInv
  <2>7. \A g \in Handlers : Writes(submitted', todo'[g])
    BY <2>1, <2>5, <2>6 DEF TypeInv, TypeOK
  <2>8. Holds(submitted', cal) /\ (tx # None => Writes(submitted', tx.done))
    BY <2>3, AgreesOn DEF BookInv
  <2>9. IsFiniteSet(submitted')
    BY <2>1, FS_AddElement DEF BookInv
  <2>. QED  BY <2>1, <2>2, <2>3, <2>4, <2>6, <2>7, <2>8, <2>9 DEF BookInv
<1>5. CASE Write(h)
  <2>1. PICK op \in todo[h] : Call(h, op, {})
    BY <1>5 DEF Write
  <2>. QED  BY <1>5, <2>1, CallBooks DEF Write, BookInv, session, history
<1>6. CASE RecordTransaction(h)
  <2>1. tx'.done = done[h] /\ tx' # None => Writes(submitted, tx'.done)
    BY DEF BookInv
  <2>. QED  BY <1>6 DEF RecordTransaction, BookInv, writing
<1>7. CASE Rebase(h)
  <2>1. cache' # None => cache' \in Seq(Remote) /\ Shows(submitted, cache')
    BY <1>7 DEF Rebase, Prefetched, TypeInv, TypeOK, BookInv
  <2>2. cache' # None => Steady(AsPlan(cache'))
    BY <2>1, SteadyPlans
  <2>3. Steady(InOrder(anchors))
    BY SteadyPlans DEF TypeInv, TypeOK, BookInv
  <2>. QED  BY <1>7, <2>1, <2>2, <2>3, ReturnBooks DEF Rebase, BookInv, history
<1>. QED  BY <1>1, <1>2, <1>3, <1>4, <1>5, <1>6, <1>7 DEF Submit

LEMMA UndoBooks ==
  ASSUME TypeInv, BookInv, NEW h \in Handlers, Undo(h) PROVE BookInv'
<1>1. CASE StartUndo(h)
  <2>1. tx # None /\ tx.done \subseteq Op /\ Writes(submitted, tx.done)
    BY <1>1 DEF StartUndo, TypeInv, TypeOK, BookInv
  <2>2. Writes(submitted, {Undoing(op) : op \in tx.done})
    BY <2>1, UndoingWrites
  <2>3. todo' = [todo EXCEPT ![h] = {Undoing(op) : op \in tx.done}]
    BY <1>1 DEF StartUndo
  <2>4. \A g \in Handlers : Writes(submitted, todo'[g])
    BY <2>2, <2>3 DEF TypeInv, TypeOK, BookInv
  <2>. QED  BY <1>1, <2>4 DEF StartUndo, BookInv, session, history
<1>2. CASE UndoWrite(h)
  <2>1. PICK op \in todo[h] : Call(h, op, todo[h] \ {op})
    BY <1>2 DEF UndoWrite
  <2>. QED  BY <1>2, <2>1, CallBooks DEF UndoWrite, BookInv, session, history
<1>3. CASE FinishUndo(h)
  BY <1>3, ReturnBooks DEF FinishUndo, BookInv, history
<1>. QED  BY <1>1, <1>2, <1>3 DEF Undo

LEMMA BooksKept ==
  ASSUME OnlySubmits, TypeInv, BookInv, [Next]_vars PROVE BookInv'
<1>1. CASE UNCHANGED vars
  BY <1>1 DEF BookInv, vars, session, handling, writing, history
<1>2. CASE Edit
  <2>1. PICK e, moved : /\ UserEdit(e, moved)
                        /\ moved = {} \/ UserSlots # {}
    BY <1>2 DEF Edit
  <2>2. cal' \subseteq cal
    BY <2>1 DEF UserEdit, OnlySubmits, TypeInv, TypeOK
  <2>. QED  BY <2>1, <2>2 DEF UserEdit, BookInv, Holds, session, handling, writing, history
<1>. QED  BY <1>1, <1>2, TurnBooks, SubmitBooks, UndoBooks DEF Next

\* At most one is at most one.
LEMMA OneOfAll ==
  ASSUME NEW S, IsFiniteSet(S), Cardinality(S) <= 1, NEW a \in S, NEW b \in S
  PROVE  a = b
<1>1. CASE Cardinality(S) = 0
  BY <1>1, FS_EmptySet
<1>2. CASE Cardinality(S) = 1
  BY <1>2, FS_Singleton
<1>. QED  BY <1>1, <1>2, FS_CardinalityType

\* NoDoubleBooking for any number of handlers, any plans and any calendar:
\* however submits of one plan and undos race, whatever calls take effect unheard
\* and however old the snapshots, the ids keep an event from being booked twice
\* (plan_sync in sync_engine.py, the matching in calendar_reconciliation.py).
THEOREM BookingCorrect ==
  ASSUME OnlySubmits PROVE Spec => []NoDoubleBooking
<1>1. Init => TypeInv /\ BookInv
  BY TypesAtStart, BooksAtStart
<1>2. TypeInv /\ BookInv /\ [Next]_vars => TypeInv' /\ BookInv'
  BY TypesKept, BooksKept
<1>3. TypeInv /\ BookInv => NoDoubleBooking
  <2>. SUFFICES ASSUME TypeInv, BookInv, Cardinality(submitted) <= 1,
                       \A e \in Day : ~IsOwned(e.id),
                       NEW e \in cal, NEW f \in cal, IsOwned(e.id), IsOwned(f.id),
                       OverlapMinutes(e, f) > 0
                PROVE  e = f
    BY DEF NoDoubleBooking
  <2>1. OnePlan(submitted)
    BY OneOfAll DEF OnePlan, BookInv
  <2>2. Books(submitted, e.id, e) /\ Books(submitted, f.id, f)
    BY <2>1 DEF BookInv, Holds, Agrees
  <2>3. PICK p \in submitted : \E i \in DOMAIN p :
          e.id = Seed(p[i], i) /\ e.n = p[i].n /\ e.st = p[i].st /\ e.et = p[i].et
    BY <2>2 DEF Books
  <2>4. PICK i \in DOMAIN p :
          e.id = Seed(p[i], i) /\ e.n = p[i].n /\ e.st = p[i].st /\ e.et = p[i].et
    BY <2>3
  <2>5. PICK j \in DOMAIN p :
          f.id = Seed(p[j], j) /\ f.n = p[j].n /\ f.st = p[j].st /\ f.et = p[j].et
    BY <2>1, <2>2 DEF Books, OnePlan
  <2>6. p \in Seq(Event) /\ Steady(p) /\ ~Overlapping(p)
    BY DEF BookInv
  <2>7. OverlapMinutes(p[i], p[j]) = OverlapMinutes(e, f)
    BY <2>4, <2>5 DEF OverlapMinutes
  <2>8. i = j
    BY <2>6, <2>7, Apart
  <2>. QED  BY <2>4, <2>5, <2>8 DEF TypeInv, DistinctIds
<1>. QED  BY <1>1, <1>2, <1>3, PTL DEF Spec
-----------------------------------------------------------------------------
(* Submitting the same plan again *)

\* The events of a day that are not the agent's.
Strangers(r) == {j \in 1..Len(r) : ~IsOwned(r[j].id)}

\* The times of a plan's events and of a day's are integers.
LEMMA TimesAreInts ==
  ASSUME NEW p \in Seq(Event), NEW r \in Seq(Remote)
  PROVE  /\ \A i \in 1..Len(p) : p[i].st \in Int /\ p[i].et \in Int
         /\ \A j \in 1..Len(r) : r[j].st \in Int /\ r[j].et \in Int
<1>1. \A i \in 1..Len(p) : p[i] \in Event
  OBVIOUS
<1>2. \A j \in 1..Len(r) : r[j] \in Remote
  OBVIOUS
<1>. QED  BY <1>1, <1>2, SubmitAssumption DEF Event, Remote

\* Scores are tuples of integers.
LEMMA ScoreTypes ==
  ASSUME NEW d, d.st \in Int, d.et \in Int, NEW r, r.st \in Int, r.et \in Int
  PROVE  /\ FuzzyScore(d, r) \in [1..3 -> Int]
         /\ Covered(d, r) => CoverScore(d, r) \in [1..4 -> Int]
<1> DEFINE o == OverlapMinutes(d, r)
           y == Smaller(Duration(d), Duration(r))
           u == -StartDelta(d, r)
           v == -Distance(d.et, r.et)
           w == -Distance(Distance(d.st, d.et), Distance(r.st, r.et))
<1>1. o \in Int /\ y \in Int /\ u \in Int /\ v \in Int /\ w \in Int
  <2>1. o \in Int
    BY DEF OverlapMinutes, Larger, Smaller
  <2>2. Duration(d) \in Int /\ Duration(r) \in Int
    BY DEF Duration, Larger
  <2>3. y \in Int
    BY <2>2 DEF Smaller
  <2>4. u \in Int /\ v \in Int
    BY DEF StartDelta, Distance, Larger, Smaller
  <2>5. Distance(d.st, d.et) \in Int /\ Distance(r.st, r.et) \in Int
    BY DEF Distance, Larger, Smaller
  <2>6. w \in Int
    BY <2>5 DEF Distance, Larger, Smaller
  <2>. QED  BY <2>1, <2>3, <2>4, <2>6
<1>2. o > 0 => y > 0
  BY DEF OverlapMinutes, Duration, Larger, Smaller
<1>3. /\ FuzzyScore(d, r) = <<o, u, w>> /\ CoverScore(d, r) = <<(o * 100) \div y, o, u, v>>
      /\ Covered(d, r) => o > 0
  BY DEF FuzzyScore, CoverScore, Percent, Covered
<1> HIDE DEF o, y, u, v, w
<1>4. o > 0 => (o * 100) \div y \in Int
  BY <1>1, <1>2
<1>. QED  BY <1>1, <1>3, <1>4

\* So are those of a plan with a day, in either pass.
LEMMA ScoresAreTuples ==
  ASSUME NEW p \in Seq(Event), NEW r \in Seq(Remote)
  PROVE  /\ Scored(FuzzyPairs(p, r), FuzzyScores(p, r), Len(p), r, 3)
         /\ Scored(CoverPairs(p, r), CoverScores(p, r), Len(p), r, 4)
<1>1. ASSUME NEW i \in 1..Len(p), NEW j \in 1..Len(r)
      PROVE  /\ FuzzyScores(p, r)[<<i, j>>] \in [1..3 -> Int]
             /\ <<i, j>> \in CoverPairs(p, r) => CoverScores(p, r)[<<i, j>>] \in [1..4 -> Int]
  <2>1. /\ FuzzyScores(p, r)[<<i, j>>] = FuzzyScore(p[i], r[j])
        /\ CoverScores(p, r)[<<i, j>>] = CoverScore(p[i], r[j])
        /\ <<i, j>> \in CoverPairs(p, r) => Covered(p[i], r[j])
    BY DEF FuzzyScores, CoverScores, CoverPairs
  <2>2. p[i].st \in Int /\ p[i].et \in Int /\ r[j].st \in Int /\ r[j].et \in Int
    BY TimesAreInts
  <2> DEFINE x == p[i] y == r[j]
  <2>3. x.st \in Int /\ x.et \in Int /\ y.st \in Int /\ y.et \in Int
    BY <2>2
  <2> HIDE DEF x, y
  <2>4. FuzzyScore(x, y) \in [1..3 -> Int] /\ (Covered(x, y) => CoverScore(x, y) \in [1..4 -> Int])
    BY <2>3, ScoreTypes
  <2>. QED  BY <2>1, <2>4 DEF x, y
<1>. QED  BY <1>1 DEF Scored

\* What a foreign event covers and how well, its times decide.
LEMMA CoverByTimes ==
  ASSUME NEW d, NEW r, NEW q, ~IsOwned(r.id), ~IsOwned(q.id), r.st = q.st, r.et = q.et
  PROVE  (Covered(d, r) <=> Covered(d, q)) /\ CoverScore(d, r) = CoverScore(d, q)
<1>1. /\ OverlapMinutes(d, r) = OverlapMinutes(d, q) /\ StartDelta(d, r) = StartDelta(d, q)
      /\ Duration(r) = Duration(q)
  BY DEF OverlapMinutes, StartDelta, Duration
<1>2. Percent(d, r) = Percent(d, q)
  BY <1>1 DEF Percent
<1>. QED  BY <1>1, <1>2 DEF Covered, CoverScore

\* Of two that start together, the same score is that of the same times.
LEMMA ScoreTellsEnd ==
  ASSUME NEW d, d.st \in Int, d.et \in Int,
         NEW r, NEW q, r.st \in Int, r.et \in Int, q.st \in Int, q.et \in Int, r.st = q.st,
         Covered(d, r), Covered(d, q), CoverScore(d, r) = CoverScore(d, q)
  PROVE  r.et = q.et
<1>1. OverlapMinutes(d, r) = OverlapMinutes(d, q) /\ -Distance(d.et, r.et) = -Distance(d.et, q.et)
  BY DEF CoverScore
<1>2. OverlapMinutes(d, r) > 0
  BY DEF Covered
<1>. QED  BY <1>1, <1>2 DEF OverlapMinutes, Distance, Larger, Smaller

\* What starts earlier comes earlier, on any day.
LEMMA SameOrder ==
  ASSUME NEW s \in Seq(Remote), NEW t \in Seq(Remote), Ascending(s), Ascending(t),
         NEW j \in 1..Len(s), NEW l \in 1..Len(s), NEW k \in 1..Len(t), NEW q \in 1..Len(t),
         s[j].st = t[k].st, s[l].st = t[q].st, s[j].st # s[l].st
  PROVE  j < l <=> k < q
<1>1. s[j].st \in Int /\ s[l].st \in Int
  <2>1. s[j] \in Remote /\ s[l] \in Remote
    OBVIOUS
  <2>. QED  BY <2>1, SubmitAssumption DEF Remote
<1>2. j < l <=> s[j].st < s[l].st
  BY <1>1 DEF Ascending
<1>3. k < q <=> t[k].st < t[q].st
  BY <1>1 DEF Ascending
<1>. QED  BY <1>2, <1>3

\* The passes over a day, by key, by time and by cover: each keeps the matches of
\* the one before.
LEMMA PassByPass ==
  ASSUME NEW p \in Seq(Event), NEW s \in Seq(Remote), OneOfKey(p), OneOfKey(s),
         NEW ms, ms = ByKey(p, s), NEW mt, mt = ByTime(p, s), NEW m, m = Matching(p, s)
  PROVE  /\ ms \in [1..Len(p) -> 0..Len(s)] /\ mt \in [1..Len(p) -> 0..Len(s)]
         /\ m \in [1..Len(p) -> 0..Len(s)]
         /\ \A i \in 1..Len(p), j \in 1..Len(s) : ms[i] = j <=> SameKey(p[i], s[j])
         /\ \A i \in 1..Len(p) : (ms[i] # 0 => mt[i] = ms[i]) /\ (mt[i] # 0 => m[i] = mt[i])
<1> DEFINE d == Len(p)
           f == FuzzyPairs(p, s) g == FuzzyScores(p, s)
           h == CoverPairs(p, s) o == CoverScores(p, s)
<1>1. d \in Nat /\ DOMAIN p = 1..d /\ Len(s) \in Nat /\ DOMAIN s = 1..Len(s)
  OBVIOUS
<1>2. /\ ms \in [1..d -> 0..Len(s)]
      /\ \A i \in 1..d, j \in 1..Len(s) : ms[i] = j <=> SameKey(p[i], s[j])
  <2>1. ms \in [1..d -> 0..Len(s)]
    BY <1>1, ByKeyMatches
  <2>2. ASSUME NEW i \in 1..d, NEW j \in 1..Len(s) PROVE ms[i] = j <=> SameKey(p[i], s[j])
    BY <1>1, ByKeyMatches
  <2>. QED  BY <2>1, <2>2
<1>3. mt = Pass(ms, s, f, g)
  BY DEF ByTime
<1>4. m = Pass(mt, s, h, o)
  BY MatchingPasses
<1> HIDE DEF d, f, g, h, o
<1>5. mt \in [1..d -> 0..Len(s)] /\ Picks(mt, ms, s, f, g)
  <2>1. ms \in [1..d -> 0..Len(s)]
    BY <1>2
  <2>. QED  BY <1>1, <1>3, <2>1, PassPicks
<1>6. m \in [1..d -> 0..Len(s)] /\ Picks(m, mt, s, h, o)
  <2>1. mt \in [1..d -> 0..Len(s)]
    BY <1>5
  <2>. QED  BY <1>1, <1>4, <2>1, PassPicks
<1>7. \A i \in 1..d : (ms[i] # 0 => mt[i] = ms[i]) /\ (mt[i] # 0 => m[i] = mt[i])
  BY <1>2, <1>5, <1>6 DEF Picks
<1>. QED  BY <1>2, <1>5, <1>6, <1>7 DEF d

\* The third pass: an event is paired with another by what that shows, and events
\* of one name have different starts.
LEMMA FuzzyByClass ==
  ASSUME NEW p, NEW s, NEW t, NEW K, K \subseteq DOMAIN p,
         NEW V, V \subseteq DOMAIN s, NEW W, W \subseteq DOMAIN t
  PROVE  ByClass(K, V, W, s, t, FuzzyPairs(p, s), FuzzyScores(p, s), FuzzyPairs(p, t), FuzzyScores(p, t))
<1>. SUFFICES ASSUME NEW i \in K, NEW j \in V, NEW k \in W, s[j] = t[k]
     PROVE  /\ <<i, j>> \in FuzzyPairs(p, s) <=> <<i, k>> \in FuzzyPairs(p, t)
            /\ FuzzyScores(p, s)[<<i, j>>] = FuzzyScores(p, t)[<<i, k>>]
  BY DEF ByClass
<1>1. i \in DOMAIN p /\ j \in DOMAIN s /\ k \in DOMAIN t
  OBVIOUS
<1>. QED  BY <1>1 DEF FuzzyPairs, FuzzyScores

\* So which of two comes first is decided by their starts, on any day.
LEMMA FuzzyTies ==
  ASSUME NEW p, NEW s \in Seq(Remote), NEW t \in Seq(Remote), OneOfKey(s), Ascending(s), Ascending(t),
         NEW K, NEW V, V \subseteq 1..Len(s), NEW W, W \subseteq 1..Len(t)
  PROVE  TiesInOrder(K, V, W, s, t, FuzzyPairs(p, s), FuzzyScores(p, s))
<1> DEFINE f == FuzzyPairs(p, s) g == FuzzyScores(p, s)
<1>. SUFFICES ASSUME NEW i \in K PROVE \A j, l \in V, k, q \in W :
                /\ <<i, j>> \in f /\ <<i, l>> \in f
                /\ g[<<i, j>>] = g[<<i, l>>] /\ s[j] # s[l]
                /\ t[k] = s[j] /\ t[q] = s[l]
                => (j < l <=> k < q)
  BY Zenon DEF TiesInOrder
<1>. SUFFICES ASSUME NEW j \in V, NEW l \in V, NEW k \in W, NEW q \in W,
                     <<i, j>> \in f, <<i, l>> \in f, s[j] # s[l], t[k] = s[j], t[q] = s[l]
     PROVE  j < l <=> k < q
  BY Zenon
<1>1. j \in 1..Len(s) /\ l \in 1..Len(s) /\ k \in 1..Len(t) /\ q \in 1..Len(t)
  OBVIOUS
<1>2. s[j].n = p[i].n /\ s[l].n = p[i].n
  BY DEF FuzzyPairs, Fuzzy
<1>3. s[j].st # s[l].st
  BY <1>1, <1>2 DEF OneOfKey, SameKey
<1>. QED  BY <1>1, <1>3, SameOrder

\* On a day, events K of a plan are matched with foreign ones, the others each with
\* the agent's own of its key, of which none is left.
Rematched(K, p, t, n) ==
  /\ \A i \in K : n[i] \in Strangers(t)
  /\ \A i \in (1..Len(p)) \ K :
       n[i] \in (1..Len(t)) \ Strangers(t) /\ SameKey(p[i], t[n[i]])
  /\ \A k \in (1..Len(t)) \ Strangers(t) : \E i \in 1..Len(p) : n[i] = k

\* The events of a plan that a foreign event serves for.
MetByStrangers(p, s, m) == {i \in 1..Len(p) : m[i] # 0 /\ ~IsOwned(s[m[i]].id)}

\* The agent's own events of a day are those of a plan, K left out, by key.
OwnForOthers(K, p, t) ==
  /\ \A i \in (1..Len(p)) \ K : \E k \in (1..Len(t)) \ Strangers(t) : SameKey(p[i], t[k])
  /\ \A k \in (1..Len(t)) \ Strangers(t) : \E i \in (1..Len(p)) \ K : SameKey(p[i], t[k])

\* The passes over a second day on which the foreign events are the same and the
\* others are those of the plan's events that are not matched with a foreign one.
LEMMA MatchedAgain ==
  ASSUME NEW p \in Seq(Event), NEW s \in Seq(Remote), NEW t \in Seq(Remote),
         OneOfKey(p), OneOfKey(s), OneOfKey(t), Ascending(s), Ascending(t),
         NEW m, m = Matching(p, s), NEW n, n = Matching(p, t),
         NEW K, K = MetByStrangers(p, s, m),
         NEW b, Paired(b, Strangers(s), Strangers(t), s, t), OwnForOthers(K, p, t)
  PROVE  Rematched(K, p, t, n)
<1>. K = {i \in 1..Len(p) : m[i] # 0 /\ ~IsOwned(s[m[i]].id)}
  BY DEF MetByStrangers
<1>. b \in Bijection(Strangers(s), Strangers(t)) /\ \A j \in Strangers(s) : t[b[j]] = s[j]
  BY DEF Paired
<1>. /\ \A i \in (1..Len(p)) \ K : \E k \in (1..Len(t)) \ Strangers(t) : SameKey(p[i], t[k])
     /\ \A k \in (1..Len(t)) \ Strangers(t) : \E i \in (1..Len(p)) \ K : SameKey(p[i], t[k])
  BY DEF OwnForOthers
<1> DEFINE d == Len(p) V == Strangers(s) W == Strangers(t)
           ms == ByKey(p, s) mt == ByTime(p, s)
           xs == ByKey(p, t) xt == ByTime(p, t)
<1>1. /\ d \in Nat /\ DOMAIN p = 1..d
      /\ Len(s) \in Nat /\ DOMAIN s = 1..Len(s) /\ Len(t) \in Nat /\ DOMAIN t = 1..Len(t)
      /\ V \subseteq 1..Len(s) /\ W \subseteq 1..Len(t) /\ K \subseteq 1..d
  BY DEF Strangers
<1>2. /\ ms \in [1..d -> 0..Len(s)] /\ mt \in [1..d -> 0..Len(s)] /\ m \in [1..d -> 0..Len(s)]
      /\ \A i \in 1..d, j \in 1..Len(s) : ms[i] = j <=> SameKey(p[i], s[j])
      /\ \A i \in 1..d : (ms[i] # 0 => mt[i] = ms[i]) /\ (mt[i] # 0 => m[i] = mt[i])
  BY PassByPass
<1>3. /\ xs \in [1..d -> 0..Len(t)] /\ xt \in [1..d -> 0..Len(t)] /\ n \in [1..d -> 0..Len(t)]
      /\ \A i \in 1..d, k \in 1..Len(t) : xs[i] = k <=> SameKey(p[i], t[k])
  BY PassByPass
<1>4. /\ Scored(FuzzyPairs(p, s), FuzzyScores(p, s), d, s, 3)
      /\ Scored(CoverPairs(p, s), CoverScores(p, s), d, s, 4)
  BY ScoresAreTuples
<1>5. /\ Scored(FuzzyPairs(p, t), FuzzyScores(p, t), d, t, 3)
      /\ Scored(CoverPairs(p, t), CoverScores(p, t), d, t, 4)
  BY ScoresAreTuples
<1>6. /\ mt = Pass(ms, s, FuzzyPairs(p, s), FuzzyScores(p, s))
      /\ xt = Pass(xs, t, FuzzyPairs(p, t), FuzzyScores(p, t))
  BY DEF ByTime
<1>7. /\ m = Pass(mt, s, CoverPairs(p, s), CoverScores(p, s))
      /\ n = Pass(xt, t, CoverPairs(p, t), CoverScores(p, t))
  BY MatchingPasses
<1> HIDE DEF ms, mt, xs, xt, d, V, W
<1>8. mt \in [1..d -> 0..Len(s)] /\ m \in [1..d -> 0..Len(s)]
  BY <1>2
<1>9. xt \in [1..d -> 0..Len(t)] /\ n \in [1..d -> 0..Len(t)]
  BY <1>3
<1>10. \A i \in 1..d : (ms[i] # 0 => mt[i] = ms[i]) /\ (mt[i] # 0 => m[i] = mt[i])
  BY <1>2
\* What is given to events of K is foreign, what is given to others is not.
<1>11. /\ \A i \in K : m[i] \in V /\ mt[i] \in V \cup {0} /\ ms[i] \in V \cup {0}
       /\ \A i \in (1..d) \ K : m[i] \notin V /\ mt[i] \notin V
  <2>1. \A i \in 1..d : i \in K <=> m[i] \in V
    BY <1>1, <1>8 DEF d, V, Strangers
  <2>2. 0 \notin V
    BY <1>1
  <2>3. ASSUME NEW i \in K PROVE m[i] \in V /\ mt[i] \in V \cup {0} /\ ms[i] \in V \cup {0}
    <3>1. i \in 1..d /\ m[i] \in V
      BY <1>1, <2>1
    <3>. QED  BY <1>10, <3>1
  <2>4. ASSUME NEW i \in (1..d) \ K PROVE m[i] \notin V /\ mt[i] \notin V
    BY <1>10, <2>1, <2>2
  <2>. QED  BY <2>3, <2>4
<1>12. Follows(K, V, b, ms, xs)
  <2>. SUFFICES ASSUME NEW i \in K PROVE IF ms[i] = 0 THEN xs[i] = 0 ELSE ms[i] \in V /\ xs[i] = b[ms[i]]
    BY DEF Follows
  <2>1. CASE ms[i] # 0
    <3>1. ms[i] \in V /\ ms[i] \in 1..Len(s) /\ b[ms[i]] \in 1..Len(t) /\ t[b[ms[i]]] = s[ms[i]]
      BY <1>1, <1>11, <2>1 DEF Bijection, Injection, V, W
    <3>2. SameKey(p[i], s[ms[i]])
      BY <1>1, <1>2, <3>1
    <3>. QED  BY <1>1, <1>3, <2>1, <3>1, <3>2
  <2>2. CASE ms[i] = 0
    <3>. SUFFICES ASSUME xs[i] # 0 PROVE FALSE
      BY <2>2
    <3>1. xs[i] \in 1..Len(t) /\ SameKey(p[i], t[xs[i]])
      BY <1>1, <1>3
    <3>2. CASE xs[i] \in W
      <4>1. PICK j \in V : b[j] = xs[i]
        BY <3>2 DEF Bijection, Surjection, V, W
      <4>2. t[xs[i]] = s[j] /\ j \in 1..Len(s)
        BY <1>1, <4>1 DEF V
      <4>. QED  BY <1>1, <1>2, <2>2, <3>1, <4>2
    <3>3. CASE xs[i] \notin W
      <4>1. PICK q \in (1..d) \ K : SameKey(p[q], t[xs[i]])
        BY <3>1, <3>3 DEF d, W
      <4>2. SameKey(p[i], p[q])
        BY <3>1, <4>1 DEF SameKey
      <4>. QED  BY <1>1, <4>1, <4>2 DEF OneOfKey, d
    <3>. QED  BY <3>2, <3>3
  <2>. QED  BY <2>1, <2>2
<1>13. /\ \A i \in (1..d) \ K : xs[i] # 0 /\ xs[i] \notin W
       /\ \A k \in (1..Len(t)) \ W : \E i \in (1..d) \ K : xs[i] = k
  <2>1. ASSUME NEW i \in (1..d) \ K PROVE xs[i] # 0 /\ xs[i] \notin W
    <3>1. PICK k \in (1..Len(t)) \ W : SameKey(p[i], t[k])
      BY DEF d, W
    <3>2. xs[i] = k /\ k # 0
      BY <1>3, <3>1
    <3>. QED  BY <3>1, <3>2
  <2>2. ASSUME NEW k \in (1..Len(t)) \ W PROVE \E i \in (1..d) \ K : xs[i] = k
    <3>1. PICK i \in (1..d) \ K : SameKey(p[i], t[k])
      BY DEF d, W
    <3>. QED  BY <1>3, <3>1
  <2>. QED  BY <2>1, <2>2
<1>14. Paired(b, V, W, s, t)
  BY DEF V, W, Paired
\* The third pass: events of one name have different starts.
<1>15. ByClass(K, V, W, s, t, FuzzyPairs(p, s), FuzzyScores(p, s), FuzzyPairs(p, t), FuzzyScores(p, t))
  BY <1>1, FuzzyByClass
<1>16. TiesInOrder(K, V, W, s, t, FuzzyPairs(p, s), FuzzyScores(p, s))
  BY <1>1, FuzzyTies
<1>17. /\ \E a : Paired(a, V, W, s, t) /\ Follows(K, V, a, mt, xt)
       /\ \A i \in (1..d) \ K : xt[i] = xs[i]
  <2> DEFINE f == FuzzyPairs(p, s) g == FuzzyScores(p, s) h == FuzzyPairs(p, t) o == FuzzyScores(p, t)
  <2>1. 3 \in Nat /\ Scored(f, g, d, s, 3) /\ Scored(h, o, d, t, 3)
    BY <1>4, <1>5
  <2>2. mt = Pass(ms, s, f, g) /\ xt = Pass(xs, t, h, o)
    BY <1>6
  <2>3. ByClass(K, V, W, s, t, f, g, h, o) /\ TiesInOrder(K, V, W, s, t, f, g)
    BY <1>15, <1>16
  <2>4. GivenTo(mt, K, V, d) /\ OthersTaken(xs, K, W, d, Len(t))
    BY <1>11, <1>13 DEF GivenTo, OthersTaken
  <2> HIDE DEF f, g, h, o
  <2>5. ms \in [1..d -> 0..Len(s)] /\ xs \in [1..d -> 0..Len(t)]
    BY <1>2, <1>3
  <2>6. FollowsAgain(K, V, W, s, t, mt, xt) /\ Kept((1..d) \ K, xs, xt)
    BY <1>1, <1>12, <1>14, <2>1, <2>2, <2>3, <2>4, <2>5, PassAgain
  <2>. QED  BY <2>6 DEF FollowsAgain, Kept
<1>18. PICK a : Paired(a, V, W, s, t) /\ Follows(K, V, a, mt, xt)
  BY <1>17
\* The fourth pass: foreign events of the same times are as good as one another.
<1> DEFINE c == [j \in 1..Len(s) |-> <<s[j].st, s[j].et>>]
           e == [k \in 1..Len(t) |-> <<t[k].st, t[k].et>>]
<1>19. /\ \A j \in V : c[j] = <<s[j].st, s[j].et>> /\ ~IsOwned(s[j].id)
       /\ \A k \in W : e[k] = <<t[k].st, t[k].et>> /\ ~IsOwned(t[k].id)
  BY <1>1 DEF V, W, Strangers
<1>20. Paired(a, V, W, c, e)
  <2>1. \A j \in V : a[j] \in W
    BY <1>18 DEF Paired, Bijection, Injection
  <2>2. ASSUME NEW j \in V PROVE e[a[j]] = c[j]
    <3>1. t[a[j]] = s[j] /\ a[j] \in W
      BY <1>18, <2>1 DEF Paired
    <3>2. c[j] = <<s[j].st, s[j].et>> /\ e[a[j]] = <<t[a[j]].st, t[a[j]].et>>
      BY <1>19, <3>1
    <3> HIDE DEF c, e
    <3>. QED  BY <3>1, <3>2
  <2>. QED  BY <1>18, <2>2 DEF Paired
<1> HIDE DEF c, e
<1>21. ASSUME NEW i \in K PROVE p[i].st \in Int /\ p[i].et \in Int
  BY <1>1, TimesAreInts DEF d
<1>22. /\ \A j \in V : s[j].st \in Int /\ s[j].et \in Int
       /\ \A k \in W : t[k].st \in Int /\ t[k].et \in Int
  BY <1>1, TimesAreInts
<1>23. /\ \A i \in K, j \in V : /\ <<i, j>> \in CoverPairs(p, s) <=> Covered(p[i], s[j])
                                /\ CoverScores(p, s)[<<i, j>>] = CoverScore(p[i], s[j])
       /\ \A i \in K, k \in W : /\ <<i, k>> \in CoverPairs(p, t) <=> Covered(p[i], t[k])
                                /\ CoverScores(p, t)[<<i, k>>] = CoverScore(p[i], t[k])
  <2>1. \A i \in K, j \in V : i \in DOMAIN p /\ j \in DOMAIN s
    BY <1>1
  <2>2. \A i \in K, k \in W : i \in DOMAIN p /\ k \in DOMAIN t
    BY <1>1
  <2>. QED  BY <2>1, <2>2 DEF CoverPairs, CoverScores
<1>24. ByClass(K, V, W, c, e, CoverPairs(p, s), CoverScores(p, s), CoverPairs(p, t), CoverScores(p, t))
  <2>1. ASSUME NEW i \in K, NEW j \in V, NEW k \in W, c[j] = e[k]
        PROVE  /\ Covered(p[i], s[j]) <=> Covered(p[i], t[k])
               /\ CoverScore(p[i], s[j]) = CoverScore(p[i], t[k])
    <3>1. c[j] = <<s[j].st, s[j].et>> /\ e[k] = <<t[k].st, t[k].et>>
      BY <1>19
    <3>2. ~IsOwned(s[j].id) /\ ~IsOwned(t[k].id)
      BY <1>19
    <3> DEFINE u == p[i] v == s[j] w == t[k]
    <3>3. <<v.st, v.et>> = <<w.st, w.et>> /\ ~IsOwned(v.id) /\ ~IsOwned(w.id)
      BY <2>1, <3>1, <3>2
    <3> HIDE DEF u, v, w
    <3>4. (Covered(u, v) <=> Covered(u, w)) /\ CoverScore(u, v) = CoverScore(u, w)
      BY <3>3, CoverByTimes
    <3>. QED  BY <3>4 DEF u, v, w
  <2>. QED  BY <1>23, <2>1 DEF ByClass
<1>25. TiesInOrder(K, V, W, c, e, CoverPairs(p, s), CoverScores(p, s))
  <2> DEFINE f == CoverPairs(p, s) g == CoverScores(p, s)
  <2>. SUFFICES ASSUME NEW i \in K PROVE \A j, l \in V, k, q \in W :
                  /\ <<i, j>> \in f /\ <<i, l>> \in f
                  /\ g[<<i, j>>] = g[<<i, l>>] /\ c[j] # c[l]
                  /\ e[k] = c[j] /\ e[q] = c[l]
                  => (j < l <=> k < q)
    BY Zenon DEF TiesInOrder
  <2>. SUFFICES ASSUME NEW j \in V, NEW l \in V, NEW k \in W, NEW q \in W,
                       <<i, j>> \in f, <<i, l>> \in f, g[<<i, j>>] = g[<<i, l>>],
                       c[j] # c[l], e[k] = c[j], e[q] = c[l]
       PROVE  j < l <=> k < q
    BY Zenon
  <2>1. /\ Covered(p[i], s[j]) /\ Covered(p[i], s[l])
        /\ CoverScore(p[i], s[j]) = CoverScore(p[i], s[l])
    BY <1>23
  <2>2. /\ c[j] = <<s[j].st, s[j].et>> /\ c[l] = <<s[l].st, s[l].et>>
        /\ e[k] = <<t[k].st, t[k].et>> /\ e[q] = <<t[q].st, t[q].et>>
    BY <1>19
  <2>3. s[j].st # s[l].st
    <3>. SUFFICES ASSUME s[j].st = s[l].st PROVE FALSE
      OBVIOUS
    <3>1. /\ p[i].st \in Int /\ p[i].et \in Int /\ s[j].st \in Int /\ s[j].et \in Int
          /\ s[l].st \in Int /\ s[l].et \in Int
      BY <1>21, <1>22
    <3> DEFINE u == p[i] v == s[j] w == s[l]
    <3>2. u.st \in Int /\ u.et \in Int /\ v.st \in Int /\ v.et \in Int /\ w.st \in Int /\ w.et \in Int
      BY <3>1
    <3>3. v.st = w.st /\ Covered(u, v) /\ Covered(u, w) /\ CoverScore(u, v) = CoverScore(u, w)
      BY <2>1
    <3>4. v.et # w.et
      BY <2>2
    <3> HIDE DEF u, v, w
    <3>. QED  BY <3>2, <3>3, <3>4, ScoreTellsEnd
  <2>4. s[j].st = t[k].st /\ s[l].st = t[q].st
    BY <2>2
  <2>5. j \in 1..Len(s) /\ l \in 1..Len(s) /\ k \in 1..Len(t) /\ q \in 1..Len(t)
    BY <1>1
  <2>. QED  BY <2>3, <2>4, <2>5, SameOrder
<1>26. \A i \in (1..d) \ K : xt[i] # 0 /\ xt[i] \notin W
  BY <1>13, <1>17
<1>27. \A k \in (1..Len(t)) \ W : \E i \in (1..d) \ K : xt[i] = k
  BY <1>13, <1>17
<1>28. GivenTo(m, K, V, d) /\ OthersTaken(xt, K, W, d, Len(t))
  BY <1>11, <1>26, <1>27 DEF GivenTo, OthersTaken
<1>29. /\ \E z : Paired(z, V, W, c, e) /\ Follows(K, V, z, m, n)
       /\ \A i \in (1..d) \ K : n[i] = xt[i]
  <2> DEFINE f == CoverPairs(p, s) g == CoverScores(p, s) h == CoverPairs(p, t) o == CoverScores(p, t)
  <2>1. 4 \in Nat /\ Scored(f, g, d, s, 4) /\ Scored(h, o, d, t, 4)
    BY <1>4, <1>5
  <2>2. m = Pass(mt, s, f, g) /\ n = Pass(xt, t, h, o)
    BY <1>7
  <2>3. ByClass(K, V, W, c, e, f, g, h, o) /\ TiesInOrder(K, V, W, c, e, f, g)
    BY <1>24, <1>25
  <2>4. Follows(K, V, a, mt, xt)
    BY <1>18
  <2> HIDE DEF f, g, h, o
  <2> DEFINE u == m v == n
  <2>5. u = Pass(mt, s, f, g) /\ v = Pass(xt, t, h, o)
    BY <2>2
  <2>6. GivenTo(u, K, V, d)
    BY <1>28
  <2> HIDE DEF u, v
  <2>7. FollowsAgain(K, V, W, c, e, u, v) /\ Kept((1..d) \ K, xt, v)
    BY <1>1, <1>8, <1>9, <1>20, <1>28, <2>1, <2>3, <2>4, <2>5, <2>6, PassAgain
  <2>. QED  BY <2>7 DEF FollowsAgain, Kept, u, v
<1>30. PICK z : Paired(z, V, W, c, e) /\ Follows(K, V, z, m, n)
  BY <1>29
<1>31. \A i \in K : n[i] \in W
  <2>1. ASSUME NEW i \in K PROVE n[i] \in W
    <3>1. m[i] # 0 /\ m[i] \in V
      BY <1>1, <1>11
    <3>2. n[i] = z[m[i]]
      BY <1>30, <3>1 DEF Follows
    <3>. QED  BY <1>30, <3>1, <3>2 DEF Paired, Bijection, Injection
  <2>. QED  BY <2>1
<1>32. \A i \in (1..d) \ K : n[i] \in (1..Len(t)) \ W /\ SameKey(p[i], t[n[i]])
  <2>1. ASSUME NEW i \in (1..d) \ K PROVE n[i] \in (1..Len(t)) \ W /\ SameKey(p[i], t[n[i]])
    <3>1. n[i] = xs[i] /\ xs[i] # 0 /\ xs[i] \notin W /\ xs[i] \in 1..Len(t)
      BY <1>3, <1>13, <1>17, <1>29
    <3>. QED  BY <1>3, <3>1
  <2>. QED  BY <2>1
<1>33. \A k \in (1..Len(t)) \ W : \E i \in 1..d : n[i] = k
  BY <1>27, <1>29
<1>. QED  BY <1>31, <1>32, <1>33 DEF d, W, Rematched

\* Foreign entries are left as they are.
LEMMA EffectForeign ==
  ASSUME NEW c, NEW ops, OwnedOps(ops)
  PROVE  ForeignEntries(Effect(c, ops)) = ForeignEntries(c)
<1>1. ASSUME NEW e \in Effect(c, ops), ~IsOwned(e.id) PROVE e \in c
  <2>1. CASE \E op \in ops : e = Entry(op.id, op.after)
    <3>1. PICK op \in ops : e = Entry(op.id, op.after)
      BY <2>1
    <3>2. e.id = op.id
      BY <3>1 DEF Entry
    <3>. QED  BY <1>1, <3>2 DEF OwnedOps
  <2>. QED  BY <1>1, <2>1 DEF Effect
<1>2. ASSUME NEW e \in c, ~IsOwned(e.id) PROVE e \in Effect(c, ops)
  BY <1>2 DEF Effect, OwnedOps
<1>. QED  BY <1>1, <1>2 DEF ForeignEntries

\* No two entries of the day have the same summary and the same start.
Unambiguous(c) == \A e, f \in c : e.n = f.n /\ e.st = f.st => e = f

\* A snapshot shows each key once, if the calendar has it once.
LEMMA SnapshotKeys ==
  ASSUME NEW c, IsCalendar(c), Unambiguous(c), NEW s, s = Snapshot(c)
  PROVE  OneOfKey(s)
<1>1. /\ \A j \in 1..Len(s) : \E e \in c : s[j] = Shown(e)
      /\ \A j, k \in 1..Len(s) : s[j] = s[k] => j = k
  BY SnapshotShows DEF IsCalendar
<1>2. ASSUME NEW j \in 1..Len(s), NEW k \in 1..Len(s), SameKey(s[j], s[k]) PROVE j = k
  <2>1. PICK e \in c : s[j] = Shown(e)
    BY <1>1
  <2>2. PICK f \in c : s[k] = Shown(f)
    BY <1>1
  <2>3. e.n = f.n /\ e.st = f.st
    BY <1>2, <2>1, <2>2 DEF SameKey, Shown
  <2>4. s[j] = s[k]
    BY <2>1, <2>2, <2>3 DEF Unambiguous
  <2>. QED  BY <1>1, <2>4
<1>. QED  BY <1>2 DEF OneOfKey

\* Of a plan that can be submitted, no two events have a key.
LEMMA PlanKeys ==
  ASSUME NEW p \in Seq(Event), Steady(p), ~Overlapping(p)
  PROVE  OneOfKey(p)
<1>1. ASSUME NEW i \in 1..Len(p), NEW k \in 1..Len(p), SameKey(p[i], p[k]) PROVE i = k
  <2>1. i \in DOMAIN p /\ k \in DOMAIN p /\ p[i].st = p[k].st
    BY <1>1 DEF SameKey
  <2>. QED  BY <2>1, Apart
<1>. QED  BY <1>1 DEF OneOfKey

\* The foreign events of two calendars that have the same ones.
LEMMA SameStrangers ==
  ASSUME NEW c1, IsCalendar(c1), NEW c2, IsCalendar(c2),
         ForeignEntries(c2) = ForeignEntries(c1),
         NEW s, s = Snapshot(c1), NEW t, t = Snapshot(c2)
  PROVE  \E b \in Bijection(Strangers(s), Strangers(t)) :
           \A j \in Strangers(s) : t[b[j]] = s[j]
<1> DEFINE V == Strangers(s) W == Strangers(t)
           b == [j \in V |-> CHOOSE k \in W : t[k] = s[j]]
<1>1. /\ \A j \in 1..Len(s) : \E e \in c1 : s[j] = Shown(e)
      /\ \A e \in c1 : \E j \in 1..Len(s) : s[j] = Shown(e)
      /\ \A j, k \in 1..Len(s) : s[j] = s[k] => j = k
  BY SnapshotShows DEF IsCalendar
<1>2. /\ \A j \in 1..Len(t) : \E e \in c2 : t[j] = Shown(e)
      /\ \A e \in c2 : \E j \in 1..Len(t) : t[j] = Shown(e)
      /\ \A j, k \in 1..Len(t) : t[j] = t[k] => j = k
  BY SnapshotShows DEF IsCalendar
<1>3. \A e : e \in c1 /\ ~IsOwned(e.id) <=> e \in c2 /\ ~IsOwned(e.id)
  BY DEF ForeignEntries
<1>4. \A e : Shown(e).id = e.id
  BY DEF Shown
<1>5. ASSUME NEW j \in V PROVE \E k \in W : t[k] = s[j]
  <2>1. j \in 1..Len(s) /\ ~IsOwned(s[j].id)
    BY DEF Strangers
  <2>2. PICK e \in c1 : s[j] = Shown(e)
    BY <1>1, <2>1
  <2>3. e \in c2
    BY <1>3, <1>4, <2>1, <2>2
  <2>4. PICK k \in 1..Len(t) : t[k] = Shown(e)
    BY <1>2, <2>3
  <2>. QED  BY <2>1, <2>2, <2>4 DEF Strangers
<1>6. ASSUME NEW k \in W PROVE \E j \in V : t[k] = s[j]
  <2>1. k \in 1..Len(t) /\ ~IsOwned(t[k].id)
    BY DEF Strangers
  <2>2. PICK e \in c2 : t[k] = Shown(e)
    BY <1>2, <2>1
  <2>3. e \in c1
    BY <1>3, <1>4, <2>1, <2>2
  <2>4. PICK j \in 1..Len(s) : s[j] = Shown(e)
    BY <1>1, <2>3
  <2>. QED  BY <2>1, <2>2, <2>4 DEF Strangers
<1>7. V \subseteq 1..Len(s) /\ W \subseteq 1..Len(t)
  BY DEF Strangers
<1> HIDE DEF V, W
<1>8. b \in [V -> W] /\ \A j \in V : t[b[j]] = s[j]
  BY <1>5
<1> HIDE DEF b
<1>9. \A j, l \in V : b[j] = b[l] => j = l
  BY <1>1, <1>7, <1>8
<1>10. ASSUME NEW k \in W PROVE \E j \in V : b[j] = k
  <2>1. PICK j \in V : t[k] = s[j]
    BY <1>6
  <2>2. b[j] \in 1..Len(t) /\ k \in 1..Len(t) /\ t[b[j]] = t[k]
    BY <1>7, <1>8, <2>1
  <2>. QED  BY <1>2, <2>2
<1>11. b \in Bijection(V, W)
  BY <1>8, <1>9, <1>10 DEF Bijection, Injection, Surjection, IsInjective
<1>. QED  BY <1>8, <1>11 DEF V, W

\* What is as planned shows so, unless there is a description, which never shows.
LEMMA PlannedShows ==
  ASSUME NEW e, NEW d \in Event, AsPlanned(e, d)
  PROVE  /\ e.n = d.n /\ e.st = d.st /\ e.et = d.et
         /\ d.d = "" => AsEvent(Shown(e)) = d
<1>1. e.n = d.n /\ e.st = d.st /\ e.et = d.et
  <2>1. CASE d.d = ""
    <3> DEFINE x == [d EXCEPT !.d = e.d]
    <3>1. x.n = d.n /\ x.st = d.st /\ x.et = d.et
      BY DEF Event
    <3>2. e = Entry(e.id, x)
      BY <2>1 DEF AsPlanned
    <3> HIDE DEF x
    <3>. QED  BY <3>1, <3>2 DEF Entry
  <2>2. CASE d.d # ""
    <3>1. e = Entry(e.id, d)
      BY <2>2 DEF AsPlanned
    <3>. QED  BY <3>1 DEF Entry
  <2>. QED  BY <2>1, <2>2
<1>2. ASSUME d.d = "" PROVE AsEvent(Shown(e)) = d
  <2>1. AsEvent(Shown(e)) = [n |-> d.n, st |-> d.st, et |-> d.et, d |-> d.d]
    BY <1>1, <1>2 DEF AsEvent, Shown
  <2>. QED  BY <2>1 DEF Event
<1>. QED  BY <1>1, <1>2

\* Where keys single out events, those of one key are matched.
LEMMA MatchedByKey ==
  ASSUME NEW p \in Seq(Event), NEW s \in Seq(Remote), OneOfKey(p), OneOfKey(s),
         NEW i \in 1..Len(p), NEW j \in 1..Len(s), SameKey(p[i], s[j])
  PROVE  Matching(p, s)[i] = j
<1> DEFINE ms == ByKey(p, s) mt == ByTime(p, s) m == Matching(p, s)
<1>1. /\ \A q \in 1..Len(p), k \in 1..Len(s) : ms[q] = k <=> SameKey(p[q], s[k])
      /\ \A q \in 1..Len(p) : (ms[q] # 0 => mt[q] = ms[q]) /\ (mt[q] # 0 => m[q] = mt[q])
  BY PassByPass
<1> HIDE DEF ms, mt, m
<1>2. ms[i] = j /\ j # 0
  BY <1>1
<1>3. m[i] = j
  BY <1>1, <1>2
<1>. QED  BY <1>3 DEF m

\* A plan carried out where no two events could be taken for one another: to
\* submit it again creates and deletes nothing, and writes only descriptions.
LEMMA CarriedOutConverges ==
  ASSUME NEW o \in Origin, IsCalendar(o.cal), Unambiguous(o.cal),
         Steady(o.plan), ~Overlapping(o.plan),
         NEW c, IsCalendar(c), CarriedOut(c, o, SyncOps(o))
  PROVE  \A op \in PlanSync(Snapshot(c), o.plan) : op.kind = "update" /\ op.after.d # ""
<1> DEFINE p == o.plan s == Snapshot(o.cal) t == Snapshot(c)
           m == Matching(p, s) n == Matching(p, t)
           K == MetByStrangers(p, s, m)
           V == Strangers(s) W == Strangers(t) a == [o EXCEPT !.cal = c]
<1>1. /\ p \in Seq(Event) /\ Len(p) \in Nat /\ DOMAIN p = 1..Len(p)
      /\ \A i \in 1..Len(p) : p[i] \in Event
  BY SyncFacts DEF Origin
<1>2. /\ s \in Seq(Remote) /\ Len(s) \in Nat /\ DOMAIN s = 1..Len(s) /\ Ascending(s)
      /\ \A j \in 1..Len(s) : \E e \in o.cal : s[j] = Shown(e)
      /\ \A e \in o.cal : \E j \in 1..Len(s) : s[j] = Shown(e)
      /\ OneToOne(m, Len(p), Len(s))
  BY SyncFacts
<1>3. a \in Origin /\ a.cal = c /\ a.plan = p
  BY DEF Origin, IsCalendar
<1>4. /\ t \in Seq(Remote) /\ Len(t) \in Nat /\ DOMAIN t = 1..Len(t) /\ Ascending(t)
      /\ \A j \in 1..Len(t) : \E e \in c : t[j] = Shown(e)
      /\ \A e \in c : \E j \in 1..Len(t) : t[j] = Shown(e)
      /\ OneToOne(n, Len(p), Len(t))
  <2>1. t = Snapshot(a.cal) /\ n = Matching(p, t) /\ IsCalendar(a.cal)
    BY <1>3
  <2> HIDE DEF a, p, t, n
  <2>2. t \in Seq(Remote) /\ Len(t) \in Nat /\ DOMAIN t = 1..Len(t) /\ Ascending(t)
    BY <1>3, <2>1, SyncFacts
  <2>3. \A j \in 1..Len(t) : \E e \in c : t[j] = Shown(e)
    BY <1>3, <2>1, SyncFacts
  <2>4. \A e \in c : \E j \in 1..Len(t) : t[j] = Shown(e)
    BY <1>3, <2>1, SyncFacts
  <2>5. OneToOne(n, Len(p), Len(t))
    BY <1>3, <2>1, SyncFacts
  <2>. QED  BY <2>2, <2>3, <2>4, <2>5
<1>5. PlanSync(t, p) = CreateOps(n, p) \cup UpdateOps(n, t, p) \cup DeleteOps(n, t)
  BY DEF PlanSync
<1>6. PICK f \in [DOMAIN p -> c] : Fulfils(f, c, p, s, m)
  BY CarriedOutFulfils
<1>7. ForeignEntries(c) = ForeignEntries(o.cal)
  BY PlannedOwned, EffectForeign DEF CarriedOut, SyncOps
<1>8. OneOfKey(p)
  BY <1>1, PlanKeys
<1>9. OneOfKey(s)
  BY SnapshotKeys
<1>10. \A e : Shown(e).id = e.id /\ Shown(e).n = e.n /\ Shown(e).st = e.st
  BY DEF Shown
<1>11. m \in [1..Len(p) -> 0..Len(s)] /\ n \in [1..Len(p) -> 0..Len(t)]
  BY <1>2, <1>4 DEF OneToOne
<1>12. PICK b \in Bijection(V, W) : \A j \in V : t[b[j]] = s[j]
  BY <1>7, SameStrangers
<1>13. \A i \in (1..Len(p)) \ K : IsOwned(f[i].id) /\ AsPlanned(f[i], p[i]) /\ f[i] \in c
  BY <1>1, <1>6 DEF Fulfils, MetByStrangers
<1>14. ASSUME NEW e \in c, IsOwned(e.id) PROVE \E i \in (1..Len(p)) \ K : f[i] = e
  <2>1. PICK i \in 1..Len(p) : f[i] = e
    BY <1>1, <1>6, <1>14 DEF Fulfils
  <2>2. i \notin K
    <3>. SUFFICES ASSUME i \in K PROVE FALSE
      OBVIOUS
    <3>1. Shown(f[i]) = s[m[i]] /\ ~IsOwned(s[m[i]].id)
      BY <1>1, <1>6 DEF Fulfils, MetByStrangers
    <3>. QED  BY <1>10, <1>14, <2>1, <3>1
  <2>. QED  BY <2>1, <2>2
<1>15. ASSUME NEW e \in o.cal, ~IsOwned(e.id), NEW i \in 1..Len(p), SameKey(p[i], Shown(e))
       PROVE  i \in K
  <2>1. PICK j \in 1..Len(s) : s[j] = Shown(e)
    BY <1>2
  <2>2. m[i] = j
    BY <1>1, <1>2, <1>8, <1>9, <1>15, <2>1, MatchedByKey
  <2>3. m[i] = j /\ ~IsOwned(s[j].id)
    BY <1>10, <1>15, <2>1, <2>2
  <2>. QED  BY <2>3 DEF MetByStrangers
<1> HIDE DEF p, s, t, m, n, K, V, W
<1>16. \A i \in 1..Len(p) : \A e \in c : AsPlanned(e, p[i]) => SameKey(p[i], Shown(e))
  <2>. SUFFICES ASSUME NEW i \in 1..Len(p), NEW e \in c, AsPlanned(e, p[i])
       PROVE  SameKey(p[i], Shown(e))
    OBVIOUS
  <2>1. e.n = p[i].n /\ e.st = p[i].st
    BY <1>1, PlannedShows
  <2>. QED  BY <1>10, <2>1 DEF SameKey
<1>17. Unambiguous(c)
  <2>. SUFFICES ASSUME NEW e \in c, NEW g \in c, e.n = g.n, e.st = g.st PROVE e = g
    BY DEF Unambiguous
  <2>0. \A x \in c : ~IsOwned(x.id) => x \in o.cal
    BY <1>7 DEF ForeignEntries
  <2>1. CASE ~IsOwned(e.id) /\ ~IsOwned(g.id)
    BY <2>0, <2>1 DEF Unambiguous
  <2>2. ASSUME NEW x \in c, NEW y \in c, x.n = y.n, x.st = y.st, IsOwned(x.id), ~IsOwned(y.id)
        PROVE  FALSE
    <3>1. PICK i \in (1..Len(p)) \ K : f[i] = x
      BY <1>14, <2>2
    <3>2. SameKey(p[i], Shown(x))
      BY <1>13, <1>16, <3>1
    <3>3. SameKey(p[i], Shown(y))
      BY <1>10, <2>2, <3>2 DEF SameKey
    <3>. QED  BY <1>15, <2>0, <2>2, <3>1, <3>3
  <2>3. CASE IsOwned(e.id) /\ IsOwned(g.id)
    <3>1. PICK i \in (1..Len(p)) \ K : f[i] = e
      BY <1>14, <2>3
    <3>2. PICK k \in (1..Len(p)) \ K : f[k] = g
      BY <1>14, <2>3
    <3>3. SameKey(p[i], Shown(e)) /\ SameKey(p[k], Shown(g))
      BY <1>13, <1>16, <3>1, <3>2
    <3>4. SameKey(p[i], p[k])
      BY <1>10, <3>3 DEF SameKey
    <3>. QED  BY <1>8, <3>1, <3>2, <3>4 DEF OneOfKey
  <2>. QED  BY <2>1, <2>2, <2>3
<1>18. OneOfKey(t)
  BY <1>17, SnapshotKeys DEF t
\* The agent's events on the second day are those of the plan's others.
<1>19. ASSUME NEW i \in (1..Len(p)) \ K
       PROVE  \E k \in (1..Len(t)) \ W : t[k] = Shown(f[i]) /\ SameKey(p[i], t[k])
  <2>1. PICK k \in 1..Len(t) : t[k] = Shown(f[i])
    BY <1>4, <1>13
  <2>2. k \notin W
    BY <1>10, <1>13, <2>1 DEF W, Strangers
  <2>. QED  BY <1>13, <1>16, <2>1, <2>2
<1>20. ASSUME NEW k \in (1..Len(t)) \ W PROVE \E i \in (1..Len(p)) \ K : SameKey(p[i], t[k])
  <2>1. PICK e \in c : t[k] = Shown(e)
    BY <1>4
  <2>2. IsOwned(e.id)
    BY <1>10, <2>1 DEF W, Strangers
  <2>3. PICK i \in (1..Len(p)) \ K : f[i] = e
    BY <1>14, <2>2
  <2>. QED  BY <1>13, <1>16, <2>1, <2>3
<1>21. /\ \A i \in K : n[i] \in W
       /\ \A i \in (1..Len(p)) \ K : n[i] \in (1..Len(t)) \ W /\ SameKey(p[i], t[n[i]])
       /\ \A k \in (1..Len(t)) \ W : \E i \in 1..Len(p) : n[i] = k
  <2>1. OwnForOthers(K, p, t)
    BY <1>19, <1>20 DEF OwnForOthers, W
  <2>2. Paired(b, Strangers(s), Strangers(t), s, t)
    BY <1>12 DEF V, W, Paired
  <2>3. m = Matching(p, s) /\ n = Matching(p, t)
    BY DEF m, n
  <2>4. K = MetByStrangers(p, s, m)
    BY DEF K
  <2>5. Rematched(K, p, t, n)
    BY <1>1, <1>2, <1>4, <1>8, <1>9, <1>18, <2>1, <2>2, <2>3, <2>4, MatchedAgain
  <2>. QED  BY <2>5 DEF Rematched, W
<1>22. CreateOps(n, p) = {}
  <2>1. 0 \notin W
    BY DEF W, Strangers
  <2>2. \A i \in 1..Len(p) : n[i] # 0
    BY <1>21, <2>1
  <2>. QED  BY <1>11, <2>2 DEF CreateOps, Creates
<1>23. DeleteOps(n, t) = {}
  <2>1. \A j \in 1..Len(t) : IsOwned(t[j].id) => \E i \in 1..Len(p) : n[i] = j
    BY <1>21 DEF W, Strangers
  <2>. QED  BY <1>4, <1>11, <2>1 DEF DeleteOps, Deletes, Free
<1>24. ASSUME NEW op \in UpdateOps(n, t, p) PROVE op.kind = "update" /\ op.after.d # ""
  <2>1. PICK i \in OwnedMatches(n, t) :
          AsEvent(t[n[i]]) # p[i] /\ op.kind = "update" /\ op.after = p[i]
    BY DEF UpdateOps
  <2>2. i \in 1..Len(p) /\ IsOwned(t[n[i]].id)
    BY <1>11 DEF OwnedMatches
  <2>3. i \notin K
    BY <1>21, <2>2 DEF W, Strangers
  <2>4. PICK k \in (1..Len(t)) \ W : t[k] = Shown(f[i]) /\ SameKey(p[i], t[k])
    BY <1>19, <2>2, <2>3
  <2>5. n[i] = k
    <3>1. n[i] \in 1..Len(t) /\ SameKey(p[i], t[n[i]])
      BY <1>21, <2>2, <2>3
    <3>2. SameKey(t[n[i]], t[k])
      BY <2>4, <3>1 DEF SameKey
    <3>. QED  BY <1>18, <2>4, <3>1, <3>2 DEF OneOfKey
  <2>6. AsPlanned(f[i], p[i]) /\ p[i] \in Event
    BY <1>1, <1>13, <2>2, <2>3
  <2>7. p[i].d = "" => AsEvent(Shown(f[i])) = p[i]
    BY <2>6, PlannedShows
  <2>. QED  BY <2>1, <2>4, <2>5, <2>7
<1>25. \A op \in PlanSync(t, p) : op.kind = "update" /\ op.after.d # ""
  BY <1>5, <1>22, <1>23, <1>24
<1>. QED  BY <1>25 DEF t, p

\* resolve_times raised for none of the plans that were submitted.
PlansApart ==
  ~Overlapping(txOrigin.plan) /\ \A h \in Handlers : ~Overlapping(origin[h].plan)

\* A handler that returns leaves no plan behind.
LEMMA ReturnApart ==
  ASSUME PlansApart, NEW h \in Handlers, Return(h), TypeOK, txOrigin' = txOrigin
  PROVE  PlansApart'
<1>1. ~Overlapping(NoOrigin.plan)
  BY DEF Overlapping, NoOrigin
<1>2. \A g \in Handlers : origin'[g] = IF g = h THEN NoOrigin ELSE origin[g]
  BY DEF Return, TypeOK
<1>. QED  BY <1>1, <1>2 DEF PlansApart

\* Only PlanSubmit sets out with a plan, and resolve_times let that one pass.
LEMMA ApartKept == TypeInv /\ PlansApart /\ [Next]_vars => PlansApart'
<1>. SUFFICES ASSUME TypeInv, PlansApart, [Next]_vars PROVE PlansApart'
  OBVIOUS
<1>0. TypeOK
  BY DEF TypeInv
<1>1. ASSUME UNCHANGED <<origin, txOrigin>> PROVE PlansApart'
  BY <1>1 DEF PlansApart
<1>2. CASE UNCHANGED vars
  BY <1>1, <1>2 DEF vars, handling, history
<1>3. CASE Turn
  BY <1>1, <1>3 DEF Turn, RefineTurn, ReviewTurn, CancelSubmit, handling, history
<1>4. CASE Edit
  BY <1>1, <1>4 DEF Edit, UserEdit, handling, history
<1>5. ASSUME NEW h \in Handlers, Submit(h) PROVE PlansApart'
  <2>1. CASE StartSubmit(h)
    BY <1>1, <2>1 DEF StartSubmit, history
  <2>2. CASE ListEvents(h)
    BY <1>1, <2>2 DEF ListEvents, history
  <2>3. CASE RefuseSubmit(h)
    BY <1>0, <2>3, ReturnApart DEF RefuseSubmit, history
  <2>4. CASE SkipSubmit(h)
    BY <1>0, <2>4, ReturnApart DEF SkipSubmit, history
  <2>5. CASE PlanSubmit(h)
    <3>1. ~Overlapping(plan) /\ txOrigin' = txOrigin
      BY <2>5 DEF PlanSubmit
    <3>2. \A g \in Handlers : origin'[g].plan = IF g = h THEN plan ELSE origin[g].plan
      BY <1>0, <2>5 DEF PlanSubmit, TypeOK
    <3>. QED  BY <3>1, <3>2 DEF PlansApart
  <2>6. CASE Write(h)
    BY <1>1, <2>6 DEF Write, history
  <2>7. CASE RecordTransaction(h)
    BY <2>7 DEF RecordTransaction, PlansApart
  <2>8. CASE Rebase(h)
    BY <1>0, <2>8, ReturnApart DEF Rebase, history
  <2>. QED  BY <1>5, <2>1, <2>2, <2>3, <2>4, <2>5, <2>6, <2>7, <2>8 DEF Submit
<1>6. ASSUME NEW h \in Handlers, Undo(h) PROVE PlansApart'
  <2>1. CASE StartUndo(h)
    <3>1. txOrigin' = txOrigin
      BY <2>1 DEF StartUndo, history
    <3>2. \A g \in Handlers : origin'[g] = IF g = h THEN txOrigin ELSE origin[g]
      BY <1>0, <2>1 DEF StartUndo, TypeOK
    <3>. QED  BY <3>1, <3>2 DEF PlansApart
  <2>2. CASE UndoWrite(h)
    BY <1>1, <2>2 DEF UndoWrite, history
  <2>3. CASE FinishUndo(h)
    BY <1>0, <2>3, ReturnApart DEF FinishUndo, history
  <2>. QED  BY <1>6, <2>1, <2>2, <2>3 DEF Undo
<1>. QED  BY <1>2, <1>3, <1>4, <1>5, <1>6 DEF Next

\* ResubmitConverges, for every day on which no two events shared summary and start
\* and every plan whose events take time: submitting the plan again would create and
\* delete nothing (the matching in calendar_reconciliation.py, plan_sync in
\* sync_engine.py).  Of events that share both, the matching takes the first, and
\* which comes first is up to the server, at each snapshot anew.
THEOREM ConvergeCorrect ==
  ASSUME NEW one, Handlers = {one}
  PROVE  Spec => [](Unambiguous(txOrigin.cal) /\ Steady(txOrigin.plan) => ResubmitConverges)
<1>1. TypeInv /\ SerialInv(one) /\ PlansApart =>
        (Unambiguous(txOrigin.cal) /\ Steady(txOrigin.plan) => ResubmitConverges)
  <2>. SUFFICES ASSUME TypeInv, SerialInv(one), PlansApart, Unambiguous(txOrigin.cal),
                       Steady(txOrigin.plan), Settled
       PROVE  \A op \in PlanSync(Snapshot(cal), txOrigin.plan) :
                op.kind = "update" /\ op.after.d # ""
    BY DEF ResubmitConverges
  <2>1. CarriedOut(cal, txOrigin, SyncOps(txOrigin))
    BY DEF Settled, SerialInv, Committed, Undisturbed
  <2>2. txOrigin \in Origin /\ IsCalendar(txOrigin.cal) /\ IsCalendar(cal)
    BY DEF TypeInv, TypeOK, SerialInv, IsCalendar
  <2>3. ~Overlapping(txOrigin.plan)
    BY DEF PlansApart
  <2>. QED  BY <2>1, <2>2, <2>3, CarriedOutConverges
<1>2. Spec => [](TypeInv /\ SerialInv(one))
  BY SerialAlways
<1>3. Init => PlansApart
  BY DEF Init, PlansApart, NoOrigin, Overlapping
<1>4. Init => TypeInv
  BY TypesAtStart
<1>5. TypeInv /\ [Next]_vars => TypeInv'
  BY TypesKept
<1>6. TypeInv /\ PlansApart /\ [Next]_vars => PlansApart'
  BY ApartKept
<1>. QED  BY <1>1, <1>2, <1>3, <1>4, <1>5, <1>6, PTL DEF Spec
=============================================================================
