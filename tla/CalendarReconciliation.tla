------------------------ MODULE CalendarReconciliation ------------------------
(***************************************************************************)
(* The matching of a desired day plan with the events a calendar holds     *)
(* (agents/timeboxing/calendar_reconciliation.py).  Nothing here has       *)
(* state: a plan is a sequence of [n, st, et, d] (summary, start and end   *)
(* in minutes, description), the remote day a sequence of [id, n, st, et]  *)
(* in start order, as the snapshot of sync_engine.py delivers it.          *)
(*                                                                         *)
(* Every remote event has an id (the code's `no id' branches serve plans   *)
(* that were not fetched).  Summaries are taken after the normalisation of *)
(* case and blanks.                                                        *)
(***************************************************************************)
EXTENDS Integers, Sequences, SequencesExt

CONSTANTS
  StartTolerance,   \* fuzzy_start_tolerance_min
  OverlapPercent    \* foreign_overlap_match_min_percent

ASSUME ToleranceAssumption == StartTolerance \in Nat /\ OverlapPercent \in Nat

\* An id is a pair: its prefix, and what it stands for.  The agent's begin with
\* "fftb" (is_owned_event).
IsOwned(id) == id[1] = "fftb"

Larger(x, y)   == IF x >= y THEN x ELSE y
Smaller(x, y)  == IF x >= y THEN y ELSE x
Distance(x, y) == Larger(x, y) - Smaller(x, y)

Duration(a) == Larger(0, a.et - a.st)
OverlapMinutes(a, b) == Larger(0, Smaller(a.et, b.et) - Larger(a.st, b.st))

\* Python's order of tuples.
Beats(s, t) ==
  \E p \in DOMAIN s : s[p] > t[p] /\ \A q \in 1..(p - 1) : s[q] = t[q]
----------------------------------------------------------------------------
(* A matching maps each desired index to a remote one, 0 when it has none. *)

Free(m, remote) == {j \in DOMAIN remote : \A i \in DOMAIN m : m[i] # j}

\* The candidate of the highest score, the first of equals; 0 without one.
Best(candidates, score, n) ==
  LET best[j \in 0..n] ==
        IF j = 0 THEN 0
        ELSE LET b == best[j - 1] IN
             IF j \in candidates /\ (b = 0 \/ Beats(score[j], score[b])) THEN j ELSE b
  IN  best[n]

\* One pass: each desired event that is still unmatched, in plan order, takes
\* the best of the free remote ones it is paired with.
Pass(m, remote, pairs, score) ==
  LET Pick(n, i) == Best({j \in Free(n, remote) : <<i, j>> \in pairs},
                         [j \in DOMAIN remote |-> score[<<i, j>>]], Len(remote))
      after[i \in 0..Len(m)] ==
        IF i = 0 THEN m
        ELSE LET n == after[i - 1] IN
             IF n[i] # 0 THEN n ELSE [n EXCEPT ![i] = Pick(n, i)]
  IN  after[Len(m)]

SameKey(d, r) == d.n = r.n /\ d.st = r.st
StartDelta(d, r) == Distance(d.st, r.st)

\* 1. the id lineage: the id map keeps the first event of each key
Hinted(d, remote, j) ==
  SameKey(d, remote[j]) /\ \A k \in 1..(j - 1) : ~SameKey(d, remote[k])

\* 2. the same summary, start and end
Canonical(d, r) == SameKey(d, r) /\ d.et = r.et

\* 3. the same summary at about the same time
Fuzzy(d, r) ==
  d.n = r.n /\ (OverlapMinutes(d, r) > 0 \/ StartDelta(d, r) <= StartTolerance)
FuzzyScore(d, r) ==
  <<OverlapMinutes(d, r), -StartDelta(d, r),
    -Distance(Distance(d.st, d.et), Distance(r.st, r.et))>>

\* 4. a foreign event that nearly covers it, or that it nearly covers
Percent(d, r) == (OverlapMinutes(d, r) * 100) \div Smaller(Duration(d), Duration(r))
Covered(d, r) ==
  ~IsOwned(r.id) /\ OverlapMinutes(d, r) > 0 /\ Percent(d, r) >= OverlapPercent
CoverScore(d, r) ==
  <<Percent(d, r), OverlapMinutes(d, r), -StartDelta(d, r), -Distance(d.et, r.et)>>

Matching(desired, remote) ==
  LET all == (DOMAIN desired) \X (DOMAIN remote)
      noScore == [c \in all |-> <<>>]
      none    == [i \in DOMAIN desired |-> 0]
      byId    == Pass(none, remote,
                      {c \in all : Hinted(desired[c[1]], remote, c[2])}, noScore)
      byShape == Pass(byId, remote,
                      {c \in all : Canonical(desired[c[1]], remote[c[2]])}, noScore)
      byTime  == Pass(byShape, remote,
                      {c \in all : Fuzzy(desired[c[1]], remote[c[2]])},
                      [c \in all |-> FuzzyScore(desired[c[1]], remote[c[2]])])
  IN  Pass(byTime, remote,
           {c \in all : Covered(desired[c[1]], remote[c[2]])},
           [c \in all |-> CoverScore(desired[c[1]], remote[c[2]])])
----------------------------------------------------------------------------
(* What reconcile_calendar_ops makes of a matching m: the desired events to  *)
(* create, the matches with an event of the agent's own (update candidates), *)
(* and its events no desired event claims.  Everything foreign is left out.  *)

Creates(m) == {i \in DOMAIN m : m[i] = 0}

\* Mutant: a matched event is updated whoever owns it.
AllMatches(m, remote) == {i \in DOMAIN m : m[i] # 0}

OwnedMatches(m, remote) == {i \in DOMAIN m : m[i] # 0 /\ IsOwned(remote[m[i]].id)}

Deletes(m, remote) == {j \in Free(m, remote) : IsOwned(remote[j].id)}
=============================================================================
