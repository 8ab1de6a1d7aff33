--------------------------- MODULE PlanPatchProofs ---------------------------
(* What resolve_times computes for a plan of any length, by induction along  *)
(* its two passes: the times it finds are the ones the placements ask for,   *)
(* the check of neighbours orders all pairs, and no other times would do.    *)
(* From this: the timebox is a schedule of the plan, and a plan is rejected  *)
(* only if it has none, or is not anchored or leaves a time open.            *)
EXTENDS PlanPatch, Induction, SequenceTheorems, TLAPS

\* The end of event i, if the events before it end at x.
EndAfter(es, i, x) ==
  LET p == es[i].p IN
  CASE p.a = "ap" -> (x + p.dur) % Day
    [] p.a = "fs" -> (p.st + p.dur) % Day
    [] p.a = "fw" -> p.et
    [] p.a = "bn" -> x

\* The forward pass exists, so LastEnds is what its recursion says.
LEMMA ForwardPass ==
  ASSUME NEW es, Len(es) \in Nat
  PROVE  LastEnds(es) =
           [i \in 0..Len(es) |->
              IF i = 0 THEN None ELSE EndAfter(es, i, LastEnds(es)[i - 1])]
<1> DEFINE n == Len(es)
           Pass(k, g) == g = [i \in 0..k |-> IF i = 0 THEN None ELSE EndAfter(es, i, g[i - 1])]
           G == {k \in 0..n : \E g : Pass(k, g)}
<1>1. 0 \in G
  <2> DEFINE g == [i \in 0..0 |-> None]
  <2>1. Pass(0, g) /\ 0 \in 0..n
    <3>1. \A i \in 0..0 : i = 0
      OBVIOUS
    <3>. QED  BY <3>1
  <2> HIDE DEF Pass, g
  <2>. QED  BY <2>1
<1>2. ASSUME NEW k \in 0..(n - 1), k \in G PROVE k + 1 \in G
  <2>1. PICK g : Pass(k, g)
    BY <1>2
  <2> DEFINE h == [i \in 0..(k + 1) |-> IF i = 0 THEN None ELSE EndAfter(es, i, g[i - 1])]
  <2>2. ASSUME NEW i \in 0..k PROVE h[i] = g[i]
    BY <2>1
  <2>3. ASSUME NEW i \in 0..(k + 1), i # 0 PROVE h[i - 1] = g[i - 1]
    <3>1. i - 1 \in 0..k
      BY <2>3
    <3>. QED  BY <2>2, <3>1
  <2>4. Pass(k + 1, h)
    BY <2>3
  <2>5. k + 1 \in 0..n
    OBVIOUS
  <2>. QED  BY <2>4, <2>5
<1>3. n \in G
  <2>1. \A k \in 0..(n - 1) : k \in G => k + 1 \in G
    BY <1>2
  <2> HIDE DEF G
  <2>2. 0..n \subseteq G
    BY <1>1, <2>1, SetInduction
  <2>. QED  BY <2>2
<1>4. \E g : Pass(n, g)
  BY <1>3
<1>5. LastEnds(es) = CHOOSE g : Pass(n, g)
  BY DEF LastEnds, EndAfter
<1>6. Pass(n, LastEnds(es))
  <2> HIDE DEF Pass
  <2>. QED  BY <1>4, <1>5
<1>. QED  BY <1>6

\* Times of the day, and moving them around the day.
LEMMA Clock ==
  /\ \A x \in Int : x % Day \in Times
  /\ \A x \in Times, d \in Durations : x = (((x - d) % Day) + d) % Day
  /\ \A x, y \in Times, d \in Durations : x = (y + d) % Day => y = (x - d) % Day
<1>1. Day \in Nat /\ Day > 0
  BY PlanPatchAssumption
<1>2. \A x \in Int : x % Day \in Times
  BY <1>1 DEF Times
<1>3. \A x \in Times, d \in Durations : x = (((x - d) % Day) + d) % Day
  BY <1>1 DEF Times, Durations
<1>4. \A x, y \in Times, d \in Durations : x = (y + d) % Day => y = (x - d) % Day
  BY <1>1 DEF Times, Durations
<1>. QED  BY <1>2, <1>3, <1>4

\* The placements, case by case.
LEMMA Placements ==
  ASSUME NEW es \in Seq(Event), NEW i \in Indexes(es)
  PROVE  LET p == es[i].p IN
         /\ p.a \in {"ap", "bn", "fs", "fw"}
         /\ Fixed(p) <=> p.a \in {"fs", "fw"}
         /\ p.a # "fw" => p.dur \in Durations
         /\ Fixed(p) => p.st \in Times
         /\ p.a = "fw" => p.et \in Times
<1>1. es[i] \in Event
  BY DEF Indexes
<1>2. es[i].p \in Placement
  BY <1>1 DEF Event
<1> DEFINE p == es[i].p
<1>3. p \in Placement
  BY <1>2
<1> HIDE DEF p
<1>4. /\ p.a \in {"ap", "bn", "fs", "fw"}
      /\ Fixed(p) <=> p.a \in {"fs", "fw"}
      /\ p.a # "fw" => p.dur \in Durations
      /\ Fixed(p) => p.st \in Times
      /\ p.a = "fw" => p.et \in Times
  BY <1>3 DEF Placement, Fixed
<1>. QED  BY <1>4 DEF p

\* The start of event i, if the event after it starts at x.
StartBefore(es, i, x) ==
  LET p == es[i].p IN
  IF Fixed(p) THEN p.st
  ELSE IF p.a = "ap" THEN LastEnds(es)[i - 1] ELSE (x - p.dur) % Day

\* The backward pass exists if the last event does not wait for a next one.
LEMMA BackwardPass ==
  ASSUME NEW es \in Seq(Event), es # <<>> => Last(es).p.a # "bn"
  PROVE  Starts(es) = [i \in Indexes(es) |-> StartBefore(es, i, Starts(es)[i + 1])]
<1> DEFINE n == Len(es)
           From(k) == (n - k + 1)..n
           Pass(k, g) == g = [i \in From(k) |-> StartBefore(es, i, g[i + 1])]
           G == {k \in 0..n : \E g : Pass(k, g)}
<1>0. n \in Nat
  OBVIOUS
<1>1. 0 \in G
  <2> DEFINE g == [i \in From(0) |-> 0]
  <2>1. Pass(0, g) /\ 0 \in 0..n
    <3>1. \A i \in From(0) : FALSE
      BY <1>0
    <3>. QED  BY <1>0, <3>1
  <2> HIDE DEF Pass, g
  <2>. QED  BY <2>1
<1>2. ASSUME NEW k \in 0..(n - 1), k \in G PROVE k + 1 \in G
  <2>1. PICK g : Pass(k, g)
    BY <1>2
  <2> DEFINE h == [i \in From(k + 1) |-> StartBefore(es, i, g[i + 1])]
  <2>2. ASSUME NEW i \in From(k) PROVE h[i] = g[i]
    <3>1. i \in From(k + 1)
      BY <1>0
    <3>. QED  BY <2>1, <3>1
  <2>3. ASSUME NEW i \in From(k + 1) PROVE StartBefore(es, i, h[i + 1]) = StartBefore(es, i, g[i + 1])
    <3>1. CASE i = n
      <4>1. es[n].p.a # "bn" /\ n \in Indexes(es)
        BY <1>0, <3>1 DEF Last, Indexes
      <4>2. Fixed(es[n].p) \/ es[n].p.a = "ap"
        BY <4>1, Placements
      <4>. QED  BY <3>1, <4>2 DEF StartBefore
    <3>2. CASE i # n
      <4>1. i + 1 \in From(k)
        BY <1>0, <3>2
      <4>. QED  BY <2>2, <4>1
    <3>. QED  BY <3>1, <3>2
  <2>4. Pass(k + 1, h)
    <3> HIDE DEF From
    <3>. QED  BY <2>3
  <2>5. k + 1 \in 0..n
    BY <1>0
  <2> HIDE DEF Pass
  <2>. QED  BY <2>4, <2>5
<1>3. n \in G
  <2>1. \A k \in 0..(n - 1) : k \in G => k + 1 \in G
    BY <1>2
  <2> HIDE DEF G
  <2>2. 0..n \subseteq G
    BY <1>0, <1>1, <2>1, SetInduction
  <2>. QED  BY <1>0, <2>2
<1>4. \E g : Pass(n, g)
  BY <1>3
<1>5. From(n) = Indexes(es)
  BY <1>0 DEF Indexes
<1> DEFINE Whole(g) == g = [i \in Indexes(es) |-> StartBefore(es, i, g[i + 1])]
<1>6. \E g : Whole(g)
  BY <1>4, <1>5
<1>7. Starts(es) = CHOOSE g : Whole(g)
  BY DEF Starts, StartBefore
<1>8. Whole(Starts(es))
  <2> HIDE DEF Whole
  <2>. QED  BY <1>6, <1>7
<1>. QED  BY <1>8

\* After an event that is not placed before the next one, an end is known.
LEMMA KnownEnds ==
  ASSUME NEW es \in Seq(Event), Resolvable(es),
         NEW i \in Indexes(es), NEW j \in 1..i, es[j].p.a # "bn"
  PROVE  LastEnds(es)[i] \in Times
<1> DEFINE n == Len(es)
           Known(k) == \E m \in 1..k : es[m].p.a # "bn"
           S == {k \in 0..n : Known(k) => LastEnds(es)[k] \in Times}
<1>0. n \in Nat /\ i \in 1..n /\ Indexes(es) = 1..n
  BY DEF Indexes
<1>1. 0 \in S
  BY <1>0
<1>2. ASSUME NEW k \in 0..(n - 1), k \in S PROVE k + 1 \in S
  <2> DEFINE p == es[k + 1].p
             x == LastEnds(es)[k]
  <2>0. k + 1 \in Indexes(es) /\ k + 1 \in 0..n /\ k + 1 # 0 /\ (k + 1) - 1 = k
    BY <1>0
  <2>1. LastEnds(es)[k + 1] = EndAfter(es, k + 1, x)
    BY <1>0, <2>0, ForwardPass
  <2>2. SUFFICES ASSUME Known(k + 1) PROVE LastEnds(es)[k + 1] \in Times
    BY <2>0
  <2>3. /\ p.a \in {"ap", "bn", "fs", "fw"}
        /\ p.a # "fw" => p.dur \in Durations
        /\ p.a \in {"fs", "fw"} => p.st \in Times
        /\ p.a = "fw" => p.et \in Times
    BY <2>0, Placements
  <2>4. p.a \in {"ap", "bn"} => x \in Times
    <3>1. CASE p.a = "ap"
      <4>1. Known(k)
        BY <2>0, <3>1 DEF Resolvable
      <4>. QED  BY <1>2, <4>1
    <3>2. CASE p.a = "bn"
      <4>1. Known(k)
        BY <2>2, <3>2
      <4>. QED  BY <1>2, <4>1
    <3>. QED  BY <3>1, <3>2
  <2>5. (\A y \in Times : y \in Int) /\ (\A d \in Durations : d \in Int)
    BY PlanPatchAssumption DEF Times, Durations
  <2> HIDE DEF p, x
  <2>6. EndAfter(es, k + 1, x) =
          CASE p.a = "ap" -> (x + p.dur) % Day
            [] p.a = "fs" -> (p.st + p.dur) % Day
            [] p.a = "fw" -> p.et
            [] p.a = "bn" -> x
    BY DEF EndAfter, p
  <2>7. CASE p.a = "ap"
    <3>1. x + p.dur \in Int
      BY <2>3, <2>4, <2>5, <2>7
    <3>. QED  BY <2>1, <2>6, <2>7, <3>1, Clock
  <2>8. CASE p.a = "fs"
    <3>1. p.st + p.dur \in Int
      BY <2>3, <2>5, <2>8
    <3>. QED  BY <2>1, <2>6, <2>8, <3>1, Clock
  <2>9. CASE p.a = "fw"
    BY <2>1, <2>3, <2>6, <2>9
  <2>10. CASE p.a = "bn"
    BY <2>1, <2>4, <2>6, <2>10
  <2>. QED  BY <2>3, <2>7, <2>8, <2>9, <2>10
<1>3. i \in S
  <2>1. \A k \in 0..(n - 1) : k \in S => k + 1 \in S
    BY <1>2
  <2> HIDE DEF S
  <2>2. 0..n \subseteq S
    BY <1>0, <1>1, <2>1, SetInduction
  <2>. QED  BY <1>0, <2>2
<1>4. Known(i)
  OBVIOUS
<1>. QED  BY <1>3, <1>4

\* Both passes together give every event of a resolvable plan a start.
LEMMA KnownStarts ==
  ASSUME NEW es \in Seq(Event), Resolvable(es)
  PROVE  \A i \in Indexes(es) : Starts(es)[i] \in Times
<1> DEFINE n == Len(es)
           S == {k \in 0..n : \A i \in Indexes(es) : n - k < i => Starts(es)[i] \in Times}
<1>0. n \in Nat /\ Indexes(es) = 1..n
  BY DEF Indexes
<1>1. 0 \in S
  BY <1>0
<1>2. ASSUME NEW k \in 0..(n - 1), k \in S PROVE k + 1 \in S
  <2> DEFINE m == n - k
             x == Starts(es)[m + 1]
  <2>0. m \in Indexes(es) /\ k + 1 \in 0..n
    BY <1>0
  <2>1. Starts(es)[m] = StartBefore(es, m, x)
    <3>1. es # <<>> => Last(es).p.a # "bn"
      BY DEF Resolvable
    <3>. QED  BY <2>0, <3>1, BackwardPass
  <2>2. SUFFICES Starts(es)[m] \in Times
    <3>1. ASSUME NEW i \in Indexes(es), n - (k + 1) < i PROVE i = m \/ n - k < i
      BY <1>0, <3>1
    <3> HIDE DEF m
    <3>. QED  BY <1>2, <2>0, <2>2, <3>1
  <2>3. /\ es[m].p.a \in {"ap", "bn", "fs", "fw"}
        /\ Fixed(es[m].p) <=> es[m].p.a \in {"fs", "fw"}
        /\ es[m].p.a # "fw" => es[m].p.dur \in Durations
        /\ Fixed(es[m].p) => es[m].p.st \in Times
    <3> HIDE DEF m
    <3>. QED  BY <2>0, Placements
  <2> HIDE DEF x
  <2>4. CASE Fixed(es[m].p)
    <3> HIDE DEF m
    <3>. QED  BY <2>1, <2>3, <2>4 DEF StartBefore
  <2>5. CASE es[m].p.a = "ap"
    <3>1. PICK j \in 1..(m - 1) : es[j].p.a # "bn"
      BY <2>0, <2>5 DEF Resolvable
    <3>2. m - 1 \in Indexes(es) /\ j \in 1..(m - 1)
      BY <1>0
    <3>3. LastEnds(es)[m - 1] \in Times
      <4> HIDE DEF m
      <4>. QED  BY <3>1, <3>2, KnownEnds
    <3>. QED  BY <2>1, <2>3, <2>5, <3>3 DEF StartBefore
  <2>6. CASE es[m].p.a = "bn"
    <3>1. m # n
      BY <1>0, <2>6 DEF Resolvable, Last
    <3>2. m + 1 \in Indexes(es) /\ n - k < m + 1
      BY <1>0, <2>0, <3>1
    <3>3. x \in Times
      BY <1>2, <3>2 DEF x
    <3>4. x \in Int /\ es[m].p.dur \in Int
      BY <2>3, <2>6, <3>3, PlanPatchAssumption DEF Times, Durations
    <3>5. (x - es[m].p.dur) % Day \in Times
      BY <3>4, Clock
    <3>. QED  BY <2>1, <2>3, <2>6, <3>5 DEF StartBefore
  <2>. QED  BY <2>3, <2>4, <2>5, <2>6
<1>3. n \in S
  <2>1. \A k \in 0..(n - 1) : k \in S => k + 1 \in S
    BY <1>2
  <2> HIDE DEF S
  <2>2. 0..n \subseteq S
    BY <1>0, <1>1, <2>1, SetInduction
  <2>. QED  BY <1>0, <2>2
<1>4. \A i \in Indexes(es) : n - n < i
  BY <1>0
<1>. QED  BY <1>3, <1>4

\* One slot per event, as the two passes say.
LEMMA Resolved ==
  ASSUME NEW es \in Seq(Event), Resolvable(es)
  PROVE  /\ Resolve(es) \in [Indexes(es) -> Slot]
         /\ \A i \in Indexes(es) :
              /\ Resolve(es)[i].st = Starts(es)[i]
              /\ es[i].p.a = "bn" => /\ i + 1 \in Indexes(es)
                                     /\ Resolve(es)[i].et = Starts(es)[i + 1]
              /\ es[i].p.a # "bn" => /\ Resolve(es)[i].et = LastEnds(es)[i]
                                     /\ LastEnds(es)[i] \in Times
<1>0. Len(es) \in Nat /\ Indexes(es) = 1..Len(es)
  BY DEF Indexes
<1> DEFINE s(i) == [st |-> Starts(es)[i],
                    et |-> IF es[i].p.a = "bn" THEN Starts(es)[i + 1] ELSE LastEnds(es)[i]]
<1>1. Resolve(es) = [i \in Indexes(es) |-> s(i)]
  BY DEF Resolve
<1>2. ASSUME NEW i \in Indexes(es)
      PROVE  /\ es[i].p.a = "bn" => i + 1 \in Indexes(es)
             /\ es[i].p.a # "bn" => LastEnds(es)[i] \in Times
  <2>1. ASSUME es[i].p.a = "bn" PROVE i + 1 \in Indexes(es)
    <3>1. i # Len(es)
      BY <1>0, <2>1 DEF Resolvable, Last
    <3>. QED  BY <1>0, <3>1
  <2>2. ASSUME es[i].p.a # "bn" PROVE LastEnds(es)[i] \in Times
    <3>1. i \in 1..i
      BY <1>0
    <3>. QED  BY <2>2, <3>1, KnownEnds
  <2>. QED  BY <2>1, <2>2
<1>3. \A i \in Indexes(es) : s(i) \in Slot
  BY <1>2, KnownStarts DEF Slot
<1> HIDE DEF s
<1>4. Resolve(es) \in [Indexes(es) -> Slot] /\ \A i \in Indexes(es) : Resolve(es)[i] = s(i)
  BY <1>1, <1>3
<1>. QED  BY <1>2, <1>4 DEF s

\* The resolved times are the ones the placements ask for.
LEMMA ResolvedIsPlaced ==
  ASSUME NEW es \in Seq(Event), Resolvable(es)
  PROVE  Placed(es, Resolve(es))
<1>0. Len(es) \in Nat /\ Indexes(es) = 1..Len(es)
  BY DEF Indexes
<1>. SUFFICES ASSUME NEW i \in Indexes(es)
     PROVE LET s == Resolve(es) p == es[i].p
               Lasts == s[i].et = (s[i].st + p.dur) % Day
           IN  CASE p.a = "ap" -> i > 1 /\ s[i].st = s[i - 1].et /\ Lasts
                 [] p.a = "bn" -> i < Len(es) /\ s[i].et = s[i + 1].st /\ Lasts
                 [] p.a = "fs" -> s[i].st = p.st /\ Lasts
                 [] p.a = "fw" -> s[i] = [st |-> p.st, et |-> p.et]
  BY DEF Placed
<1> DEFINE s == Resolve(es) p == es[i].p
<1>1. /\ p.a \in {"ap", "bn", "fs", "fw"}
      /\ Fixed(p) <=> p.a \in {"fs", "fw"}
      /\ p.a # "fw" => p.dur \in Durations
  BY Placements
<1>2. /\ \A j \in Indexes(es) : s[j] \in Slot /\ s[j].st = Starts(es)[j] /\ Starts(es)[j] \in Times
      /\ \A j \in Indexes(es) : es[j].p.a = "bn" => j + 1 \in Indexes(es) /\ s[j].et = Starts(es)[j + 1]
      /\ \A j \in Indexes(es) : es[j].p.a # "bn" => s[j].et = LastEnds(es)[j]
  BY Resolved, KnownStarts
<1>3. LastEnds(es)[i] = EndAfter(es, i, LastEnds(es)[i - 1])
  BY <1>0, ForwardPass
<1>4. Starts(es)[i] = StartBefore(es, i, Starts(es)[i + 1])
  <2>1. es # <<>> => Last(es).p.a # "bn"
    BY DEF Resolvable
  <2>. QED  BY <2>1, BackwardPass
<1> HIDE DEF s
<1>5. CASE p.a = "ap"
  <2>1. i - 1 \in Indexes(es) /\ i > 1 /\ (i - 1) + 1 = i
    BY <1>0, <1>5 DEF Resolvable
  <2>2. Starts(es)[i] = LastEnds(es)[i - 1]
    BY <1>1, <1>4, <1>5 DEF StartBefore
  <2>3. s[i - 1].et = LastEnds(es)[i - 1]
    BY <1>2, <2>1, <2>2
  <2>4. s[i].et = (LastEnds(es)[i - 1] + p.dur) % Day
    BY <1>2, <1>3, <1>5 DEF EndAfter
  <2>. QED  BY <1>2, <1>5, <2>1, <2>2, <2>3, <2>4 DEF s
<1>6. CASE p.a = "bn"
  <2>1. i + 1 \in Indexes(es) /\ i < Len(es) /\ s[i].et = Starts(es)[i + 1]
    BY <1>0, <1>2, <1>6
  <2>2. Starts(es)[i] = (Starts(es)[i + 1] - p.dur) % Day
    BY <1>1, <1>4, <1>6 DEF StartBefore
  <2>3. Starts(es)[i + 1] = (Starts(es)[i] + p.dur) % Day
    BY <1>1, <1>2, <1>6, <2>1, <2>2, Clock
  <2>. QED  BY <1>2, <1>6, <2>1, <2>3 DEF s
<1>7. CASE p.a = "fs"
  <2>1. Starts(es)[i] = p.st
    BY <1>1, <1>4, <1>7 DEF StartBefore
  <2>2. s[i].et = (p.st + p.dur) % Day
    BY <1>2, <1>3, <1>7 DEF EndAfter
  <2>. QED  BY <1>2, <1>7, <2>1, <2>2 DEF s
<1>8. CASE p.a = "fw"
  <2>1. Starts(es)[i] = p.st
    BY <1>1, <1>4, <1>8 DEF StartBefore
  <2>2. s[i].et = p.et
    BY <1>2, <1>3, <1>8 DEF EndAfter
  <2>3. s[i] = [st |-> p.st, et |-> p.et]
    BY <1>2, <2>1, <2>2 DEF Slot
  <2>. QED  BY <1>8, <2>3 DEF s
<1>. QED  BY <1>1, <1>5, <1>6, <1>7, <1>8

\* The check of neighbours is a check of all pairs: if it finds no overlap, two
\* events are in order whenever none between them runs past midnight.
LEMMA NeighboursInOrder ==
  ASSUME NEW n \in Nat, NEW s \in [1..n -> Slot], NEW among, among \subseteq 1..n,
         NoClash(s, among)
  PROVE  InOrder(s, among)
<1> DEFINE Clear(i, j) == \A k \in among : i < k /\ k < j => s[k].st <= s[k].et
<1>0. \A k \in among : k \in Nat /\ s[k].st \in Int /\ s[k].et \in Int
  BY PlanPatchAssumption DEF Slot, Times
<1>. SUFFICES ASSUME NEW i \in among, \E j \in among : i < j /\ Clear(i, j) /\ ~(s[i].et <= s[j].st)
     PROVE FALSE
  BY DEF InOrder
<1> DEFINE T == {j \in among : i < j /\ Clear(i, j) /\ ~(s[i].et <= s[j].st)}
<1>1. PICK j \in T : \A y \in T : j <= y
  <2>1. T # {} /\ T \subseteq Nat
    BY <1>0
  <2> HIDE DEF T
  <2>. QED  BY <2>1, LeastNumber
<1>2. j \in among /\ i < j /\ Clear(i, j) /\ ~(s[i].et <= s[j].st)
  BY <1>1
<1> DEFINE B == {j - k : k \in {k \in among : i < k /\ k < j}}
<1>3. CASE B = {}
  <2>1. \A k \in among : ~(i < k /\ k < j)
    BY <1>3
  <2>2. \A k \in among : k <= i \/ j <= k
    BY <1>0, <1>2, <2>1
  <2>. QED  BY <1>2, <2>2 DEF NoClash
<1>4. CASE B # {}
  <2>1. B \subseteq Nat
    BY <1>0, <1>1, <1>2
  <2>2. PICK d \in B : \A y \in B : d <= y
    <3> HIDE DEF B
    <3>. QED  BY <1>4, <2>1, LeastNumber
  <2>3. PICK k \in among : i < k /\ k < j /\ d = j - k
    BY <2>2
  <2>4. ASSUME NEW m \in among PROVE m <= k \/ j <= m
    <3>1. SUFFICES ASSUME k < m, m < j PROVE FALSE
      BY <1>0, <1>1, <1>2
    <3>2. i < m /\ j - m \in B
      BY <1>0, <2>3, <3>1
    <3>3. d <= j - m
      BY <2>2, <3>2
    <3>. QED  BY <1>0, <1>2, <2>3, <3>1, <3>3
  <2>5. s[k].et <= s[j].st
    BY <1>2, <2>3, <2>4 DEF NoClash
  <2>6. s[k].st <= s[k].et
    BY <1>2, <2>3
  <2>7. Clear(i, k)
    BY <1>0, <1>2, <2>3
  <2>8. k \notin T
    BY <1>0, <1>1, <1>2, <2>3
  <2>9. s[i].et <= s[k].st
    BY <2>3, <2>7, <2>8
  <2>. QED  BY <1>0, <1>2, <2>3, <2>5, <2>6, <2>9
<1>. QED  BY <1>3, <1>4

\* What the conversion to a timebox accepts, it makes a schedule.
LEMMA ConvertsToSchedule ==
  ASSUME NEW es \in Seq(Event), Converts(es)
  PROVE  /\ Resolve(es) \in [Indexes(es) -> Slot]
         /\ Schedule(es, Resolve(es))
<1>1. Resolvable(es) /\ NoClash(Resolve(es), Indexes(es)) /\ NoClash(Resolve(es), Chain(es))
  BY DEF Converts
<1>2. Resolve(es) \in [Indexes(es) -> Slot] /\ Placed(es, Resolve(es))
  BY <1>1, Resolved, ResolvedIsPlaced
<1>3. Len(es) \in Nat /\ Indexes(es) = 1..Len(es) /\ Chain(es) \subseteq Indexes(es)
  BY DEF Indexes, Chain
<1>4. InOrder(Resolve(es), Indexes(es)) /\ InOrder(Resolve(es), Chain(es))
  BY <1>1, <1>2, <1>3, NeighboursInOrder
<1>. QED  BY <1>2, <1>4 DEF Schedule

\* A plan that is not open has one way to be placed: the one of the two passes.
LEMMA PlacedOnce ==
  ASSUME NEW es \in Seq(Event), NEW s \in [Indexes(es) -> Slot], Placed(es, s), ~Open(es)
  PROVE  Resolvable(es) /\ s = Resolve(es)
<1> DEFINE n == Len(es)
<1>0. n \in Nat /\ Indexes(es) = 1..n
  BY DEF Indexes
<1>1. \A i \in Indexes(es) : /\ es[i].p.a \in {"ap", "bn", "fs", "fw"}
                             /\ Fixed(es[i].p) <=> es[i].p.a \in {"fs", "fw"}
                             /\ es[i].p.a # "fw" => es[i].p.dur \in Durations
  BY Placements
<1>2. \A i \in Indexes(es) :
        /\ es[i].p.a # "fw" => s[i].et = (s[i].st + es[i].p.dur) % Day
        /\ es[i].p.a = "ap" => i > 1 /\ s[i].st = s[i - 1].et
        /\ es[i].p.a = "bn" => i < n /\ s[i].et = s[i + 1].st
        /\ es[i].p.a = "fs" => s[i].st = es[i].p.st
        /\ es[i].p.a = "fw" => s[i].st = es[i].p.st /\ s[i].et = es[i].p.et
  <2>. TAKE i \in Indexes(es)
  <2>1. LET p == es[i].p
            Lasts == s[i].et = (s[i].st + p.dur) % Day
        IN  CASE p.a = "ap" -> i > 1 /\ s[i].st = s[i - 1].et /\ Lasts
              [] p.a = "bn" -> i < n /\ s[i].et = s[i + 1].st /\ Lasts
              [] p.a = "fs" -> s[i].st = p.st /\ Lasts
              [] p.a = "fw" -> s[i] = [st |-> p.st, et |-> p.et]
    BY DEF Placed
  <2>2. CASE es[i].p.a = "ap"
    BY <2>1, <2>2
  <2>3. CASE es[i].p.a = "bn"
    BY <2>1, <2>3
  <2>4. CASE es[i].p.a = "fs"
    BY <2>1, <2>4
  <2>5. CASE es[i].p.a = "fw"
    BY <2>1, <2>5
  <2>. QED  BY <1>1, <2>2, <2>3, <2>4, <2>5
<1>3. \A i \in Indexes(es) : es[i].p.a = "ap" => i - 1 \in Indexes(es) /\ es[i - 1].p.a # "bn"
  <2>. SUFFICES ASSUME NEW i \in Indexes(es), es[i].p.a = "ap"
       PROVE i - 1 \in Indexes(es) /\ es[i - 1].p.a # "bn"
    OBVIOUS
  <2>1. i - 1 \in 1..(n - 1) /\ (i - 1) + 1 = i
    BY <1>0, <1>2
  <2>. QED  BY <1>0, <2>1 DEF Open
<1>4. Resolvable(es)
  <2>1. ASSUME NEW i \in Indexes(es), es[i].p.a = "ap" PROVE \E j \in 1..(i - 1) : es[j].p.a # "bn"
    <3>1. i - 1 \in 1..(i - 1)
      BY <1>0, <1>3, <2>1
    <3>. QED  BY <1>3, <2>1, <3>1
  <2>2. ASSUME es # <<>> PROVE Last(es).p.a # "bn"
    <3>1. n \in Indexes(es) /\ ~(n < n)
      BY <1>0, <2>2
    <3>. QED  BY <1>2, <3>1 DEF Last
  <2>. QED  BY <2>1, <2>2 DEF Resolvable
\* Forward: the ends of the events that are not placed before the next one.
<1> DEFINE E == {k \in 0..n : k > 0 /\ es[k].p.a # "bn" => s[k].et = LastEnds(es)[k]}
<1>5. \A i \in Indexes(es) : es[i].p.a # "bn" => s[i].et = LastEnds(es)[i]
  <2>1. 0 \in E
    BY <1>0
  <2>2. ASSUME NEW k \in 0..(n - 1), k \in E PROVE k + 1 \in E
    <3> DEFINE i == k + 1
    <3>0. i \in Indexes(es) /\ i \in 0..n /\ i # 0 /\ i - 1 = k /\ k \in 0..n
      BY <1>0
    <3> HIDE DEF i
    <3>1. LastEnds(es)[i] = EndAfter(es, i, LastEnds(es)[k])
      BY <1>0, <3>0, ForwardPass
    <3>2. es[i].p.a = "ap" => s[i].st = LastEnds(es)[k]
      <4>. SUFFICES ASSUME es[i].p.a = "ap" PROVE s[i].st = LastEnds(es)[k]
        OBVIOUS
      <4>1. k \in Indexes(es) /\ es[k].p.a # "bn" /\ s[i].st = s[k].et
        BY <1>2, <1>3, <3>0
      <4>. QED  BY <1>0, <2>2, <4>1
    <3>3. es[i].p.a # "bn" => s[i].et = LastEnds(es)[i]
      BY <1>1, <1>2, <3>0, <3>1, <3>2 DEF EndAfter
    <3>4. i \in E
      BY <3>0, <3>3
    <3>. QED  BY <3>4 DEF i
  <2>3. \A k \in 0..(n - 1) : k \in E => k + 1 \in E
    BY <2>2
  <2> HIDE DEF E
  <2>4. 0..n \subseteq E
    BY <1>0, <2>1, <2>3, SetInduction
  <2>. QED  BY <1>0, <2>4 DEF E
\* Backward: all starts.
<1> DEFINE B == {k \in 0..n : \A i \in Indexes(es) : n - k < i => s[i].st = Starts(es)[i]}
<1>6. \A i \in Indexes(es) : s[i].st = Starts(es)[i]
  <2>1. 0 \in B
    BY <1>0
  <2>2. ASSUME NEW k \in 0..(n - 1), k \in B PROVE k + 1 \in B
    <3> DEFINE m == n - k
    <3>0. m \in Indexes(es) /\ k + 1 \in 0..n
      BY <1>0
    <3>1. \A i \in Indexes(es) : n - (k + 1) < i => i = m \/ n - k < i
      BY <1>0
    <3>2. m < n => m + 1 \in Indexes(es) /\ n - k < m + 1
      BY <1>0, <3>0
    <3>3. Starts(es)[m] = StartBefore(es, m, Starts(es)[m + 1])
      <4>1. es # <<>> => Last(es).p.a # "bn"
        BY <1>4 DEF Resolvable
      <4>. QED  BY <3>0, <4>1, BackwardPass
    <3>4. m < n => s[m + 1].st = Starts(es)[m + 1]
      BY <2>2, <3>2
    <3>5. s[m].st = Starts(es)[m]
      <4> HIDE DEF m
      <4>1. CASE es[m].p.a = "ap"
        <5>1. m - 1 \in Indexes(es) /\ es[m - 1].p.a # "bn" /\ s[m].st = s[m - 1].et
          BY <1>2, <1>3, <3>0, <4>1
        <5>. QED  BY <1>1, <1>5, <3>0, <3>3, <4>1, <5>1 DEF StartBefore
      <4>2. CASE es[m].p.a = "bn"
        <5>1. m < n /\ s[m].et = s[m + 1].st /\ s[m].et = (s[m].st + es[m].p.dur) % Day
          BY <1>2, <3>0, <4>2
        <5>2. s[m].st \in Times /\ s[m].et \in Times /\ es[m].p.dur \in Durations
          BY <1>1, <3>0, <4>2 DEF Slot
        <5>3. s[m].st = (s[m + 1].st - es[m].p.dur) % Day
          BY <5>1, <5>2, Clock
        <5>. QED  BY <1>1, <3>0, <3>3, <3>4, <4>2, <5>1, <5>3 DEF StartBefore
      <4>3. CASE Fixed(es[m].p)
        BY <1>1, <1>2, <3>0, <3>3, <4>3 DEF StartBefore
      <4>. QED  BY <1>1, <3>0, <4>1, <4>2, <4>3
    <3> HIDE DEF m
    <3>. QED  BY <2>2, <3>0, <3>1, <3>5
  <2>3. \A k \in 0..(n - 1) : k \in B => k + 1 \in B
    BY <2>2
  <2> HIDE DEF B
  <2>4. 0..n \subseteq B
    BY <1>0, <2>1, <2>3, SetInduction
  <2>5. \A i \in Indexes(es) : n - n < i
    BY <1>0
  <2>. QED  BY <1>0, <2>4, <2>5 DEF B
<1>7. \A i \in Indexes(es) : s[i].st = Resolve(es)[i].st /\ s[i].et = Resolve(es)[i].et
  <2>. SUFFICES ASSUME NEW i \in Indexes(es)
       PROVE s[i].st = Resolve(es)[i].st /\ s[i].et = Resolve(es)[i].et
    OBVIOUS
  <2>1. s[i].st = Resolve(es)[i].st
    BY <1>4, <1>6, Resolved
  <2>2. CASE es[i].p.a = "bn"
    <3>1. Resolve(es)[i].et = Starts(es)[i + 1] /\ i + 1 \in Indexes(es)
      BY <1>4, <2>2, Resolved
    <3>. QED  BY <1>2, <1>6, <2>1, <2>2, <3>1
  <2>3. CASE es[i].p.a # "bn"
    BY <1>4, <1>5, <2>1, <2>3, Resolved
  <2>. QED  BY <2>2, <2>3
<1>8. Resolve(es) \in [Indexes(es) -> Slot]
  BY <1>4, Resolved
<1>9. \A i \in Indexes(es) : s[i] = Resolve(es)[i]
  BY <1>7, <1>8 DEF Slot
<1>. QED  BY <1>4, <1>8, <1>9
----------------------------------------------------------------------------
(* The operations of a patch keep a plan of events *)

LEMMA SeedPlanIsPlan ==
  ASSUME NEW cal \in Calendars
  PROVE  SeedPlan(cal) \in Seq(Event) /\ Len(SeedPlan(cal)) <= MaxEvents
<1>1. cal \in Seq(CalendarEvent) /\ Len(cal) <= MaxEvents
  BY PlanPatchAssumption
<1>2. CASE cal = <<>>
  <2>1. SeedPlan(cal) = <<FocusBlock>> /\ FocusBlock \in Event /\ MaxEvents \in Nat /\ MaxEvents > 0
    BY <1>2, PlanPatchAssumption DEF SeedPlan
  <2>. QED  BY <2>1
<1>3. CASE cal # <<>>
  <2>1. SeedPlan(cal) = [i \in 1..Len(cal) |-> FromCalendar(cal[i])] /\ Len(cal) \in Nat
    BY <1>1, <1>3 DEF SeedPlan
  <2>2. ASSUME NEW i \in 1..Len(cal) PROVE FromCalendar(cal[i]) \in Event
    <3> DEFINE c == cal[i]
               e == FromCalendar(c)
    <3>1. c \in CalendarEvent
      BY <1>1
    <3> HIDE DEF c
    <3>2. e.bg \in BOOLEAN /\ e.p \in Placement /\ Fixed(e.p)
      BY <3>1 DEF CalendarEvent, FromCalendar, Placement, Fixed
    <3>3. e = [bg |-> e.bg, p |-> e.p]
      BY DEF FromCalendar
    <3> HIDE DEF e
    <3>4. e \in [bg : BOOLEAN, p : Placement] /\ IsEvent(e)
      BY <3>2, <3>3 DEF IsEvent
    <3>. QED  BY <3>4 DEF Event, e, c
  <2>3. SeedPlan(cal) \in [1..Len(cal) -> Event]
    BY <2>1, <2>2
  <2>4. SeedPlan(cal) \in Seq(Event) /\ Len(SeedPlan(cal)) = Len(cal)
    BY <2>1, <2>3
  <2>. QED  BY <1>1, <2>4
<1>. QED  BY <1>2, <1>3

LEMMA InsertedIsPlan ==
  ASSUME NEW es \in Seq(Event), NEW i \in Int, NEW e \in Event
  PROVE  Inserted(es, i, e) \in Seq(Event)
<1> DEFINE n == Len(es)
           at == IF i < 0 THEN (IF n + i < 0 THEN 0 ELSE n + i) ELSE IF i > n THEN n ELSE i
<1>1. n \in Nat /\ at \in 0..n
  OBVIOUS
<1>2. Inserted(es, i, e) = SubSeq(es, 1, (at + 1) - 1) \o <<e>> \o SubSeq(es, at + 1, n)
  BY DEF Inserted, InsertAt
<1> HIDE DEF at
<1>3. SubSeq(es, 1, (at + 1) - 1) \in Seq(Event) /\ SubSeq(es, at + 1, n) \in Seq(Event)
  <2>1. \A k \in 1..((at + 1) - 1) : es[k] \in Event
    BY <1>1
  <2>2. \A k \in (at + 1)..n : es[k] \in Event
    BY <1>1
  <2>. QED  BY <1>1, <2>1, <2>2, SubSeqProperties
<1>4. <<e>> \in Seq(Event)
  OBVIOUS
<1>5. SubSeq(es, 1, (at + 1) - 1) \o <<e>> \in Seq(Event)
  BY <1>3, <1>4, ConcatProperties
<1>. QED  BY <1>2, <1>3, <1>5, ConcatProperties

LEMMA RemovedIsPlan ==
  ASSUME NEW es \in Seq(Event), NEW i \in 1..Len(es)
  PROVE  RemoveAt(es, i) \in Seq(Event) /\ Len(RemoveAt(es, i)) \in Nat
<1>1. \A k \in 1..(i - 1) : es[k] \in Event
  OBVIOUS
<1>2. \A k \in (i + 1)..Len(es) : es[k] \in Event
  OBVIOUS
<1>3. SubSeq(es, 1, i - 1) \in Seq(Event) /\ SubSeq(es, i + 1, Len(es)) \in Seq(Event)
  BY <1>1, <1>2, SubSeqProperties
<1>4. RemoveAt(es, i) \in Seq(Event)
  BY <1>3, ConcatProperties DEF RemoveAt
<1>. QED  BY <1>4
----------------------------------------------------------------------------
(* What a step does *)

\* An operation makes a copy of the plan longer, shorter or different, or it
\* ends the attempt with an error that is not the plan's.
LEMMA OpSteps ==
  ASSUME TypeOK, Op
  PROVE  /\ Patching
         /\ \/ \E es \in Seq(Event) : Becomes(es)
            \/ \E error \in {"index", "event"} : Fail(error, TRUE)
<1>1. ASSUME Patching PROVE Copy \in Seq(Event)
  BY <1>1 DEF TypeOK, Copy
<1>2. Offered \subseteq Event /\ \A e \in Offered : e.bg \in BOOLEAN /\ e.p \in Placement
  BY PlanPatchAssumption DEF Event
<1>3. \A i : Patching /\ InRange(i) =>
        i + 1 \in 1..Len(Copy) /\ i \in Int /\ Copy[i + 1] \in Event
  BY <1>1 DEF InRange
<1>4. ASSUME NEW e \in Offered, NEW after \in (-2)..(Len(Copy) - 1) \cup {None}, AddEvent(e, after)
      PROVE  Patching /\ \E es \in Seq(Event) : Becomes(es)
  <2>1. Patching /\ e \in Event
    BY <1>2, <1>4 DEF AddEvent
  <2>2. CASE after = None
    <3>1. Becomes(Append(Copy, e)) /\ Append(Copy, e) \in Seq(Event)
      BY <1>1, <1>4, <2>1, <2>2 DEF AddEvent
    <3>. QED  BY <2>1, <3>1
  <2>3. CASE after # None
    <3>1. after + 1 \in Int
      BY <1>1, <2>1, <2>3
    <3>2. Becomes(Inserted(Copy, after + 1, e))
      BY <1>4, <2>3 DEF AddEvent
    <3>. QED  BY <1>1, <2>1, <3>1, <3>2, InsertedIsPlan
  <2>. QED  BY <2>2, <2>3
<1>5. ASSUME NEW i, RemoveEvent(i)
      PROVE  Patching /\ ((\E es \in Seq(Event) : Becomes(es)) \/ Fail("index", TRUE))
  BY <1>1, <1>3, <1>5, RemovedIsPlan DEF RemoveEvent
<1>6. ASSUME NEW i, NEW bg \in BOOLEAN \cup {None}, NEW p \in Placement \cup {None}, UpdateEvent(i, bg, p)
      PROVE  Patching /\ ((\E es \in Seq(Event) : Becomes(es)) \/ Fail("index", TRUE) \/ Fail("event", TRUE))
  <2>1. Patching
    BY <1>6 DEF UpdateEvent
  <2>2. CASE ~InRange(i)
    BY <1>6, <2>1, <2>2 DEF UpdateEvent
  <2>3. CASE InRange(i)
    <3> DEFINE e == Merged(Copy[i + 1], bg, p)
               es == [Copy EXCEPT ![i + 1] = e]
    <3>1. IF IsEvent(e) THEN Becomes(es) ELSE Fail("event", TRUE)
      BY <1>6, <2>3 DEF UpdateEvent
    <3>2. ASSUME IsEvent(e) PROVE es \in Seq(Event)
      <4>1. Copy[i + 1].bg \in BOOLEAN /\ Copy[i + 1].p \in Placement
        BY <1>3, <2>1, <2>3 DEF Event
      <4>2. e \in [bg : BOOLEAN, p : Placement]
        BY <4>1 DEF Merged
      <4>3. e \in Event
        BY <3>2, <4>2 DEF Event
      <4> HIDE DEF e
      <4>. QED  BY <1>1, <1>3, <2>1, <2>3, <4>3, ExceptSeq
    <3> HIDE DEF e, es
    <3>. QED  BY <2>1, <3>1, <3>2
  <2>. QED  BY <2>2, <2>3
<1>7. ASSUME NEW from, NEW to \in Int, MoveEvent(from, to)
      PROVE  Patching /\ ((\E es \in Seq(Event) : Becomes(es)) \/ Fail("index", TRUE))
  <2>1. Patching
    BY <1>7 DEF MoveEvent
  <2>2. CASE ~InRange(from)
    BY <1>7, <2>1, <2>2 DEF MoveEvent
  <2>3. CASE InRange(from)
    <3> DEFINE rest == RemoveAt(Copy, from + 1)
               at == IF to < Len(rest) THEN to ELSE Len(rest)
    <3>1. Becomes(Inserted(rest, at, Copy[from + 1]))
      BY <1>7, <2>3 DEF MoveEvent
    <3>2. rest \in Seq(Event) /\ Len(rest) \in Nat /\ Copy[from + 1] \in Event
      BY <1>1, <1>3, <2>1, <2>3, RemovedIsPlan
    <3>3. at \in Int
      BY <3>2
    <3> HIDE DEF at, rest
    <3>4. Inserted(rest, at, Copy[from + 1]) \in Seq(Event)
      BY <3>2, <3>3, InsertedIsPlan
    <3>. QED  BY <2>1, <3>1, <3>4
  <2>. QED  BY <2>2, <2>3
<1>8. ASSUME NEW e \in Offered, ReplaceEvents(e)
      PROVE  Patching /\ \E es \in Seq(Event) : Becomes(es)
  <2>1. <<e>> \in Seq(Event)
    BY <1>2
  <2>. QED  BY <1>8, <2>1 DEF ReplaceEvents
<1>9. CASE \E e \in Offered, after \in (-2)..(Len(Copy) - 1) \cup {None} : AddEvent(e, after)
  BY <1>4, <1>9
<1>10. CASE \E i \in (-1)..Len(Copy) : RemoveEvent(i)
  BY <1>5, <1>10
<1>11. CASE \E i \in (-1)..Len(Copy), bg \in BOOLEAN : UpdateEvent(i, bg, None)
  BY <1>6, <1>11
<1>12. CASE \E i \in (-1)..Len(Copy), p \in {e.p : e \in Offered} : UpdateEvent(i, None, p)
  BY <1>2, <1>6, <1>12
<1>13. CASE \E from, to \in (-1)..Len(Copy) : MoveEvent(from, to)
  <2>1. PICK from, to \in (-1)..Len(Copy) : MoveEvent(from, to)
    BY <1>13
  <2>2. Patching
    BY <2>1 DEF MoveEvent
  <2>3. to \in Int
    BY <1>1, <2>2
  <2>. QED  BY <1>7, <2>1, <2>3
<1>14. CASE \E e \in Offered : ReplaceEvents(e)
  BY <1>8, <1>14
<1>. QED  BY <1>9, <1>10, <1>11, <1>12, <1>13, <1>14 DEF Op
----------------------------------------------------------------------------
(* Type correctness, and the timebox is a schedule of the plan *)

\* A patch that is being applied has not failed yet.
NoFailureYet == phase = "apply" => feedback = None

Inv == TypeOK /\ TimeboxIsSchedule /\ NoFailureYet

LEMMA FailKeepsTypes ==
  ASSUME TypeOK, phase # "idle", NEW error \in {"answer", "index", "event", "plan"},
         NEW retryable \in BOOLEAN, Fail(error, retryable)
  PROVE  TypeOK'
<1>1. /\ feedback' = error /\ draft' = <<>> /\ plan' = plan /\ timebox' = timebox
      /\ \/ attempt < MaxAttempts /\ phase' = "ask" /\ attempt' = attempt + 1
         \/ phase' = "idle" /\ attempt' = 0
  BY DEF Fail
<1>2. MaxAttempts \in Nat /\ MaxEvents \in Nat
  BY PlanPatchAssumption
<1>3. attempt' \in 0..MaxAttempts /\ phase' \in {"idle", "ask"} /\ (attempt' = 0 <=> phase' = "idle")
  BY <1>1, <1>2 DEF TypeOK
<1>4. draft' \in Seq(Event) /\ Len(draft') <= MaxEvents
  BY <1>1, <1>2
<1>. QED  BY <1>1, <1>3, <1>4 DEF TypeOK, Indexes

LEMMA BecomesKeepsTypes ==
  ASSUME TypeOK, Patching, NEW es \in Seq(Event), Becomes(es)
  PROVE  TypeOK'
<1>1. /\ Len(es) <= MaxEvents /\ draft' = es /\ phase' = "apply" /\ feedback' = None
      /\ plan' = plan /\ timebox' = timebox /\ attempt' = attempt
  BY DEF Becomes
<1>2. attempt # 0
  BY DEF TypeOK, Patching
<1>. QED  BY <1>1, <1>2 DEF TypeOK, Indexes

LEMMA InitInv ==
  ASSUME Init PROVE Inv
<1>1. PICK cal \in Calendars : plan = SeedPlan(cal)
  BY DEF Init
<1>2. plan \in Seq(Event) /\ Len(plan) <= MaxEvents
  BY <1>1, SeedPlanIsPlan
<1>3. draft \in Seq(Event) /\ Len(draft) <= MaxEvents
  BY PlanPatchAssumption DEF Init
<1>4. attempt = 0 /\ attempt \in 0..MaxAttempts
  BY PlanPatchAssumption DEF Init
<1>. QED  BY <1>2, <1>3, <1>4 DEF Init, Inv, TypeOK, TimeboxIsSchedule, NoFailureYet

LEMMA StepTypes ==
  ASSUME TypeOK, Next PROVE TypeOK'
<1>1. ASSUME NEW cal \in Calendars, TakeDraft(cal) PROVE TypeOK'
  <2>1. plan' \in Seq(Event) /\ Len(plan') <= MaxEvents
    BY <1>1, SeedPlanIsPlan DEF TakeDraft
  <2>. QED  BY <1>1, <2>1 DEF TakeDraft, TypeOK
<1>2. CASE Materialise
  <2>1. timebox' \in [Indexes(plan) -> Slot]
    BY <1>2, ConvertsToSchedule DEF Materialise, TypeOK
  <2>. QED  BY <1>2, <2>1 DEF Materialise, TypeOK, Indexes
<1>3. CASE Request
  <2>1. attempt' = 1 /\ 1 \in 0..MaxAttempts
    BY <1>3, PlanPatchAssumption DEF Request
  <2>. QED  BY <1>3, <2>1 DEF Request, TypeOK, Indexes
<1>4. ASSUME NEW retryable \in BOOLEAN, NoPatch(retryable) PROVE TypeOK'
  BY <1>4, FailKeepsTypes DEF NoPatch
<1>5. CASE Op
  <2>1. Patching /\ phase # "idle"
    BY <1>5, OpSteps DEF Patching
  <2>2. ASSUME NEW es \in Seq(Event), Becomes(es) PROVE TypeOK'
    BY <2>1, <2>2, BecomesKeepsTypes
  <2>3. ASSUME NEW error \in {"index", "event"}, Fail(error, TRUE) PROVE TypeOK'
    BY <2>1, <2>3, FailKeepsTypes
  <2>. QED  BY <1>5, <2>2, <2>3, OpSteps
<1>6. CASE Finish
  <2>1. CASE Anchored(draft) /\ Converts(draft)
    <3>1. /\ plan' = draft /\ timebox' = Resolve(draft) /\ phase' = "idle" /\ draft' = <<>>
          /\ attempt' = 0 /\ feedback' = feedback
      BY <1>6, <2>1 DEF Finish
    <3>2. Resolve(draft) \in [Indexes(draft) -> Slot]
      BY <2>1, ConvertsToSchedule DEF TypeOK
    <3>3. draft' \in Seq(Event) /\ Len(draft') <= MaxEvents /\ 0 \in 0..MaxAttempts
      BY <3>1, PlanPatchAssumption
    <3>. QED  BY <3>1, <3>2, <3>3 DEF TypeOK, Indexes
  <2>2. CASE ~(Anchored(draft) /\ Converts(draft))
    <3>1. Fail("plan", TRUE) /\ phase # "idle"
      BY <1>6, <2>2 DEF Finish
    <3>. QED  BY <3>1, FailKeepsTypes
  <2>. QED  BY <2>1, <2>2
<1>. QED  BY <1>1, <1>2, <1>3, <1>4, <1>5, <1>6 DEF Next

LEMMA StepSchedule ==
  ASSUME Inv, Next PROVE TimeboxIsSchedule'
<1>1. ASSUME plan' = plan, timebox' = timebox PROVE TimeboxIsSchedule'
  BY <1>1 DEF Inv, TimeboxIsSchedule
<1>2. ASSUME NEW cal \in Calendars, TakeDraft(cal) PROVE TimeboxIsSchedule'
  BY <1>2 DEF TakeDraft, TimeboxIsSchedule
<1>3. CASE Materialise
  BY <1>3, ConvertsToSchedule DEF Materialise, Inv, TypeOK, TimeboxIsSchedule
<1>4. CASE Request
  BY <1>1, <1>4 DEF Request
<1>5. ASSUME NEW retryable \in BOOLEAN, NoPatch(retryable) PROVE TimeboxIsSchedule'
  BY <1>1, <1>5 DEF NoPatch, Fail
<1>6. CASE Op
  BY <1>1, <1>6, OpSteps DEF Inv, Becomes, Fail
<1>7. CASE Finish
  <2>1. CASE Anchored(draft) /\ Converts(draft)
    <3>1. plan' = draft /\ timebox' = Resolve(draft)
      BY <1>7, <2>1 DEF Finish
    <3>2. Schedule(draft, Resolve(draft))
      BY <2>1, ConvertsToSchedule DEF Inv, TypeOK
    <3>. QED  BY <3>1, <3>2 DEF TimeboxIsSchedule
  <2>2. CASE ~(Anchored(draft) /\ Converts(draft))
    BY <1>1, <1>7, <2>2 DEF Finish, Fail
  <2>. QED  BY <2>1, <2>2
<1>. QED  BY <1>2, <1>3, <1>4, <1>5, <1>6, <1>7 DEF Next

LEMMA StepFeedback ==
  ASSUME Inv, Next PROVE NoFailureYet'
<1>1. CASE Op
  BY <1>1, OpSteps DEF Inv, NoFailureYet, Becomes, Fail
<1>2. CASE ~Op
  BY <1>2 DEF Inv, NoFailureYet, Next, TakeDraft, Materialise, Request, NoPatch, Finish, Fail
<1>. QED  BY <1>1, <1>2

LEMMA Inductive == Inv /\ [Next]_vars => Inv'
<1>1. Inv /\ Next => Inv'
  BY StepTypes, StepSchedule, StepFeedback DEF Inv
<1>2. Inv /\ UNCHANGED vars => Inv'
  BY DEF Inv, vars, TypeOK, TimeboxIsSchedule, NoFailureYet, Indexes
<1>. QED  BY <1>1, <1>2

\* Whatever operations a model puts into its patches, the draft and the plan
\* stay sequences of valid events (apply_tb_ops), and the timebox has one slot
\* for each event of the plan.
THEOREM TypeCorrect == Spec => []TypeOK
<1>1. Inv => TypeOK
  BY DEF Inv
<1>. QED  BY InitInv, Inductive, <1>1, PTL DEF Spec

\* For a plan of any length, a day of any length and any patches: the timebox
\* the user reviews is where every placement of the plan says, and no two of
\* its events overlap unless one between them runs past midnight
\* (TBPlan.resolve_times, Timebox.schedule_and_validate).
THEOREM TimeboxCorrect == Spec => []TimeboxIsSchedule
<1>1. Inv => TimeboxIsSchedule
  BY DEF Inv
<1>. QED  BY InitInv, Inductive, <1>1, PTL DEF Spec

\* A plan with a schedule among the candidates is open or converts.
LEMMA Schedulable ==
  ASSUME NEW es \in Seq(Event), NEW s \in Candidates(es), Schedule(es, s), ~Open(es)
  PROVE  Converts(es)
<1>1. s \in [Indexes(es) -> Slot]
  <2>1. PICK start \in [Indexes(es) -> Times] :
          s = [i \in Indexes(es) |->
                 [st |-> start[i],
                  et |-> IF es[i].p.a = "fw" THEN es[i].p.et ELSE (start[i] + es[i].p.dur) % Day]]
    BY DEF Candidates
  <2>2. ASSUME NEW i \in Indexes(es)
        PROVE  (IF es[i].p.a = "fw" THEN es[i].p.et ELSE (start[i] + es[i].p.dur) % Day) \in Times
    <3>1. CASE es[i].p.a = "fw"
      BY <3>1, Placements
    <3>2. CASE es[i].p.a # "fw"
      <4>1. es[i].p.dur \in Durations /\ start[i] \in Times
        BY <3>2, Placements
      <4>2. start[i] + es[i].p.dur \in Int
        BY <4>1, PlanPatchAssumption DEF Times, Durations
      <4>. QED  BY <3>2, <4>2, Clock
    <3>. QED  BY <3>1, <3>2
  <2>. QED  BY <2>1, <2>2 DEF Slot
<1>2. Resolvable(es) /\ s = Resolve(es)
  BY <1>1, PlacedOnce DEF Schedule
<1>3. \A k \in Indexes(es) : k \in Int
  BY DEF Indexes
<1>4. ASSUME NEW among, among \subseteq Indexes(es), InOrder(s, among) PROVE NoClash(s, among)
  <2>. SUFFICES ASSUME NEW i \in among, NEW j \in among, i < j,
                       \A k \in among : k <= i \/ j <= k
       PROVE s[i].et <= s[j].st
    BY DEF NoClash
  <2>1. \A k \in among : ~(i < k /\ k < j)
    BY <1>3, <1>4
  <2>. QED  BY <1>4, <2>1 DEF InOrder
<1>5. NoClash(s, Indexes(es)) /\ NoClash(s, Chain(es))
  BY <1>4 DEF Schedule, Chain
<1>. QED  BY <1>2, <1>5 DEF Converts

\* The patcher gives a plan back to the model as wrong only if its chain has no
\* anchor, if it leaves a time open between an event placed before the next one
\* and an event placed after the previous one, or if no choice of times is a
\* schedule of it (TimeboxPatcher.apply_patch).
THEOREM RejectionsCorrect == Spec => RejectsOnlyUnschedulable
<1>1. ASSUME Inv, [Next]_vars
      PROVE [phase = "apply" /\ feedback' = "plan" =>
               ~Anchored(draft) \/ Open(draft)
               \/ \A s \in Candidates(draft) : ~Schedule(draft, s)]_vars
  <2>0. SUFFICES ASSUME Next, phase = "apply", feedback' = "plan"
        PROVE ~Anchored(draft) \/ Open(draft) \/ \A s \in Candidates(draft) : ~Schedule(draft, s)
    BY <1>1
  <2>1. ASSUME Op PROVE FALSE
    BY <1>1, <2>0, <2>1, OpSteps, PlanPatchAssumption DEF Inv, Becomes, Fail
  <2>2. Finish
    BY <2>0, <2>1 DEF Next, TakeDraft, Materialise, Request, NoPatch
  <2>3. CASE ~Anchored(draft)
    BY <2>3
  <2>4. CASE ~Converts(draft)
    BY <1>1, <2>4, Schedulable DEF Inv, TypeOK
  <2>5. CASE Anchored(draft) /\ Converts(draft)
    <3>1. phase' = "idle" /\ feedback' = feedback
      BY <2>2, <2>5 DEF Finish
    <3>. QED  BY <1>1, <2>0, <3>1, PlanPatchAssumption DEF Inv, NoFailureYet
  <2>. QED  BY <2>3, <2>4, <2>5
<1>. QED  BY <1>1, InitInv, Inductive, PTL DEF Spec, RejectsOnlyUnschedulable
=============================================================================
