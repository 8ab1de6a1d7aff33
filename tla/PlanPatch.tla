----------------------------- MODULE PlanPatch -----------------------------
(* The plan of stage 4 and the patches that refine it: how the draft is      *)
(* taken from the calendar, how the typed operations of a model's patch      *)
(* change a copy of it, how placements relative to other events become       *)
(* times of the day, and which results are accepted as plan and timebox.     *)
(* A patch is applied without an await; its operations are steps here so     *)
(* that a patch may have any number of them.                                 *)
EXTENDS Integers, Sequences, SequencesExt

CONSTANTS
  Day,          \* units of time in a day
  Calendars,    \* what the calendar may hold: sequences of CalendarEvent
  FocusBlock,   \* the draft of a day without events
  Offered,      \* the events a model may write into a patch
  MaxEvents,    \* bound: events of a plan
  MaxAttempts,  \* TIMEBOX_PATCHER_MAX_ATTEMPTS
  None

Times == 0..(Day - 1)
Durations == 1..Day

Placement ==
  [a : {"ap", "bn"}, dur : Durations]
  \cup [a : {"fs"}, st : Times, dur : Durations]
  \cup [a : {"fw"}, st : Times, et : Times]

Fixed(p) == p.a \in {"fs", "fw"}

\* A background event has a fixed time (bg_needs_fixed).
IsEvent(e) == e.bg => Fixed(e.p)

Event == {e \in [bg : BOOLEAN, p : Placement] : IsEvent(e)}

CalendarEvent == [bg : BOOLEAN, st : Times, et : Times, dur : Durations \cup {None}]

Slot == [st : Times, et : Times]

ASSUME PlanPatchAssumption ==
  /\ Day \in Nat \ {0} /\ MaxEvents \in Nat /\ MaxAttempts \in Nat \ {0}
  /\ Offered \subseteq Event /\ FocusBlock \in Event /\ Fixed(FocusBlock.p)
  /\ \A c \in Calendars : c \in Seq(CalendarEvent) /\ Len(c) <= MaxEvents
  /\ MaxEvents > 0
  /\ None \notin {"answer", "index", "event", "plan"}

VARIABLES
  plan,      \* the session's tb_plan
  timebox,   \* the session's timebox, as slots; None before there is one
  phase,     \* "idle", "ask" (the model is asked), "apply" (its patch is applied)
  draft,     \* the events the patch has made so far
  attempt,   \* the attempt of apply_patch, 0 without one
  feedback   \* what the last attempt failed with

vars == <<plan, timebox, phase, draft, attempt, feedback>>
----------------------------------------------------------------------------
(* TBPlan.resolve_times and the checks of TBPlan and Timebox *)

Indexes(es) == 1..Len(es)
Chain(es) == {i \in Indexes(es) : ~es[i].bg}

\* chain_must_be_anchored
Anchored(es) == Chain(es) # {} => \E i \in Chain(es) : Fixed(es[i].p)

\* The forward pass skips the events before_next, so an event after_previous
\* needs another one before it, and an event before_next needs one after it.
Resolvable(es) ==
  /\ \A i \in Indexes(es) :
       es[i].p.a = "ap" => \E j \in 1..(i - 1) : es[j].p.a # "bn"
  /\ es # <<>> => Last(es).p.a # "bn"

\* last_end_dt after the first i events: a time of the planning date, whatever
\* day the event ends on.
LastEnds(es) ==
  LET end[i \in 0..Len(es)] ==
        IF i = 0 THEN None
        ELSE LET p == es[i].p IN
             CASE p.a = "ap" -> (end[i - 1] + p.dur) % Day
               [] p.a = "fs" -> (p.st + p.dur) % Day
               [] p.a = "fw" -> p.et
               [] p.a = "bn" -> end[i - 1]
  IN  end

\* The backward pass over the rest.
Starts(es) ==
  LET ends == LastEnds(es)
      start[i \in Indexes(es)] ==
        LET p == es[i].p IN
        IF Fixed(p) THEN p.st
        ELSE IF p.a = "ap" THEN ends[i - 1] ELSE (start[i + 1] - p.dur) % Day
  IN  start

\* resolve_times
Resolve(es) ==
  LET starts == Starts(es) ends == LastEnds(es)
  IN  [i \in Indexes(es) |->
         [st |-> starts[i],
          et |-> IF es[i].p.a = "bn" THEN starts[i + 1] ELSE ends[i]]]

\* Mutant: events that touch are rejected.
NoClashStrict(s, among) ==
  \A i, j \in among :
    i < j /\ (\A k \in among : k <= i \/ j <= k) => s[i].et < s[j].st

\* Neighbours among the events of a set do not overlap.
NoClash(s, among) ==
  \A i, j \in among :
    i < j /\ (\A k \in among : k <= i \/ j <= k) => s[i].et <= s[j].st

\* Mutant: the check is left to the timebox.
ConvertsOnce(es) == Resolvable(es) /\ NoClash(Resolve(es), Indexes(es))

\* tb_plan_to_timebox: the plan leaves background events out of the check, the
\* timebox made of it does not.
Converts(es) ==
  /\ Resolvable(es)
  /\ NoClash(Resolve(es), Chain(es))
  /\ NoClash(Resolve(es), Indexes(es))
----------------------------------------------------------------------------
(* The draft *)

\* timebox_to_tb_plan of one event: a window past midnight becomes a start and
\* a duration, if it has one.
FromCalendar(e) ==
  [bg |-> e.bg,
   p |-> IF e.dur # None /\ e.et <= e.st
         THEN [a |-> "fs", st |-> e.st, dur |-> e.dur]
         ELSE [a |-> "fw", st |-> e.st, et |-> e.et]]

\* _build_skeleton_seed_plan, which validates nothing.
SeedPlan(cal) ==
  IF cal = <<>> THEN <<FocusBlock>>
  ELSE [i \in DOMAIN cal |-> FromCalendar(cal[i])]

TakeDraft(cal) ==
  /\ phase = "idle"
  /\ plan' = SeedPlan(cal)
  /\ timebox' = None
  /\ UNCHANGED <<phase, draft, attempt, feedback>>

\* _materialize_timebox_from_tb_plan; a failure is an issue for the patcher.
Materialise ==
  /\ phase = "idle"
  /\ timebox = None
  /\ Converts(plan)
  /\ timebox' = Resolve(plan)
  /\ UNCHANGED <<plan, phase, draft, attempt, feedback>>
----------------------------------------------------------------------------
(* TimeboxPatcher.apply_patch *)

Request ==
  /\ phase = "idle"
  /\ phase' = "ask"
  /\ attempt' = 1
  /\ feedback' = None
  /\ UNCHANGED <<plan, timebox, draft>>

\* An attempt is over without a plan: the next one, if the error and the
\* number of attempts allow it, starts again from the session's plan.
Fail(error, retryable) ==
  /\ feedback' = error
  /\ draft' = <<>>
  /\ IF retryable /\ attempt < MaxAttempts
     THEN phase' = "ask" /\ attempt' = attempt + 1
     ELSE phase' = "idle" /\ attempt' = 0
  /\ UNCHANGED <<plan, timebox>>

\* No answer in time, none that parses, or a refusal worth no retry.
NoPatch(retryable) ==
  /\ phase = "ask"
  /\ Fail("answer", retryable)

\* apply_tb_ops works on a copy of the plan.
Patching == phase \in {"ask", "apply"}
Copy == IF phase = "ask" THEN plan ELSE draft

Becomes(es) ==
  /\ Len(es) <= MaxEvents
  /\ draft' = es
  /\ phase' = "apply"
  /\ feedback' = None
  /\ UNCHANGED <<plan, timebox, attempt>>

\* list.insert: a negative index counts from the end, and any index is good.
Inserted(es, i, e) ==
  LET n == Len(es)
      at == IF i < 0 THEN (IF n + i < 0 THEN 0 ELSE n + i)
            ELSE IF i > n THEN n ELSE i
  IN  InsertAt(es, at + 1, e)

InRange(i) == i \in 0..(Len(Copy) - 1)

\* One event of an "ae"; the others of it follow it, at the next indexes.
AddEvent(e, after) ==
  /\ Patching
  /\ Becomes(IF after = None THEN Append(Copy, e) ELSE Inserted(Copy, after + 1, e))

RemoveEvent(i) ==
  /\ Patching
  /\ IF InRange(i) THEN Becomes(RemoveAt(Copy, i + 1)) ELSE Fail("index", TRUE)

\* The fields a "ue" leaves out are the old event's.
Merged(e, bg, p) ==
  [bg |-> IF bg = None THEN e.bg ELSE bg, p |-> IF p = None THEN e.p ELSE p]

\* Mutant: the merged event is not validated again.
UpdateUnchecked(i, bg, p) ==
  /\ Patching
  /\ IF InRange(i) THEN Becomes([Copy EXCEPT ![i + 1] = Merged(@, bg, p)])
     ELSE Fail("index", TRUE)

UpdateEvent(i, bg, p) ==
  /\ Patching
  /\ IF ~InRange(i) THEN Fail("index", TRUE)
     ELSE LET e == Merged(Copy[i + 1], bg, p) IN
          IF IsEvent(e) THEN Becomes([Copy EXCEPT ![i + 1] = e]) ELSE Fail("event", TRUE)

MoveEvent(from, to) ==
  /\ Patching
  /\ IF InRange(from)
     THEN LET rest == RemoveAt(Copy, from + 1) IN
          Becomes(Inserted(rest, IF to < Len(rest) THEN to ELSE Len(rest), Copy[from + 1]))
     ELSE Fail("index", TRUE)

\* The first event of an "ra"; the others of it are added.
ReplaceEvents(e) ==
  /\ Patching
  /\ Becomes(<<e>>)

\* The patched plan is validated, then made a timebox; both are stored, or
\* neither.
Finish ==
  /\ phase = "apply"
  /\ IF Anchored(draft) /\ Converts(draft)
     THEN /\ plan' = draft
          /\ timebox' = Resolve(draft)
          /\ phase' = "idle"
          /\ draft' = <<>>
          /\ attempt' = 0
          /\ UNCHANGED feedback
     ELSE Fail("plan", TRUE)
----------------------------------------------------------------------------
Init ==
  /\ plan \in {SeedPlan(cal) : cal \in Calendars}
  /\ timebox = None
  /\ phase = "idle"
  /\ draft = <<>>
  /\ attempt = 0
  /\ feedback = None

\* Indexes of the copy, and the ones just outside.  An update of both fields is
\* one of each, in the order that keeps the event valid.
Op ==
  LET n == Len(Copy) IN
  \/ \E e \in Offered, after \in (-2)..(n - 1) \cup {None} : AddEvent(e, after)
  \/ \E i \in (-1)..n : RemoveEvent(i)
  \/ \E i \in (-1)..n :
       \/ \E bg \in BOOLEAN : UpdateEvent(i, bg, None)
       \/ \E p \in {e.p : e \in Offered} : UpdateEvent(i, None, p)
  \/ \E from, to \in (-1)..n : MoveEvent(from, to)
  \/ \E e \in Offered : ReplaceEvents(e)

Next ==
  \/ \E cal \in Calendars : TakeDraft(cal)
  \/ Materialise
  \/ Request
  \/ \E retryable \in BOOLEAN : NoPatch(retryable)
  \/ Op
  \/ Finish

Spec == Init /\ [][Next]_vars
----------------------------------------------------------------------------
(* The reference: what the placements of a plan ask for *)

\* Each event is where its placement says, in terms of the event next to it.
Placed(es, s) ==
  \A i \in Indexes(es) :
    LET p == es[i].p
        Lasts == s[i].et = (s[i].st + p.dur) % Day
    IN  CASE p.a = "ap" -> i > 1 /\ s[i].st = s[i - 1].et /\ Lasts
          [] p.a = "bn" -> i < Len(es) /\ s[i].et = s[i + 1].st /\ Lasts
          [] p.a = "fs" -> s[i].st = p.st /\ Lasts
          [] p.a = "fw" -> s[i] = [st |-> p.st, et |-> p.et]

\* Two events are in order unless one between them runs past midnight.
InOrder(s, among) ==
  \A i, j \in among :
    i < j /\ (\A k \in among : i < k /\ k < j => s[k].st <= s[k].et)
      => s[i].et <= s[j].st

Schedule(es, s) ==
  /\ Placed(es, s)
  /\ InOrder(s, Indexes(es))
  /\ InOrder(s, Chain(es))

\* A window's end is given, any other follows from the start.
Candidates(es) ==
  {[i \in Indexes(es) |->
      [st |-> start[i],
       et |-> IF es[i].p.a = "fw" THEN es[i].p.et ELSE (start[i] + es[i].p.dur) % Day]] :
     start \in [Indexes(es) -> Times]}

\* An event that ends at the next one's start and one that starts at the
\* previous one's end, side by side, leave each other's time open.
Open(es) == \E i \in 1..(Len(es) - 1) : es[i].p.a = "bn" /\ es[i + 1].p.a = "ap"

\* Every variable keeps its shape, and no merge of fields leaves a background
\* event without a fixed time.
TypeOK ==
  /\ plan \in Seq(Event) /\ Len(plan) <= MaxEvents
  /\ timebox = None \/ timebox \in [Indexes(plan) -> Slot]
  /\ phase \in {"idle", "ask", "apply"}
  /\ draft \in Seq(Event) /\ Len(draft) <= MaxEvents
  /\ attempt \in 0..MaxAttempts
  /\ (attempt = 0) = (phase = "idle")
  /\ feedback \in {None, "answer", "index", "event", "plan"}

\* Whatever patches led to it, the timebox the user reviews is a schedule of
\* the plan: after_previous starts when the event before it ends, before_next
\* ends when the next one starts, fixed times are kept, and no two events
\* overlap unless one runs past midnight (tb_models.py, timebox.py).
TimeboxIsSchedule == timebox # None => Schedule(plan, timebox)

\* The patcher sends a plan back to the model only if no event anchors it
\* (background events do not count, fixed or not), if it leaves a time open
\* between two neighbours that wait for each other's, or if no choice of times
\* is a schedule of it.  Plans of the first two kinds may have schedules and are
\* sent back all the same (tb_models.py:164-281, patching.py).
RejectsOnlyUnschedulable ==
  [][phase = "apply" /\ feedback' = "plan" =>
       ~Anchored(draft) \/ Open(draft)
       \/ \A s \in Candidates(draft) : ~Schedule(draft, s)]_vars
=============================================================================
