---------------------------- MODULE MCPlanPatch ----------------------------
(* A day of six units: a block, a meeting, a background window, a block that *)
(* runs past midnight, and blocks placed after and before their neighbours.  *)
EXTENDS PlanPatch

At(st, dur) == [bg |-> FALSE, p |-> [a |-> "fs", st |-> st, dur |-> dur]]
Window(bg, st, et) == [bg |-> bg, p |-> [a |-> "fw", st |-> st, et |-> et]]
Flow(a, dur) == [bg |-> FALSE, p |-> [a |-> a, dur |-> dur]]
Busy(bg, st, et, dur) == [bg |-> bg, st |-> st, et |-> et, dur |-> dur]

MCFocusBlock == At(1, 2)
MCOffered == {At(1, 2), Window(FALSE, 4, 5), Flow("ap", 1), Flow("bn", 1)}
MCCalendars == {
  <<>>,
  <<Busy(TRUE, 4, 5, None), Busy(FALSE, 4, 5, 1)>>,
  <<Busy(FALSE, 4, 5, None), Busy(FALSE, 5, 1, 2)>> }
=============================================================================
