--------------------------- MODULE MCTimeboxSubmit ---------------------------
(* A day of half hours with one event of the user's own.  "work" shifts by   *)
(* less than its length, moves further, and occurs twice in a plan.          *)
EXTENDS TimeboxSubmit

CONSTANT lunch

E(n, st, et) == [n |-> n, st |-> st, et |-> et, d |-> ""]
D(n, st, et) == [n |-> n, st |-> st, et |-> et, d |-> "note"]

MCOthers == {lunch}
MCNames == {"work", "gym", "lunch"}
MCTimes == {0, 30, 60, 90, 120}
MCDetails == {"", "note"}
MCDay == {Entry(<<"other", lunch>>, E("lunch", 90, 120))}
MCPlans == {
  <<E("work", 0, 60), E("lunch", 90, 120)>>,
  <<E("gym", 0, 30), D("work", 30, 90)>>,
  <<E("lunch", 90, 120)>> }
MCTwicePlans == {
  <<E("work", 0, 60)>>,
  <<E("work", 30, 90)>>,
  <<E("work", 0, 30), E("work", 30, 60)>> }
MCUserSlots == {<<30, 90>>}

\* For racing handlers: one plan of two like events, after the user's own one.
MCRaceDay == {Entry(<<"other", lunch>>, E("lunch", 0, 30))}
MCRacePlans == {<<E("work", 30, 60), E("work", 60, 90)>>}
MCUnreadable == {<<>>}
=============================================================================
