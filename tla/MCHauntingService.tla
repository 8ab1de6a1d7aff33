------------------------- MODULE MCHauntingService -------------------------
(* Small instances: two message ids, one topic, one user.  A task would be a *)
(* second topic by another name.                                            *)
EXTENDS HauntingService

MCSpecs ==
  { [should |-> TRUE, after |-> 1,    max |-> 1,    cancel |-> None],
    [should |-> TRUE, after |-> None, max |-> None, cancel |-> FALSE],
    [should |-> TRUE, after |-> 0,    max |-> 2,    cancel |-> TRUE] }

\* Three attempts: a record can be charged for another's dispatch and go on.
MCSettings ==
  { [enabled |-> TRUE, delay |-> 1, max |-> 3, cancel |-> TRUE],
    [enabled |-> FALSE, delay |-> 1, max |-> 1, cancel |-> FALSE] }
=============================================================================
