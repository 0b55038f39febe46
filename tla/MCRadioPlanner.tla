--------------------------- MODULE MCRadioPlanner ---------------------------
(* Small instances of RadioPlanner: the tasks each hook's owner enqueues.   *)
EXTENDS RadioPlanner

Task(h, type, state, due, dur, low) ==
    [h |-> h, type |-> type, state |-> state, due |-> due, dur |-> dur, low |-> low]

\* Three hooks: 0 a class A reception at a fixed time, 1 an uplink as
\* soon as possible or a ping slot of low priority, 2 a class C reception.
\* Operations last longer than the margin, as every time on air does.
ClassOffers ==
    { Task(0, "RX", "SCHEDULE", 4, 3, FALSE),
      Task(1, "TX", "ASAP", 0, 4, FALSE), Task(1, "RX", "SCHEDULE", 5, 3, TRUE),
      Task(2, "RX", "ASAP", 0, 3, FALSE) }
ClassAborters == {0}

\* Two hooks that keep each other off the radio: scheduled receptions of hook 0
\* against uplinks of hook 1 that fit before none of them.
StarvingOffers ==
    { Task(0, "RX", "SCHEDULE", 4, 3, FALSE), Task(0, "TX", "ASAP", 0, 3, FALSE),
      Task(1, "TX", "ASAP", 0, 4, FALSE) }

=============================================================================
