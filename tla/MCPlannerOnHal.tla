--------------------------- MODULE MCPlannerOnHal ---------------------------
(* Small instances of PlannerOnHal. *)
EXTENDS PlannerOnHal

Task(h, type, state, due, dur, low) ==
    [h |-> h, type |-> type, state |-> state, due |-> due, dur |-> dur, low |-> low]

\* Hook 0 owns the receptions and the uplinks of class A or the suspension,
\* hook 1 a reception that is preempted and enqueued again by its callback.
HalOffers ==
    { Task(0, "RX", "SCHEDULE", 4, 3, FALSE), Task(0, "TX", "ASAP", 0, 3, FALSE),
      Task(1, "RX", "ASAP", 0, 4, FALSE) }

\* Two hooks that use the types of task that rp_radio_irq and the launch callbacks
\* treat apart: hopping uplinks, CAD, listen before talk, skipped beacons; the
\* reception is due at once, so that its launch waits for the start.
TypeOffers ==
    { Task(0, "LBT", "ASAP", 0, 3, FALSE), Task(0, "NONE", "SCHEDULE", 3, 3, FALSE),
      Task(0, "CAD_TO_TX", "ASAP", 0, 3, FALSE), Task(1, "LR_FHSS", "ASAP", 0, 3, FALSE),
      Task(1, "RX", "SCHEDULE", 1, 1, FALSE) }
Suspension == { Task(0, "USER", "SCHEDULE", 2, 3, FALSE) }

=============================================================================
