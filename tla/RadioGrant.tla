----------------------------- MODULE RadioGrant -----------------------------
(***************************************************************************)
(* What the radio planner promises the owners of its hooks, with time,      *)
(* ranks, callbacks and interrupts left out: requests for one radio that is *)
(* granted to one hook at a time, may be taken from it by another, and whose*)
(* loser is aborted and told so before its request is closed.               *)
(* RadioPlanner implements it (RadioPlanner!ImplementsGrant).               *)
(***************************************************************************)
CONSTANT Hooks

VARIABLE phase      \* hook -> "idle", "waiting", "running" or "aborted"

Set(S, p) == [h \in Hooks |-> IF h \in S THEN p ELSE phase[h]]
In(p) == {h \in Hooks : phase[h] = p}

Init == phase = [h \in Hooks |-> "idle"]

\* An owner asks for the radio, which it does not hold; a new request replaces
\* an older one that is not granted.
Request(h) == phase[h] # "running" /\ phase' = Set({h}, "waiting")

\* Requests are given up: too late, out-ranked, or aborted by their owners.
GiveUp(S) == S # {} /\ S \subseteq In("waiting") /\ phase' = Set(S, "aborted")

\* The radio is granted to h; whoever held it is aborted, and so are requests
\* that are too late.
Grant(S, h) ==
    /\ S \subseteq In("waiting") \ {h} /\ h \in In("waiting")
    /\ phase' = [Set(S \cup In("running"), "aborted") EXCEPT ![h] = "running"]

\* An interrupt or its owner ends the request h: its operation is over, or it
\* was the last to use the radio and waits to use it again.
Complete(h) == phase[h] \in {"running", "waiting"} /\ phase' = Set({h}, "idle")

\* The owner of an aborted request is told.
Report(h) == phase[h] = "aborted" /\ phase' = Set({h}, "idle")

Next ==
    \/ \E h \in Hooks : Request(h) \/ Complete(h) \/ Report(h)
    \/ \E S \in SUBSET Hooks : GiveUp(S) \/ \E h \in Hooks : Grant(S, h)

Spec == Init /\ [][Next]_phase

\* The radio serves one hook at a time.
Exclusive == \A g, h \in Hooks : phase[g] = "running" /\ phase[h] = "running" => g = h

=============================================================================
