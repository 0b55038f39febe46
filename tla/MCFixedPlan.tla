---------------------------- MODULE MCFixedPlan ----------------------------
(* Two banks of two channels and two wide ones; the higher wide rate is LR-FHSS. *)
EXTENDS FixedPlan, TLC

BackOff == 0 :> 0 @@ 1 :> 0 @@ 2 :> 1 @@ 3 :> 0
FirstBank == {{0, 1, 4}}
\* No channel at all, for a device that keeps its rate.
AllOff == {[about |-> Channels, on |-> {}, rate |-> Keep, fits |-> TRUE]}

=============================================================================
