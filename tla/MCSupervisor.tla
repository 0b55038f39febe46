---------------------------- MODULE MCSupervisor ----------------------------
(* Instances of Supervisor for TLC: the services an application turns on, a few *)
(* at a time.                                                                  *)
EXTENDS Supervisor

Features == {{"ALARM", "FILE"}, {"ALARM", "STREAM"}, {"ALARM", "CLOCK"}, {"ALARM", "UPLINK"},
             {"CLASS_C", "DM"}, {"CLASS_C", "CLOCK"}, {"CLASS_C", "FILE", "MUTE"},
             {"CLASS_C", "UPLINK"}, {"FILE", "UPLINK"}, {"MUTE", "UPLINK"}, {"SUSPEND", "ALARM"},
             {"EXTENDED", "UPLINK"}, {"REQUEST", "ALARM"}}

\* A leave, from the callback of the alarm, while the answer to a join is awaited.
LeaveWhileJoining == {{"ALARM"}}

=============================================================================
