------------------------------ MODULE MCAlerts ------------------------------
(* Settings for the runs over Alerts. *)
EXTENDS Alerts

CONSTANTS k1, k2

\* An immediate alert, one with a delay, one with reminders, and new errors.
EverySetting ==
    {[event |-> FALSE, delay |-> 0, repeat |-> 0],
     [event |-> FALSE, delay |-> 1, repeat |-> 0],
     [event |-> FALSE, delay |-> 0, repeat |-> 1],
     [event |-> TRUE,  delay |-> 0, repeat |-> 0]}

Immediate == {[event |-> FALSE, delay |-> 0, repeat |-> 0]}
=============================================================================
