------------------------------ MODULE MCAlerts ------------------------------
(***************************************************************************)
(* Small instances of Alerts for TLC.                                      *)
(***************************************************************************)
EXTENDS Alerts

CONSTANTS n1, n2, u1

TwoNames == {n1, n2}
OneUrl == {u1}

AlertsBudget == [event |-> 3, triage |-> 1, console |-> 4, error |-> 1, restart |-> 1]
============================================================================
