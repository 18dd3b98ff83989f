---------------------------- MODULE MCLiveView ----------------------------
(***************************************************************************)
(* A small instance of LiveView for TLC.                                   *)
(***************************************************************************)
EXTENDS LiveView

CONSTANTS k1, k2

TwoSockets == {k1, k2}
Ids12 == 1 .. 2

ViewBudget == [change |-> 2, silent |-> 1, remove |-> 1, close |-> 1,
               restart |-> 1, connect |-> 1, leave |-> 1, any |-> 5]
============================================================================
