---------------------------- MODULE MCPipeline ----------------------------
(***************************************************************************)
(* Small instances of Pipeline for TLC.                                    *)
(***************************************************************************)
EXTENDS Pipeline

CONSTANTS h1, h2, p1, p2, f1, f2, e1, e2, e3

OneHandler == {h1}
TwoHandlers == {h1, h2}
OneProject == {p1}
TwoProjects == {p1, p2}
OneFp == {f1}
TwoFps == {f1, f2}
TwoEvents == {e1, e2}
ThreeEvents == {e1, e2, e3}

\* e1 and e2 are occurrences of one error, e3 of another.
MCFpOf == [e \in EventIds |-> IF e = e3 THEN f2 ELSE f1]
SameFpOf == [e \in EventIds |-> f1]

\* Budgets, one per run.
IngestBudget == [event |-> 4, triage |-> 1, abort |-> 1, admin |-> 0,
                 rollback |-> 1, crash |-> 0]
ConsoleBudget == [event |-> 2, triage |-> 1, abort |-> 1, admin |-> 2,
                  rollback |-> 1, crash |-> 1]
LiveBudget == [event |-> 3, triage |-> 0, abort |-> 1, admin |-> 0,
               rollback |-> 1, crash |-> 1]
============================================================================
