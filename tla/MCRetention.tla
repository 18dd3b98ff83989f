---------------------------- MODULE MCRetention ----------------------------
(***************************************************************************)
(* Small instances of Retention for TLC.                                   *)
(***************************************************************************)
EXTENDS Retention

CONSTANTS p1, p2, f1, f2, e1, e2, e3, e4

TwoProjects == {p1, p2}
TwoFps == {f1, f2}
FourEvents == {e1, e2, e3, e4}

\* e1 and e2 are occurrences of one error, e3 of another in the same project,
\* e4 of an error of another project.
MCFpOf == [e \in EventIds |-> IF e = e3 THEN f2 ELSE f1]

MCPosts == {[eid |-> e, project |-> IF e = e4 THEN p2 ELSE p1] : e \in EventIds}

Limits(e, i, d) == [events |-> e, issues |-> i, days |-> d]

\* Two limits that leave purges out, all three, an age that cannot be
\* subtracted from now, and a body that is refused.
MCRequests ==
  {Limits(0, 1, 0), Limits(1, 1, 1), Limits(1, 0, 9), Limits(0, 0, -1)}

SweepBudget == [event |-> 2, settings |-> 1, failure |-> 1]
============================================================================
