-------------------------- MODULE MCProjectConsole --------------------------
(***************************************************************************)
(* A small instance of ProjectConsole for TLC, and activity_stats over     *)
(* bounded inputs.                                                         *)
(***************************************************************************)
EXTENDS ProjectConsole, Activity, TLC

CONSTANTS p1, p2, e1, e2, f1, web1, web2, cli, hook

TwoProjects == {p1, p2}
TwoEvents == {e1, e2}
OneFingerprint == {f1}
SameFp == [e \in TwoEvents |-> f1]
TwoConsoles == {web1, web2}
OneCli == {cli}
OneUrl == {hook}
MCBudget == [call |-> 2, commit |-> 2, purge |-> 1]

\* Names, events and requests only meet in comparisons.
Symmetric == Permutations(TwoProjects) \cup Permutations(TwoEvents)
               \cup Permutations(TwoConsoles)

\* The initial states: where facts about pure operators are evaluated.
AtStart == spent = [kind \in Outside |-> 0]

\* Events of up to two issues over three days, one or two of them.
ActivityRows(now) ==
  {{[issue |-> 1, at |-> a], [issue |-> i, at |-> b]} :
     i \in {1, 2}, a \in {t \in 0 .. now : t % 5 = 0 \/ now - t <= 25}, b \in {now \div 2, now}}

\* activity_stats is a "24-hour activity rollup" (store.rs:965) whose newest hour
\* is the last of 24 buckets (1034): what came in during the last 24 hours is
\* counted, each event in the bucket of its hour, and the newest event's time is
\* its own.
LastDayReported ==
  AtStart =>
    \A now \in {48, 49, 60, 71} : \A received \in ActivityRows(now) :
      LET stats == ActivityStats(received, now)
          day == {r \in received : now - r.at <= Hours}
      IN  /\ stats.events24h = Cardinality(day)
          /\ stats.uniqueIssues24h = Cardinality({r.issue : r \in day})
          /\ stats.lastEventAt = {r.at : r \in {x \in received : \A y \in received : x.at >= y.at}}
          /\ \A n \in 0 .. 23 :
               stats.hourlyBuckets[n] = Cardinality({r \in day : now - r.at = 23 - n})
=============================================================================
