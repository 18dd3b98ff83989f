----------------------------- MODULE MCAccounts -----------------------------
(***************************************************************************)
(* Small instances of Accounts for TLC, and the lockout and a session over *)
(* time for bounded sequences of steps.                                    *)
(***************************************************************************)
EXTENDS Accounts, Lockout, SessionAge, TLC

CONSTANTS u1, u2, i1, r1, r2

TwoUsers == {u1, u2}
OneIp == {i1}
OneRequest == {r1}
TwoRequests == {r1, r2}

\* Users are only compared.
Symmetric == Permutations(TwoUsers)

\* Budgets, one per run.
TeamBudget == [setup |-> 1, login |-> 3, admin |-> 2, logout |-> 1, abort |-> 1]
DeactivationBudget == [setup |-> 1, login |-> 1, admin |-> 2, logout |-> 0, abort |-> 0]
RaceBudget == [setup |-> 1, login |-> 1, admin |-> 3, logout |-> 0, abort |-> 0]

----------------------------------------------------------------------------
\* The initial state: where facts about pure operators are evaluated.
AtStart == spent = [kind \in Outside |-> 0]

\* Wrong and right passwords of a user, a wrong setup token, a tick.
After(state) ==
  {Login(state, Attempt(u, i1, state.at, FALSE)) : u \in {u1, NoName}}
    \cup {Login(state, Attempt(u1, i1, state.at, TRUE)), Prune(state)}

\* Where n steps lead: the first at any fraction of a second, each other at the
\* same time as the one before, shortly after, or after a whole window.
Reached[n \in 1 .. 4] ==
  IF n = 1 THEN UNION {After(Start(at)) : at \in 8 .. 11}
  ELSE UNION {After([s EXCEPT !.at = @ + gap]) :
                s \in Reached[n - 1], gap \in {0, 1, 3, 5}}

\* What can happen to a session next, now or later.
Later(s) ==
  UNION {LET now == [s EXCEPT !.at = @ + gap] IN
         {LookUp(now), TouchSession(now), TouchFails(now), Purge(now)} :
           gap \in {0, 1, 2, 5, 7}}

\* Sessions after n steps, begun at any fraction of a second.
Aged[n \in 1 .. 4] ==
  IF n = 1 THEN UNION {Later(SignedIn(at)) : at \in 8 .. 11}
  ELSE UNION {Later(s) : s \in Aged[n - 1]}

\* Logins one after the other, with the purge at any moment: no window sees
\* more wrong passwords than the thresholds, by whatever texts the times are
\* compared, and who is refused and waits out Retry-After is let through
\* (auth.rs:303-326, lockout.rs:71-87, store.rs:1364-1418).  Sessions used and
\* purged at any moment: a row goes only when its cookie has expired, and does go
\* once it has been idle (auth.rs:152-169, retention.rs:106-115).
OverTime ==
  AtStart => /\ \A s \in UNION {Reached[n] : n \in 1 .. 4} :
                  WindowsHold(s) /\ WaitingHelps(s)
             /\ \A s \in UNION {Aged[n] : n \in 1 .. 4} :
                  PurgedIsExpired(s) /\ GhostsGo(s)
============================================================================
