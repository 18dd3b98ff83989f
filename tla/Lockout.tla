------------------------------ MODULE Lockout ------------------------------
(***************************************************************************)
(* The lockout over time: the attempts on record, the window the policy    *)
(* looks back, the hourly purge (lockout.rs, store.rs, retention.rs).      *)
(* Accounts has the handlers, within one window; here logins come one      *)
(* after the other, at their times.                                        *)
(*                                                                         *)
(* The queries compare the texts of times.  chrono writes a fraction of a  *)
(* second in as many groups of digits as it needs, none for a whole        *)
(* second, and then the offset.  Times count quarters of a second; a group *)
(* is one binary digit and there are two.                                  *)
(***************************************************************************)
EXTENDS Accounts, SequencesExt

Window == 4   \* LockoutPolicy.window, in quarters of a second
Cooldown == 4 \* LockoutPolicy.cooldown
Keep == 7     \* how long retention keeps an attempt; longer than the window

----------------------------------------------------------------------------
\* Characters, as bytes.
Plus == 43
Dot == 46
Digit(d) == 48 + d

Fraction(t) ==
  CASE t % 4 = 0 -> <<>>
    [] t % 4 = 2 -> <<Dot, Digit(1)>>
    [] OTHER     -> <<Dot, Digit((t % 4) \div 2), Digit(1)>>

\* Variant: the offset written as a Z.
TextEndingInZ(t) == <<t \div 4>> \o Fraction(t) \o <<90>>

\* to_rfc3339: what comes before the fraction has a fixed width.
Text(t) == <<t \div 4>> \o Fraction(t) \o <<Plus>>

\* a < b, character by character.
Below(a, b) ==
  \E k \in DOMAIN b :
    /\ k <= Len(a) + 1
    /\ SubSeq(a, 1, k - 1) = SubSeq(b, 1, k - 1)
    /\ k > Len(a) \/ a[k] < b[k]

----------------------------------------------------------------------------
NoName == "none" \* username IS NULL

\* A row of auth_attempts.  A table of them is a function of their ids, which
\* are never used again (AUTOINCREMENT).
Attempt(user, ip, at, success) ==
  [user |-> user, ip |-> ip, at |-> at, success |-> success]

\* Variant: failures count for ever.
FailuresEver(rows, column, who, since) ==
  Cardinality({i \in DOMAIN rows : rows[i].success = FALSE /\ rows[i][column] = who})

\* count_recent_failures_for_username, _for_ip: the column is "user" or "ip".
Failures(rows, column, who, since) ==
  Cardinality({i \in DOMAIN rows :
    /\ rows[i].success = FALSE
    /\ rows[i][column] = who
    /\ ~Below(Text(rows[i].at), Text(since))})

\* The check at the head of handle_login, and of handle_setup, which has no name.
Refuses(rows, login) ==
  Blocked(IF login.user = NoName THEN 0
            ELSE Failures(rows, "user", login.user, login.at - Window),
          Failures(rows, "ip", login.ip, login.at - Window))

\* prune_auth_attempts_older_than
Pruned(rows, at) ==
  Restrict(rows, {i \in DOMAIN rows : ~Below(Text(rows[i].at), Text(at - Keep))})

\* record_attempt
Inserted(rows, id, row) ==
  [i \in DOMAIN rows \cup {id} |-> IF i = id THEN row ELSE rows[i]]

\* The time, the table, all rows there ever were, by id, and the logins that
\* were refused with the table each met.
Start(at) == [at |-> at, rows |-> <<>>, ever |-> <<>>, refused |-> {}]

\* handle_login, or handle_setup with a wrong token: a row for the attempt,
\* unless it is refused.
Login(state, login) ==
  IF Refuses(state.rows, login)
    THEN [state EXCEPT !.refused = @ \cup {[login |-> login, met |-> state.rows]}]
    ELSE [state EXCEPT !.rows = Inserted(@, Len(state.ever) + 1, login),
                       !.ever = Append(@, login)]

\* The hourly tick of the retention task.
Prune(state) == [state EXCEPT !.rows = Pruned(@, state.at)]

----------------------------------------------------------------------------
(***************************************************************************)
(* What the policy promises, of every state logins and ticks lead to.      *)
(***************************************************************************)

\* The failures of who within a window from the i-th row on, both ends in it.
InWindowFrom(rows, i, column, who) ==
  {j \in i .. Len(rows) : /\ rows[j].success = FALSE
                          /\ rows[j][column] = who
                          /\ rows[j].at <= rows[i].at + Window}

\* In no window do more passwords fail than the thresholds allow.
WindowsHold(state) ==
  \A i \in DOMAIN state.ever :
    /\ \A u \in Users \ {NoName} :
         Cardinality(InWindowFrom(state.ever, i, "user", u)) <= UserThreshold
    /\ \A ip \in Ips :
         Cardinality(InWindowFrom(state.ever, i, "ip", ip)) <= IpThreshold

\* Whoever is refused and waits out Retry-After is let through.
WaitingHelps(state) ==
  \A r \in state.refused :
    ~Refuses(r.met, [r.login EXCEPT !.at = @ + Cooldown + 1])
============================================================================
