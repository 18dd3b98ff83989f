----------------------------- MODULE SessionAge -----------------------------
(***************************************************************************)
(* A session over time: its row and its cookie (auth.rs, store.rs), and    *)
(* the hourly purge of idle rows (retention.rs).  Accounts counts sessions *)
(* and ends any of them at any time; here is when they end.                *)
(*                                                                         *)
(* The purge compares texts of times, as Lockout's queries do.  A request  *)
(* looks the row up and touches it in two calls; the purge may come        *)
(* between them, and the touch may fail.  The browser sends the cookie     *)
(* until its Max-Age is over; no answer to a request renews it.            *)
(***************************************************************************)
EXTENDS Lockout

MaxAge == 6 \* SESSION_TTL_SECS, in quarters of a second

\* Variant: the purge looks back less far than the cookie lives.
IdleTooShort == 4

IdleLimit == 6 \* the days retention's session_cutoff looks back

\* create_session, build_session_cookie.  The time, whether there is a row, its
\* last_seen_at, when the cookie expires, and whether a request has found the
\* row and not touched it yet.
SignedIn(at) ==
  [at |-> at, row |-> TRUE, seen |-> at, expires |-> at + MaxAge, found |-> FALSE]

\* session_for_id, for a browser that still has the cookie.
LookUp(s) == [s EXCEPT !.found = @ \/ (s.row /\ s.at < s.expires)]

\* touch_session: a row that is gone is no error.
TouchSession(s) ==
  IF s.found THEN [s EXCEPT !.found = FALSE, !.seen = IF s.row THEN s.at ELSE @] ELSE s

\* touch_session fails, which is only logged.
TouchFails(s) == [s EXCEPT !.found = FALSE]

\* purge_sessions_idle_since
Purge(s) ==
  [s EXCEPT !.row = @ /\ ~Below(Text(s.seen), Text(s.at - IdleLimit))]

----------------------------------------------------------------------------
\* retention.rs:107, "the browser would refuse the cookie at this point anyway":
\* a row is gone only once its cookie has expired, however often the session
\* was used.
PurgedIsExpired(s) == ~s.row => s.at >= s.expires

\* retention.rs:108, "evicting the row keeps the table from accumulating ghost
\* sessions": no row outlives a tick that has been idle for longer.
GhostsGo(s) == Purge(s).row => s.seen >= s.at - IdleLimit
=============================================================================
