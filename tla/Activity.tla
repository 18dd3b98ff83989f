------------------------------ MODULE Activity ------------------------------
(***************************************************************************)
(* activity_stats (store.rs): a project's last 24 hours, by the texts that *)
(* stand for times.  received_at is written by SQLite (CURRENT_TIMESTAMP,  *)
(* "2026-04-28 09:30:00"), the cutoff by chrono                            *)
(* ("2026-04-28T09:30:00+00:00"); the query compares texts, and the blank  *)
(* sorts below the T.                                                      *)
(*                                                                         *)
(* Times are hours.                                                        *)
(***************************************************************************)
EXTENDS Integers, FiniteSets

Hours == 24

\* A text: its date, its separator and what follows, with an offset or not.
TextOf(t, separator, offset) ==
  [date |-> t \div Hours, separator |-> separator, hour |-> t % Hours,
   offset |-> offset]

Blank == 32
LetterT == 84

\* DEFAULT (CURRENT_TIMESTAMP)
StoredText(t) == TextOf(t, Blank, FALSE)

\* to_rfc3339
Rfc3339(t) == TextOf(t, LetterT, TRUE)

\* a >= b, character by character.
NotBefore(a, b) ==
  \/ a.date > b.date
  \/ a.date = b.date /\ a.separator > b.separator
  \/ a.date = b.date /\ a.separator = b.separator /\ a.hour >= b.hour

\* parse_from_rfc3339 takes no text without an offset.
Parses(text) == text.offset

\* The rows of WHERE received_at >= cutoff; a row is [issue, at].
InWindow(rows, now) ==
  {r \in rows : NotBefore(StoredText(r.at), Rfc3339(now - Hours))}

\* The newest event's time, or now where it does not parse; none without rows.
LastEventAt(rows, now) ==
  {IF Parses(StoredText(r.at)) THEN r.at ELSE now :
     r \in {x \in rows : \A y \in rows : x.at >= y.at}}

\* Bucket n of the 24: what came in 23 - n hours ago.
Bucket(rows, now, n) ==
  {r \in InWindow(rows, now) : /\ Parses(StoredText(r.at))
                               /\ 23 - (now - r.at) = n}

ActivityStats(rows, now) ==
  [events24h |-> Cardinality(InWindow(rows, now)),
   uniqueIssues24h |-> Cardinality({r.issue : r \in InWindow(rows, now)}),
   lastEventAt |-> LastEventAt(rows, now),
   hourlyBuckets |-> [n \in 0 .. 23 |-> Cardinality(Bucket(rows, now, n))]]

=============================================================================
