------------------------------ MODULE IssueDb ------------------------------
(***************************************************************************)
(* The two tables the ingest path writes, `issues` and `events`, and the   *)
(* SQL statements of store.rs on them, as operators from a database value  *)
(* to a database value.  A transaction is a database value that a task     *)
(* works on in private and publishes at COMMIT; a statement outside a      *)
(* transaction is one operator application.                                *)
(*                                                                         *)
(* Titles, culprits, levels and payloads are left out: no statement below  *)
(* reads them.  A fingerprint is a function of the event (FpOf), the       *)
(* project is not: it comes from the URL the SDK posts to.                 *)
(***************************************************************************)
EXTENDS Naturals, Sequences, FiniteSets

CONSTANTS
  Projects,      \* project names
  Fingerprints,  \* values of fingerprint::derive
  EventIds,      \* SDK-side event UUIDs
  FpOf           \* FpOf[e]: the fingerprint of the event with id e

ASSUME FpOfAssumption == FpOf \in [EventIds -> Fingerprints]

Statuses == {"unresolved", "resolved", "muted", "ignored"}

\* A row of `issues`; first and last are first_seen and last_seen.
IssueRow == [project : Projects, fp : Fingerprints, status : Statuses,
             count : Nat \ {0}, first : Nat, last : Nat]

\* A row of `events`: the issue it hangs off and its rowid.
EventRow == [issue : Nat \ {0}, row : Nat]

\* What the ingest layer hands to the digest task (struct IngestEvent).
Rec == [eid : EventIds, project : Projects, at : Nat]

(***************************************************************************)
(* A database value.  issues maps the live ids to their rows, events the   *)
(* stored event ids (UNIQUE) to theirs; nextId and nextRow are the         *)
(* AUTOINCREMENT sequences, which never go back (a gap in them would change*)
(* nothing: ids are only compared).                                        *)
(***************************************************************************)
Db(issues, events, nextId, nextRow) ==
  [issues |-> issues, events |-> events, nextId |-> nextId, nextRow |-> nextRow]

NoRows == [x \in {} |-> x]

EmptyDb == Db(NoRows, NoRows, 1, 1)

Live(d) == DOMAIN d.issues

Stored(d) == DOMAIN d.events

\* The column values a reader may rely on.
DbTyped(d) ==
  /\ d = Db(d.issues, d.events, d.nextId, d.nextRow)
  /\ d.nextId \in Nat \ {0}
  /\ d.nextRow \in Nat \ {0}
  /\ Live(d) \subseteq 1 .. (d.nextId - 1)
  /\ d.issues \in [Live(d) -> IssueRow]
  /\ Stored(d) \subseteq EventIds
  /\ d.events \in [Stored(d) -> EventRow]

----------------------------------------------------------------------------
\* The function f with x mapped to v, x new or not.
Assign(f, x, v) == [y \in DOMAIN f \cup {x} |-> IF y = x THEN v ELSE f[y]]

\* The function f on S only.
Keep(f, S) == [y \in DOMAIN f \cap S |-> f[y]]

\* WHERE project = p AND fingerprint = f
WithKey(d, p, f) == {i \in Live(d) : d.issues[i].project = p /\ d.issues[i].fp = f}

\* WHERE project = p
OfProject(d, p) == {i \in Live(d) : d.issues[i].project = p}

\* The stored events of issue i.
EventsOf(d, i) == {e \in Stored(d) : d.events[e].issue = i}

----------------------------------------------------------------------------
(***************************************************************************)
(* One iteration of the loop of upsert_batch_with_events: INSERT the issue *)
(* ON CONFLICT DO NOTHING, else bump the row it conflicts with, reopening  *)
(* it when it was resolved; then INSERT the event ON CONFLICT DO NOTHING.  *)
(***************************************************************************)
NewIssue(r) ==
  [project |-> r.project, fp |-> FpOf[r.eid], status |-> "unresolved",
   count |-> 1, first |-> r.at, last |-> r.at]

Creates(d, r) == WithKey(d, r.project, FpOf[r.eid]) = {}

TargetId(d, r) ==
  IF Creates(d, r) THEN d.nextId
                   ELSE CHOOSE i \in WithKey(d, r.project, FpOf[r.eid]) : TRUE

Regresses(d, r) ==
  /\ ~Creates(d, r)
  /\ d.issues[TargetId(d, r)].status = "resolved"

\* Variant: any occurrence reopens an issue, muted and ignored ones included.
ReopenedAlways(status) == "unresolved"

Reopened(status) == IF status = "resolved" THEN "unresolved" ELSE status

\* Variant: a regression starts the count again.
BumpedFromOne(row, at) ==
  [row EXCEPT !.count = IF row.status = "resolved" THEN 1 ELSE @ + 1,
              !.last = at, !.status = Reopened(@)]

Bumped(row, at) ==
  [project |-> row.project, fp |-> row.fp, status |-> Reopened(row.status),
   count |-> row.count + 1, first |-> row.first, last |-> at]

TargetRow(d, r) ==
  IF Creates(d, r) THEN NewIssue(r) ELSE Bumped(d.issues[TargetId(d, r)], r.at)

EventsAfter(d, r) ==
  IF r.eid \in Stored(d)
    THEN d.events
    ELSE Assign(d.events, r.eid, [issue |-> TargetId(d, r), row |-> d.nextRow])

Upserted(d, r) ==
  Db(Assign(d.issues, TargetId(d, r), TargetRow(d, r)),
     EventsAfter(d, r),
     IF Creates(d, r) THEN d.nextId + 1 ELSE d.nextId,
     IF r.eid \in Stored(d) THEN d.nextRow ELSE d.nextRow + 1)

\* struct UpsertResult: the row as read back inside the transaction.
RowResult ==
  [id : Nat \ {0}, created : BOOLEAN, regressed : BOOLEAN, issue : IssueRow]

UpsertResult(d, r) ==
  [id |-> TargetId(d, r), created |-> Creates(d, r),
   regressed |-> Regresses(d, r), issue |-> TargetRow(d, r)]

----------------------------------------------------------------------------
\* UPDATE issues SET status = s WHERE id = i
WithStatus(d, i, s) ==
  Db([d.issues EXCEPT ![i].status = s], d.events, d.nextId, d.nextRow)

\* Variant: foreign keys are not enforced, nothing cascades.
WithoutIssuesOnly(d, gone) ==
  Db(Keep(d.issues, Live(d) \ gone), d.events, d.nextId, d.nextRow)

\* DELETE FROM issues WHERE id IN gone, with ON DELETE CASCADE on events.
WithoutIssues(d, gone) ==
  Db(Keep(d.issues, Live(d) \ gone),
     Keep(d.events, {e \in Stored(d) : d.events[e].issue \notin gone}),
     d.nextId, d.nextRow)

\* UPDATE issues SET project = q WHERE project = p
Moved(d, p, q) ==
  Db([i \in Live(d) |-> IF d.issues[i].project = p
                          THEN [d.issues[i] EXCEPT !.project = q]
                          ELSE d.issues[i]],
     d.events, d.nextId, d.nextRow)

\* That UPDATE trips UNIQUE(project, fingerprint).
MoveConflicts(d, p, q) ==
  \E i \in OfProject(d, p), j \in OfProject(d, q) : d.issues[i].fp = d.issues[j].fp

----------------------------------------------------------------------------
\* UNIQUE(project, fingerprint), as the code relies on it: every
\* SELECT ... WHERE project = ? AND fingerprint = ? is a fetch_one.
KeysUnique(d) ==
  \A i, j \in Live(d) :
    /\ d.issues[i].project = d.issues[j].project
    /\ d.issues[i].fp = d.issues[j].fp
    => i = j

\* Every stored event hangs off a live issue that groups its fingerprint.
EventsGrouped(d) ==
  \A e \in Stored(d) :
    /\ d.events[e].issue \in Live(d)
    /\ d.issues[d.events[e].issue].fp = FpOf[e]

\* event_count is never less than what the events pane can show.
CountsCover(d) ==
  \A i \in Live(d) : Cardinality(EventsOf(d, i)) <= d.issues[i].count
============================================================================
