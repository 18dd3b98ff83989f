--------------------------- MODULE ProjectConsole ---------------------------
(***************************************************************************)
(* The project console (the admin_ handlers of ingest.rs) and the project  *)
(* command of the command line (main.rs) on the tables, between the digest *)
(* task's commits and the retention task's purges.                         *)
(*                                                                         *)
(* A call is a sequence of database calls, and other tasks and the command *)
(* line's own process come in between.  The operations that report numbers *)
(* (delete, its preview, storage) read them one by one.                    *)
(***************************************************************************)
EXTENDS IssueDb

CONSTANTS
  Consoles,  \* console requests under way at once
  Clis,      \* processes of the command line
  Urls,      \* webhook URLs
  NoUrl,     \* NULL
  Budget     \* bound: calls, commits, purges

Slots == Consoles \cup Clis

Outside == {"call", "commit", "purge"}

ASSUME ConsoleAssumption ==
  /\ Consoles \cap Clis = {}
  /\ NoUrl \notin Urls
  /\ Budget \in [Outside -> Nat]

VARIABLES
  rows,    \* the projects table, by name
  db,      \* issues and events
  calls,   \* the call of each slot
  issued,  \* tokens generated so far are 1 .. issued
  spent

vars == <<rows, db, calls, issued, spent>>

Spend(kind) ==
  /\ spent[kind] < Budget[kind]
  /\ spent' = [spent EXCEPT ![kind] = @ + 1]

Row(token, url) == [token |-> token, url |-> url]

NoCall == [pc |-> "idle", answer |-> "none"]

ConsoleOps == {"create", "webhook", "rotate", "rename", "delete", "preview",
               "storage", "activity"}

\* enum ProjectCmd, but for List.
CliOps == {"create", "webhook", "rotate"}

\* Some projects exist, each with the token it was created with.
Init ==
  /\ \E P \in SUBSET Projects : \E token \in [P -> 1 .. Cardinality(P)] :
       /\ IsFiniteSet(P)
       /\ \A p, q \in P : token[p] = token[q] => p = q
       /\ rows = [p \in P |-> Row(token[p], NoUrl)]
       /\ issued = Cardinality(P)
  /\ db = EmptyDb
  /\ calls = [s \in Slots |-> NoCall]
  /\ spent = [kind \in Outside |-> 0]

----------------------------------------------------------------------------
\* The numbers a call can report, of a project's rows or of the whole file.
CountsOf(d, p) ==
  [issues |-> Cardinality(OfProject(d, p)),
   events |-> Cardinality(UNION {EventsOf(d, i) : i \in OfProject(d, p)})]

TotalsOf(d) ==
  [issues |-> Cardinality(Live(d)), events |-> Cardinality(Stored(d))]

\* Here issues without events do not count (no event leaves the 24 hours while
\* a call lasts).
ActivityOf(d, p) ==
  [CountsOf(d, p) EXCEPT
     !.issues = Cardinality({i \in OfProject(d, p) : EventsOf(d, i) # {}})]

\* The numbers that the call is about.
About(call, d) ==
  CASE call.op = "storage"  -> TotalsOf(d)
    [] call.op = "activity" -> ActivityOf(d, call.project)
    [] OTHER                -> CountsOf(d, call.project)

Counting == {"delete", "preview", "storage", "activity"}

\* A call op on project p; arg is the new name or URL.  issues and events are
\* what it has counted.  History: changed, whether it has written anything;
\* raced, whether others have removed or renamed a project meanwhile; truth,
\* the numbers when it began, or of what it deleted; grew and shrank, whether
\* others have added to them or taken from them.
Call(op, p, arg, pc) ==
  [pc |-> pc, op |-> op, project |-> p, arg |-> arg, answer |-> "none",
   issues |-> 0, events |-> 0, changed |-> FALSE, raced |-> FALSE,
   truth |-> [issues |-> 0, events |-> 0], grew |-> FALSE, shrank |-> FALSE]

Answered(call, answer) == [call EXCEPT !.pc = "answered", !.answer = answer]

At(call, pc) == [call EXCEPT !.pc = pc]

Wrote(call) == [call EXCEPT !.changed = TRUE]

Running(call) == call.pc \notin {"idle", "answered"}

Counts(call) == Running(call) /\ call.op \in Counting

\* A call while others turn the tables into r and d.
Watching(call, r, d) ==
  LET old == About(call, db)
      new == About(call, d)
      gone == ~(DOMAIN rows \subseteq DOMAIN r)
  IN  IF ~Running(call) THEN call
      ELSE IF Counts(call)
        THEN [call EXCEPT
                !.grew = @ \/ new.issues > old.issues \/ new.events > old.events,
                !.shrank = @ \/ new.issues < old.issues \/ new.events < old.events]
        ELSE [call EXCEPT !.raced = @ \/ gone]

\* Slot s goes on as call and leaves the tables as r and d.
Step(s, call, r, d) ==
  /\ calls' = [t \in Slots |-> IF t = s THEN call ELSE Watching(calls[t], r, d)]
  /\ rows' = r
  /\ db' = d

----------------------------------------------------------------------------
(***************************************************************************)
(* Calls                                                                   *)
(***************************************************************************)

\* A request of an administrator (check_admin has passed), or a command.
Begin(s, op, p, arg, pc) ==
  /\ ~Running(calls[s])
  /\ s \in Clis => op \in CliOps
  /\ Spend("call")
  /\ LET call == Call(op, p, arg, pc) IN
     calls' = [calls EXCEPT ![s] =
       IF op \in Counting \ {"delete"}
         THEN [call EXCEPT !.truth = About(call, db)] ELSE call]
  /\ UNCHANGED <<rows, db, issued>>

Create(s, p) == Begin(s, "create", p, NoUrl, "insert")

SetWebhook(s, p, url) == Begin(s, "webhook", p, url, "update")

Rotate(s, p) == Begin(s, "rotate", p, NoUrl, "update")

\* A rename to the same name only reads the row.
Rename(s, p, q) == Begin(s, "rename", p, q, IF p = q THEN "reread" ELSE "check")

Delete(s, p) == Begin(s, "delete", p, NoUrl, "check")

DestroyPreview(s, p) == Begin(s, "preview", p, NoUrl, "check")

Activity24(s, p) == Begin(s, "activity", p, NoUrl, "check")

\* The whole file: of no project.
GetStorage(s) == Begin(s, "storage", NoUrl, NoUrl, "issues")

\* create_project: `name` is the primary key.
Insert(s) ==
  LET call == calls[s] p == call.project IN
  /\ call.pc = "insert"
  /\ \/ /\ p \in DOMAIN rows
        /\ Step(s, Answered(call, "409"), rows, db)
        /\ UNCHANGED issued
     \/ /\ p \notin DOMAIN rows
        /\ Step(s, Wrote(Answered(call, "201")),
                Assign(rows, p, Row(issued + 1, NoUrl)), db)
        /\ issued' = issued + 1
  /\ UNCHANGED spent

\* Variant: rotation writes the token that was generated last.
UpdatedWithLast(call) ==
  [rows EXCEPT ![call.project] =
     IF call.op = "rotate" THEN [@ EXCEPT !.token = issued]
     ELSE [@ EXCEPT !.url = call.arg]]

\* UPDATE projects SET token = a new one, or SET webhook_url.
Updated(call) ==
  [rows EXCEPT ![call.project] =
     IF call.op = "rotate" THEN [@ EXCEPT !.token = issued + 1]
     ELSE [@ EXCEPT !.url = call.arg]]

\* set_project_webhook, and rotate_token up to its read.  The command line
\* does not read a URL back.
Update(s) ==
  LET call == calls[s] IN
  /\ call.pc = "update"
  /\ issued' = IF call.op = "rotate" THEN issued + 1 ELSE issued
  /\ \/ /\ call.project \notin DOMAIN rows
        /\ Step(s, Answered(call, "404"), rows, db)
     \/ /\ call.project \in DOMAIN rows
        /\ Step(s, Wrote(IF s \in Clis /\ call.op = "webhook"
                           THEN Answered(call, "200")
                           ELSE At(call, "reread")), Updated(call), db)
  /\ UNCHANGED spent

\* project_by_name of the row to show.  Where there is none, rotate and rename
\* answer 404, and the expect of admin_set_webhook fails.
Reread(s) ==
  LET call == calls[s]
      name == IF call.op = "rename" THEN call.arg ELSE call.project
      answer == IF name \in DOMAIN rows THEN "200"
                ELSE IF call.op = "webhook" THEN "panic" ELSE "404"
  IN
  /\ call.pc = "reread"
  /\ Step(s, Answered(call, answer), rows, db)
  /\ UNCHANGED <<issued, spent>>

\* The existence check of delete_project, delete_preview, rename_project.
Check(s) ==
  LET call == calls[s] IN
  /\ call.pc = "check"
  /\ Step(s, IF call.project \notin DOMAIN rows THEN Answered(call, "404")
             ELSE At(call, CASE call.op = "rename"   -> "tx"
                             [] call.op = "activity" -> "events"
                             [] OTHER                -> "issues"), rows, db)
  /\ UNCHANGED <<issued, spent>>

\* One COUNT, then the other: issues first in count_project_rows and
\* storage_stats, events first in activity_stats.
CountIssues(s) ==
  LET call == calls[s] IN
  /\ call.pc = "issues"
  /\ Step(s, [IF call.op = "activity" THEN Answered(call, "200")
                                      ELSE At(call, "events")
               EXCEPT !.issues = About(call, db).issues], rows, db)
  /\ UNCHANGED <<issued, spent>>

\* Variant: events of every project are counted.
EventsOfAll(call) == TotalsOf(db).events

EventsCounted(call) == About(call, db).events

CountEvents(s) ==
  LET call == calls[s] IN
  /\ call.pc = "events"
  /\ Step(s, [CASE call.op = "delete"   -> At(call, "tx")
                 [] call.op = "activity" -> At(call, "issues")
                 [] OTHER                -> Answered(call, "200")
               EXCEPT !.events = EventsCounted(call)], rows, db)
  /\ UNCHANGED <<issued, spent>>

\* The transaction of delete_project.
DeleteTx(s) ==
  LET call == calls[s] p == call.project IN
  /\ call.pc = "tx" /\ call.op = "delete"
  /\ Step(s, [Wrote(Answered(call, "200")) EXCEPT !.truth = CountsOf(db, p)],
          Keep(rows, Projects \ {p}), WithoutIssues(db, OfProject(db, p)))
  /\ UNCHANGED <<issued, spent>>

\* UPDATE projects SET name = q WHERE name = p
Renamed(p, q) ==
  IF p \notin DOMAIN rows THEN rows
  ELSE Assign(Keep(rows, Projects \ {p}), q, rows[p])

\* Variant: rename_project without a transaction.
RenameUnprotected(s) ==
  LET call == calls[s] p == call.project q == call.arg IN
  /\ call.pc = "tx" /\ call.op = "rename"
  /\ IF {p, q} \subseteq DOMAIN rows
       THEN Step(s, Answered(call, "409"), rows, db)
       ELSE IF MoveConflicts(db, p, q)
         THEN Step(s, Wrote(Answered(call, "409")), Renamed(p, q), db)
         ELSE Step(s, Wrote(At(call, "reread")), Renamed(p, q), Moved(db, p, q))
  /\ UNCHANGED <<issued, spent>>

\* The transaction of rename_project; a name that is taken, or an issue of
\* the same fingerprint under it, rolls it back.
RenameTx(s) ==
  LET call == calls[s] p == call.project q == call.arg IN
  /\ call.pc = "tx" /\ call.op = "rename"
  /\ IF {p, q} \subseteq DOMAIN rows \/ MoveConflicts(db, p, q)
       THEN Step(s, Answered(call, "409"), rows, db)
       ELSE Step(s, Wrote(At(call, "reread")), Renamed(p, q), Moved(db, p, q))
  /\ UNCHANGED <<issued, spent>>

Continue(s) ==
  \/ Insert(s) \/ Update(s) \/ Reread(s) \/ Check(s)
  \/ CountIssues(s) \/ CountEvents(s) \/ DeleteTx(s) \/ RenameTx(s)

----------------------------------------------------------------------------
(***************************************************************************)
(* Other tasks                                                             *)
(***************************************************************************)

Others(d) ==
  /\ calls' = [s \in Slots |-> Watching(calls[s], rows, d)]
  /\ db' = d
  /\ UNCHANGED <<rows, issued>>

\* The digest task commits an event that was accepted for project p, which
\* may have been deleted or renamed since.
Commit(e, p) ==
  /\ Spend("commit")
  /\ Others(Upserted(db, [eid |-> e, project |-> p, at |-> 0]))

\* The retention task removes an event, or an issue.
PurgeEvent(e) ==
  /\ e \in Stored(db)
  /\ Spend("purge")
  /\ Others(Db(db.issues, Keep(db.events, Stored(db) \ {e}), db.nextId, db.nextRow))

PurgeIssue(i) ==
  /\ i \in Live(db)
  /\ Spend("purge")
  /\ Others(WithoutIssues(db, {i}))

\* The daemon is up: an expect that fails aborts it.
Up == \A s \in Slots : calls[s].answer # "panic"

Next ==
  /\ Up
  /\ \/ \E s \in Slots, p \in Projects :
           \/ Create(s, p) \/ Rotate(s, p) \/ Delete(s, p)
           \/ DestroyPreview(s, p) \/ Activity24(s, p)
           \/ \E url \in Urls \cup {NoUrl} : SetWebhook(s, p, url)
           \/ \E q \in Projects : Rename(s, p, q)
     \/ \E s \in Slots : GetStorage(s) \/ Continue(s)
     \/ \E e \in EventIds, p \in Projects : Commit(e, p)
     \/ \E e \in EventIds : PurgeEvent(e)
     \/ \E i \in 1 .. Budget["commit"] : PurgeIssue(i)

Spec == Init /\ [][Next]_vars

----------------------------------------------------------------------------
(***************************************************************************)
(* Properties                                                              *)
(***************************************************************************)

Made == {s \in Slots : calls[s] # NoCall}

CallTyped(s, call) ==
  /\ call.pc \in {"insert", "update", "reread", "check", "issues", "events",
                  "tx", "answered"}
  /\ call.op \in IF s \in Clis THEN CliOps ELSE ConsoleOps
  /\ call.project \in Projects \cup {NoUrl}
  /\ call.arg \in Urls \cup {NoUrl} \cup Projects
  /\ call.answer \in {"none", "200", "201", "404", "409", "panic"}
  /\ {call.issues, call.events, call.truth.issues, call.truth.events} \subseteq Nat
  /\ {call.changed, call.raced, call.grew, call.shrank} \subseteq BOOLEAN

\* The variables have their types, and no two projects share a token, through
\* any mix of creations, rotations and renames of the console and the command
\* line.
TypeOK ==
  /\ DOMAIN rows \subseteq Projects
  /\ \A p \in DOMAIN rows : /\ rows[p].token \in 1 .. issued
                            /\ rows[p].url \in Urls \cup {NoUrl}
  /\ \A p, q \in DOMAIN rows : rows[p].token = rows[q].token => p = q
  /\ DbTyped(db)
  /\ \A s \in Made : CallTyped(s, calls[s])

\* A call that is refused (404, 409) or panics has changed nothing, but where
\* another call removed or renamed a project meanwhile: rotate, rename and the
\* webhook handler read their row again after they have written (store.rs:
\* 673-675, 941-943, ingest.rs:649-653), and rename writes two tables.
OnlyRacesFailLate ==
  \A s \in Made :
    LET call == calls[s] IN
    call.answer \in {"404", "409", "panic"} /\ call.changed => call.raced

\* The earlier of two counts is no more than the later unless rows went, no
\* less unless rows came.
Bracketed(call, earlier, later) ==
  /\ ~call.shrank => /\ earlier.issues <= later.issues
                     /\ earlier.events <= later.events
  /\ ~call.grew => /\ later.issues <= earlier.issues
                   /\ later.events <= earlier.events

\* The numbers the console reports are read one by one, and that costs no more
\* than what others did meanwhile: a delete reports no more than it removed
\* unless something was purged, no less unless something was committed
\* (store.rs:872-890); its preview, storage_stats and activity_stats report no
\* less than there was at their start unless something was removed, no more
\* unless something was added (store.rs:731-766, 893-911, 977-998).
ReportsBracketed ==
  \A s \in Made :
    LET call == calls[s]
        report == [issues |-> call.issues, events |-> call.events] IN
    call.op \in Counting /\ call.answer = "200" =>
      IF call.op = "delete" THEN Bracketed(call, report, call.truth)
                            ELSE Bracketed(call, call.truth, report)
============================================================================
