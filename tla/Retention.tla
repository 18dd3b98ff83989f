----------------------------- MODULE Retention -----------------------------
(***************************************************************************)
(* The retention task (retention.rs): once an hour it reads the settings   *)
(* row and runs up to three purges on the tables of IssueDb, each a        *)
(* statement of its own.  Between two of them the digest task may commit   *)
(* events that were stamped any time before, an administrator may store    *)
(* other settings, a purge may fail and the daemon may go down.            *)
(*                                                                         *)
(* Time counts parts of a day.  It matters twice: an issue's last_seen is  *)
(* stamped when its event is prepared, an event's received_at when its row *)
(* is inserted; and the age purge compares texts, one written by SQLite    *)
(* ("2026-04-28 09:30:00"), one by chrono ("2026-04-28T09:30:00+00:00"),   *)
(* of which the first sorts below the second whenever the dates are equal. *)
(***************************************************************************)
EXTENDS IssueDb, Integers

CONSTANTS
  BootDays,   \* config.retention_days
  Posts,      \* what SDKs send: events with the project they post to
  Requests,   \* bodies of PUT /api/admin/retention
  MaxDays,    \* the longest age chrono can subtract from now
  DayParts,   \* bound: instants told apart in a day
  Horizon,    \* bound: the last instant
  Budget      \* bound: how often each kind of outside step happens

Outside == {"event", "settings", "failure"}

Settings == [events : Nat, issues : Nat, days : Nat]

ASSUME RetentionAssumption ==
  /\ BootDays \in Nat
  /\ Posts \subseteq [eid : EventIds, project : Projects]
  /\ Requests \subseteq [events : Int, issues : Int, days : Int]
  /\ MaxDays \in Nat
  /\ DayParts \in Nat \ {0}
  /\ Horizon \in Nat
  /\ Budget \in [Outside -> Nat]

VARIABLES
  now,        \* Utc::now() and CURRENT_TIMESTAMP
  db,         \* the committed issues and events
  received,   \* received[n]: received_at of the event row n
  pending,    \* events prepared and not yet committed
  settings,   \* the retention_settings row
  pc,         \* the task: "asleep", the purge it is at, or "dead" with the daemon
  plan,       \* the settings this sweep has read
  cutoff,     \* event_cutoff of this sweep
  undisturbed,\* history: this sweep has met no failed purge and no commit
  spent       \* outside steps taken, against Budget

task == <<pc, plan, cutoff>>
vars == <<now, db, received, pending, settings, task, undisturbed, spent>>

Unlimited == [events |-> 0, issues |-> 0, days |-> 0]

Spend(kind) ==
  /\ spent[kind] < Budget[kind]
  /\ spent' = [spent EXCEPT ![kind] = @ + 1]

Init ==
  /\ now = 0
  /\ db = EmptyDb
  /\ received = <<>>
  /\ pending = {}
  /\ settings = Unlimited
  /\ pc = "asleep"
  /\ plan = Unlimited
  /\ cutoff = 0
  /\ undisturbed = FALSE
  /\ spent = [kind \in Outside |-> 0]

Alive == pc # "dead"

\* The task's locals outlive the sweep no longer than the sweep.
EndSweep == plan' = Unlimited /\ cutoff' = 0 /\ undisturbed' = FALSE

----------------------------------------------------------------------------
(***************************************************************************)
(* What else happens                                                       *)
(***************************************************************************)

Advance ==
  /\ now < Horizon
  /\ now' = now + 1
  /\ UNCHANGED <<db, received, pending, settings, task, undisturbed, spent>>

\* digest::prepare: an event gets its stamp and waits for the digest task.
Prepare ==
  /\ Alive
  /\ Spend("event")
  /\ \E p \in Posts :
       pending' = pending \cup {[eid |-> p.eid, project |-> p.project, at |-> now]}
  /\ UNCHANGED <<now, db, received, settings, task, undisturbed>>

\* Variant: every row of the batch is stamped, inserted or not.
WriteStampingAll(r) ==
  /\ Alive
  /\ r \in pending
  /\ pending' = pending \ {r}
  /\ db' = Upserted(db, r)
  /\ received' = Append(received, now)
  /\ undisturbed' = FALSE
  /\ UNCHANGED <<now, settings, task, spent>>

\* The digest task commits one of them (a batch is several, with nothing in
\* between); its row, if it is new, gets CURRENT_TIMESTAMP.
Write(r) ==
  /\ Alive
  /\ r \in pending
  /\ pending' = pending \ {r}
  /\ db' = Upserted(db, r)
  /\ received' = IF r.eid \in Stored(db) THEN received ELSE Append(received, now)
  /\ undisturbed' = FALSE
  /\ UNCHANGED <<now, settings, task, spent>>

\* admin_put_retention: negative values are refused, any others are stored.
PutSettings ==
  /\ Alive
  /\ \E s \in Requests :
       /\ s.events >= 0 /\ s.issues >= 0 /\ s.days >= 0
       /\ settings' = s
  /\ Spend("settings")
  /\ UNCHANGED <<now, db, received, pending, task, undisturbed>>

\* The daemon goes down and comes up: what was not committed is gone, and the
\* interval's first tick is due at once.
Restart ==
  /\ \/ pc = "dead" /\ UNCHANGED spent
     \/ Alive /\ Spend("failure")
  /\ pending' = {}
  /\ pc' = "asleep"
  /\ EndSweep
  /\ UNCHANGED <<now, db, received, settings>>

----------------------------------------------------------------------------
(***************************************************************************)
(* The three purges, as statements on a database                           *)
(***************************************************************************)

\* ROW_NUMBER() OVER (PARTITION BY project ORDER BY last_seen DESC, id DESC):
\* the issues of i's project that come before it.
IssuesBefore(d, i) ==
  {j \in OfProject(d, d.issues[i].project) :
     \/ d.issues[j].last > d.issues[i].last
     \/ d.issues[j].last = d.issues[i].last /\ j > i}

\* Variant: one ranking for all projects.
ExcessIssuesOverall(d, max) ==
  {i \in Live(d) :
     Cardinality({j \in Live(d) : d.issues[j].last >= d.issues[i].last}) > max}

ExcessIssues(d, max) == {i \in Live(d) : Cardinality(IssuesBefore(d, i)) >= max}

\* received_at of event e's row.
ReceivedAt(d, e) == received[d.events[e].row]

\* The events of e's issue that come before it, newest first.
EventsBefore(d, e) ==
  {g \in EventsOf(d, d.events[e].issue) :
     \/ ReceivedAt(d, g) > ReceivedAt(d, e)
     \/ ReceivedAt(d, g) = ReceivedAt(d, e) /\ d.events[g].row > d.events[e].row}

\* Variant: one row too many stays.
ExcessEventsLate(d, max) == {e \in Stored(d) : Cardinality(EventsBefore(d, e)) > max}

ExcessEvents(d, max) == {e \in Stored(d) : Cardinality(EventsBefore(d, e)) >= max}

Day(t) == t \div DayParts

\* Variant: dates compared with a whole day of tolerance.
SortsBelowNextDay(at, limit) == Day(at) <= Day(limit) + 1

\* A text of SQLite's, for instant at, < a text of chrono's, for instant limit.
SortsBelow(at, limit) == Day(at) <= Day(limit)

\* DELETE FROM events WHERE received_at < ?
AgedEvents(d, limit) == {e \in Stored(d) : SortsBelow(ReceivedAt(d, e), limit)}

WithoutEvents(d, gone) ==
  Db(d.issues, Keep(d.events, Stored(d) \ gone), d.nextId, d.nextRow)

----------------------------------------------------------------------------
(***************************************************************************)
(* run_one_tick                                                            *)
(***************************************************************************)

\* effective_days: the boot default stands in for an unset row.
EffectiveDays(s) == IF s.days > 0 THEN s.days ELSE BootDays

\* The stage after the given one: a limit that is 0 has none.
AfterEvents(s) == IF s.issues > 0 THEN "issues" ELSE "asleep"
AfterAge(s) == IF s.events > 0 THEN "events" ELSE AfterEvents(s)

\* Variant: the age is left to the other limits.
FirstStageWithoutAge(s) == AfterAge(s)

FirstStage(s) == IF EffectiveDays(s) > 0 THEN "age" ELSE AfterAge(s)

\* A sweep by the settings s: up to its first purge, if it has one.
Begin(s) ==
  /\ pc' = FirstStage(s)
  /\ IF FirstStage(s) = "asleep"
       THEN EndSweep
       ELSE /\ plan' = s
            /\ cutoff' = now - EffectiveDays(s) * DayParts
            /\ undisturbed' = TRUE

\* Variant: the settings are those the daemon was started with.
WakeWithBootSettings ==
  /\ pc = "asleep"
  /\ Begin(Unlimited)
  /\ UNCHANGED <<now, db, received, pending, settings, spent>>

\* The hourly tick: read the settings, work out the cutoff, and go on to the
\* first purge.  chrono::Duration::days, or the subtraction, panics on an age
\* too long: the task ends and main's select! ends the daemon with it.
Wake ==
  /\ pc = "asleep"
  /\ \/ EffectiveDays(settings) <= MaxDays /\ Begin(settings)
     \/ EffectiveDays(settings) > MaxDays /\ pc' = "dead" /\ EndSweep
  /\ UNCHANGED <<now, db, received, pending, settings, spent>>

\* The settings cannot be read: no sweep this hour.
SkipTick ==
  /\ pc = "asleep"
  /\ Spend("failure")
  /\ UNCHANGED <<now, db, received, pending, settings, task, undisturbed>>

\* One purge: the statement and the way on.  A failure is logged, no more.
Purge(stage, purged, next) ==
  LET failed == Spend("failure") /\ UNCHANGED db
      done == db' = purged /\ UNCHANGED spent
  IN
  /\ pc = stage
  /\ pc' = next
  /\ \/ next = "asleep" /\ (done \/ failed) /\ EndSweep
     \/ next # "asleep" /\ done /\ UNCHANGED <<plan, cutoff, undisturbed>>
     \/ next # "asleep" /\ failed /\ undisturbed' = FALSE /\ UNCHANGED <<plan, cutoff>>
  /\ UNCHANGED <<now, received, pending, settings>>

PurgeAge == Purge("age", WithoutEvents(db, AgedEvents(db, cutoff)), AfterAge(plan))

PurgeEvents ==
  Purge("events", WithoutEvents(db, ExcessEvents(db, plan.events)), AfterEvents(plan))

\* Variant: the cascade is left to the caller.
PurgeIssuesOnly ==
  Purge("issues", WithoutIssuesOnly(db, ExcessIssues(db, plan.issues)), "asleep")

\* With it go the events, by cascade.  The purges of auth_attempts and sessions
\* that end the tick touch tables no action here reads.
PurgeIssues ==
  Purge("issues", WithoutIssues(db, ExcessIssues(db, plan.issues)), "asleep")

Sweep == PurgeAge \/ PurgeEvents \/ PurgeIssues

Next ==
  \/ Advance
  \/ Prepare
  \/ \E r \in pending : Write(r)
  \/ PutSettings
  \/ Restart
  \/ Wake
  \/ SkipTick
  \/ Sweep

Spec == Init /\ [][Next]_vars

\* The interval ticks every hour and the task is polled; the connection comes
\* round to it.  A dead daemon need not be started again.
Fairness == WF_vars(Wake) /\ WF_vars(Sweep)

FairSpec == Spec /\ Fairness

----------------------------------------------------------------------------
(***************************************************************************)
(* Properties                                                              *)
(***************************************************************************)

Purges == {"age", "events", "issues"}

\* Every event row has the stamp of its insertion, and a sweep is at a purge
\* only when it has a limit for it (run_one_tick's three ifs).
TypeOK ==
  /\ now \in Nat
  /\ DbTyped(db)
  /\ received \in Seq(Nat)
  /\ Len(received) = db.nextRow - 1
  /\ \A e \in Stored(db) : db.events[e].row < db.nextRow
  /\ pending \subseteq Rec
  /\ settings \in Settings
  /\ plan \in Settings
  /\ cutoff \in Int
  /\ undisturbed \in BOOLEAN
  /\ pc \in Purges \cup {"asleep", "dead"}
  /\ pc = "events" => plan.events > 0
  /\ pc = "issues" => plan.issues > 0
  /\ spent \in [Outside -> Nat]

\* The purges leave the tables as the ingest path relies on them: one issue
\* per key, every event under a live issue of its fingerprint and no issue with
\* fewer occurrences than events, although an issue may go while its next events
\* wait in the channel (store.rs, the purges against upsert_batch_with_events).
TablesSound == KeysUnique(db) /\ EventsGrouped(db) /\ CountsCover(db)

\* No issue's events exceed n; no project's issues do.
EventsWithin(d, n) == \A i \in Live(d) : Cardinality(EventsOf(d, i)) <= n
IssuesWithin(d, n) == \A p \in Projects : Cardinality(OfProject(d, p)) <= n
YoungerThan(d, limit) == \A e \in Stored(d) : ReceivedAt(d, e) >= limit

\* d keeps the limits of s, with the age measured from limit.
Within(d, s, limit) ==
  /\ s.events > 0 => EventsWithin(d, s.events)
  /\ s.issues > 0 => IssuesWithin(d, s.issues)
  /\ EffectiveDays(s) > 0 => YoungerThan(d, limit)

\* When a sweep ends that nothing disturbed, all three limits it has read hold
\* together: no purge undoes an earlier one (run_one_tick).
SweepMeetsLimits ==
  [][(pc \in Purges /\ pc' = "asleep" /\ undisturbed /\ spent' = spent) =>
       Within(db', plan, cutoff)]_vars

\* A purge takes the oldest: what it leaves of a project, or of an issue, is
\* not older than what it took (the window functions of store.rs).
OldestGoFirst ==
  [][/\ pc = "issues" =>
          \A i \in Live(db) \ Live(db)' :
            LET kept == OfProject(db, db.issues[i].project) \cap Live(db)' IN
            /\ Cardinality(kept) = plan.issues
            /\ \A j \in kept : db.issues[j].last >= db.issues[i].last
     /\ pc = "events" =>
          \A e \in Stored(db) \ Stored(db)' :
            LET kept == EventsOf(db, db.events[e].issue) \cap Stored(db)' IN
            /\ Cardinality(kept) = plan.events
            /\ \A g \in kept : ReceivedAt(db, g) >= ReceivedAt(db, e)]_vars

\* The age purge may take an event before its time, for the two formats do not
\* sort as instants, but never one received on a later date than the cutoff's.
LaterDatesKept ==
  [][pc = "age" =>
       \A e \in Stored(db) \ Stored(db)' : Day(ReceivedAt(db, e)) <= Day(cutoff)]_vars

\* What the stored limits do not allow e to be, if the age is one chrono can
\* subtract: too old, or behind too many, or of an issue behind too many.
Overdue(e) ==
  /\ e \in Stored(db)
  /\ EffectiveDays(settings) <= MaxDays
  /\ \/ /\ EffectiveDays(settings) > 0
        /\ ReceivedAt(db, e) < now - EffectiveDays(settings) * DayParts
     \/ settings.events > 0 /\ e \in ExcessEvents(db, settings.events)
     \/ /\ settings.issues > 0
        /\ db.events[e].issue \in ExcessIssues(db, settings.issues)

\* What is overdue does not stay so, whenever it came to be and whatever limits
\* the daemon was started with: a change takes effect on a later tick without a
\* restart, and a failed purge is made good (retention.rs:1-10).
LimitsTakeEffect == \A e \in EventIds : Overdue(e) ~> ~Overdue(e)
=============================================================================
