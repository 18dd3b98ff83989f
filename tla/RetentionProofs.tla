-------------------------- MODULE RetentionProofs --------------------------
(***************************************************************************)
(* What holds of Retention for any projects, events, settings, failures    *)
(* and instants: types, the soundness of the tables the purges leave, and  *)
(* how far the age purge may go wrong.                                     *)
(***************************************************************************)
EXTENDS Retention, IssueDbProofs, SequenceTheorems, FiniteSetTheorems, NaturalsInduction,
        WellFoundedInduction, TLAPS

----------------------------------------------------------------------------
(***************************************************************************)
(* Statements                                                              *)
(***************************************************************************)

\* Every event row is older than the next one.
RowsBelowNext(d) == \A e \in Stored(d) : d.events[e].row < d.nextRow

\* An upsert stores at most one event row, the next one (store.rs:460-472).
LEMMA UpsertRows ==
  ASSUME NEW d, DbTyped(d), RowsBelowNext(d), NEW r \in Rec
  PROVE  /\ RowsBelowNext(Upserted(d, r))
         /\ Stored(d) \subseteq Stored(Upserted(d, r))
         /\ Upserted(d, r).nextRow = IF r.eid \in Stored(d) THEN d.nextRow ELSE d.nextRow + 1
<1>. DEFINE u == Upserted(d, r)
<1>1. /\ u.events = EventsAfter(d, r)
      /\ u.nextRow = IF r.eid \in Stored(d) THEN d.nextRow ELSE d.nextRow + 1
  BY DEF Upserted, Db
<1>2. CASE r.eid \in Stored(d)
  BY <1>1, <1>2 DEF EventsAfter, Stored, RowsBelowNext
<1>3. CASE r.eid \notin Stored(d)
  <2>1. u.events = Assign(d.events, r.eid, [issue |-> TargetId(d, r), row |-> d.nextRow])
    BY <1>1, <1>3 DEF EventsAfter
  <2>2. /\ Stored(u) = Stored(d) \cup {r.eid}
        /\ u.events[r.eid].row = d.nextRow
        /\ \A e \in Stored(d) : u.events[e] = d.events[e]
    BY <1>3, <2>1 DEF Assign, Stored
  <2>3. d.nextRow \in Nat /\ \A e \in Stored(d) : d.events[e].row \in Nat
    BY DEF DbTyped, EventRow
  <2>. QED
    BY <1>1, <1>3, <2>2, <2>3 DEF RowsBelowNext
<1>. QED
  BY <1>1, <1>2, <1>3

\* A delete of events keeps the tables typed and consistent and touches no other
\* row (purge_events_older_than, purge_excess_events_per_issue).
LEMMA WithoutEventsSound ==
  ASSUME NEW d, DbTyped(d), NEW gone
  PROVE  /\ DbTyped(WithoutEvents(d, gone))
         /\ KeysUnique(d) => KeysUnique(WithoutEvents(d, gone))
         /\ EventsGrouped(d) => EventsGrouped(WithoutEvents(d, gone))
         /\ RowsBelowNext(d) => RowsBelowNext(WithoutEvents(d, gone))
         /\ Stored(WithoutEvents(d, gone)) = Stored(d) \ gone
         /\ WithoutEvents(d, gone).nextRow = d.nextRow
<1>. DEFINE u == WithoutEvents(d, gone)
<1>1. /\ u.issues = d.issues
      /\ u.events = Keep(d.events, Stored(d) \ gone)
      /\ u.nextId = d.nextId /\ u.nextRow = d.nextRow
      /\ u = Db(u.issues, u.events, u.nextId, u.nextRow)
  BY DEF WithoutEvents, Db
<1>2. Live(u) = Live(d) /\ Stored(u) = Stored(d) \ gone
  BY <1>1 DEF Live, Stored, Keep
<1>3. \A e \in Stored(u) : u.events[e] = d.events[e]
  BY <1>1, <1>2 DEF Stored, Keep
<1>4. u.events \in [Stored(u) -> EventRow]
  BY <1>1, <1>2, <1>3 DEF DbTyped, Keep, Stored
<1>5. DbTyped(u)
  BY <1>1, <1>2, <1>4 DEF DbTyped
<1>. QED
  BY <1>1, <1>2, <1>3, <1>5 DEF KeysUnique, EventsGrouped, RowsBelowNext

\* The cascade takes event rows and adds none (purge_excess_issues_per_project).
LEMMA WithoutIssuesRows ==
  ASSUME NEW d, RowsBelowNext(d), NEW gone
  PROVE  /\ RowsBelowNext(WithoutIssues(d, gone))
         /\ WithoutIssues(d, gone).nextRow = d.nextRow
BY DEF WithoutIssues, Db, Keep, Stored, RowsBelowNext

----------------------------------------------------------------------------
(***************************************************************************)
(* Types and tables                                                        *)
(***************************************************************************)

TablesTyped ==
  /\ DbTyped(db)
  /\ RowsBelowNext(db)
  /\ received \in Seq(Nat)
  /\ Len(received) = db.nextRow - 1

Consistent == KeysUnique(db) /\ EventsGrouped(db)

TaskTyped ==
  /\ plan \in Settings
  /\ cutoff \in Int
  /\ undisturbed \in BOOLEAN
  /\ pc \in Purges \cup {"asleep", "dead"}
  /\ pc = "events" => plan.events > 0
  /\ pc = "issues" => plan.issues > 0

\* TypeOK by its parts.
LEMMA TypeParts ==
  TypeOK <=> /\ TablesTyped /\ TaskTyped
             /\ now \in Nat
             /\ pending \subseteq Rec
             /\ settings \in Settings
             /\ spent \in [Outside -> Nat]
BY DEF TypeOK, TablesTyped, TaskTyped, RowsBelowNext

\* Spending keeps the account typed (Spend).
LEMMA SpentTyped ==
  ASSUME spent \in [Outside -> Nat], NEW kind \in Outside, Spend(kind)
  PROVE  spent' \in [Outside -> Nat]
BY DEF Spend

\* What the ends of a sweep leave (EndSweep).
LEMMA EndedTyped ==
  ASSUME EndSweep PROVE plan' \in Settings /\ cutoff' \in Int /\ undisturbed' \in BOOLEAN
<1>1. plan' \in Settings /\ cutoff' \in Int
  BY DEF EndSweep, Unlimited, Settings
<1>2. undisturbed' \in BOOLEAN
  BY ZenonT(30) DEF EndSweep
<1>. QED
  BY <1>1, <1>2

\* Only the digest task and the purges change the tables, and they leave them
\* typed and consistent.
LEMMA TablesPreserved ==
  ASSUME TypeOK, Consistent, [Next]_vars
  PROVE  TablesTyped' /\ Consistent'
<1>. USE TypeParts
<1>1. TablesTyped /\ now \in Nat /\ pending \subseteq Rec
  OBVIOUS
<1>2. ASSUME NEW r \in pending, Write(r) PROVE TablesTyped' /\ Consistent'
  <2>1. r \in Rec /\ db' = Upserted(db, r)
    BY <1>1, <1>2 DEF Write
  <2>2. /\ DbTyped(db') /\ KeysUnique(db') /\ EventsGrouped(db') /\ RowsBelowNext(db')
        /\ db'.nextRow = IF r.eid \in Stored(db) THEN db.nextRow ELSE db.nextRow + 1
    BY <1>1, <2>1, UpsertTyped, UpsertSound, UpsertRows DEF TablesTyped, Consistent
  <2>3. received' \in Seq(Nat) /\ Len(received') = db'.nextRow - 1
    <3>1. CASE r.eid \in Stored(db)
      BY <1>1, <1>2, <2>2, <3>1 DEF Write, TablesTyped
    <3>2. CASE r.eid \notin Stored(db)
      <4>1. received' = Append(received, now)
        BY <1>2, <3>2 DEF Write
      <4>2. db.nextRow \in Nat
        BY <1>1 DEF TablesTyped, DbTyped
      <4>. QED
        BY <1>1, <2>2, <3>2, <4>1, <4>2, AppendProperties DEF TablesTyped
    <3>. QED
      BY <3>1, <3>2
  <2>. QED
    BY <2>2, <2>3 DEF TablesTyped, Consistent
<1>3. CASE Sweep
  <2>1. received' = received
    BY <1>3 DEF Sweep, PurgeAge, PurgeEvents, PurgeIssues, Purge
  <2>2. \/ db' = db
        \/ \E gone \in {AgedEvents(db, cutoff), ExcessEvents(db, plan.events)} :
             db' = WithoutEvents(db, gone)
        \/ db' = WithoutIssues(db, ExcessIssues(db, plan.issues))
    BY <1>3 DEF Sweep, PurgeAge, PurgeEvents, PurgeIssues, Purge
  <2>3. /\ DbTyped(db') /\ KeysUnique(db') /\ EventsGrouped(db') /\ RowsBelowNext(db')
        /\ db'.nextRow = db.nextRow
    BY <1>1, <2>2, WithoutEventsSound, WithoutIssuesSound, WithoutIssuesRows
       DEF TablesTyped, Consistent
  <2>. QED
    BY <1>1, <2>1, <2>3 DEF TablesTyped, Consistent
<1>4. CASE UNCHANGED <<db, received>>
  BY <1>1, <1>4 DEF TablesTyped, Consistent
<1>. QED
  BY <1>2, <1>3, <1>4
     DEF Next, Advance, Prepare, PutSettings, Restart, Wake, SkipTick, vars

\* The task goes to a purge only with a limit for it.
LEMMA TaskPreserved ==
  ASSUME TypeOK, [Next]_vars
  PROVE  TaskTyped'
<1>1. TaskTyped /\ now \in Nat /\ settings \in Settings
  BY TypeParts
<1>2. CASE Wake
  <2>1. BootDays \in Nat /\ DayParts \in Nat
    BY RetentionAssumption
  <2>2. CASE Begin(settings)
    <3>1. EffectiveDays(settings) \in Nat
      BY <1>1, <2>1 DEF EffectiveDays, Settings
    <3>2. /\ FirstStage(settings) \in Purges \cup {"asleep"}
          /\ FirstStage(settings) = "events" => settings.events > 0
          /\ FirstStage(settings) = "issues" => settings.issues > 0
      BY DEF FirstStage, AfterAge, AfterEvents, Purges
    <3>3. CASE FirstStage(settings) = "asleep"
      BY <2>2, <3>3, EndedTyped DEF Begin, TaskTyped
    <3>4. CASE FirstStage(settings) # "asleep"
      <4>1. /\ pc' = FirstStage(settings) /\ plan' = settings
            /\ cutoff' = now - EffectiveDays(settings) * DayParts
            /\ undisturbed' \in BOOLEAN
        BY <2>2, <3>4, ZenonT(30) DEF Begin
      <4>2. cutoff' \in Int
        BY <1>1, <2>1, <3>1, <4>1
      <4>. QED
        BY <1>1, <3>2, <4>1, <4>2 DEF TaskTyped
    <3>. QED
      BY <3>3, <3>4
  <2>3. CASE pc' = "dead" /\ EndSweep
    BY <2>3, EndedTyped DEF TaskTyped
  <2>. QED
    BY <1>2, <2>2, <2>3 DEF Wake
<1>3. ASSUME NEW stage \in Purges, NEW purged, NEW next \in Purges \cup {"asleep"},
             Purge(stage, purged, next),
             next = "events" => plan.events > 0,
             next = "issues" => plan.issues > 0
      PROVE  TaskTyped'
  <2>1. CASE next = "asleep"
    BY <1>3, <2>1, EndedTyped DEF Purge, TaskTyped
  <2>2. CASE next # "asleep"
    <3>1. pc' = next /\ plan' = plan /\ cutoff' = cutoff
      BY <1>3, <2>2 DEF Purge
    <3>2. undisturbed' = undisturbed \/ undisturbed' = FALSE
      BY <1>3, <2>2 DEF Purge
    <3>3. undisturbed' \in BOOLEAN
      BY <1>1, <3>2, ZenonT(30) DEF TaskTyped
    <3>. QED
      BY <1>1, <1>3, <3>1, <3>3 DEF TaskTyped
  <2>. QED
    BY <2>1, <2>2
<1>4. CASE Sweep
  <2>1. CASE PurgeAge
    BY <1>3, <2>1 DEF PurgeAge, AfterAge, AfterEvents, Purges
  <2>2. CASE PurgeEvents
    BY <1>3, <2>2 DEF PurgeEvents, AfterEvents, Purges
  <2>3. CASE PurgeIssues
    BY <1>3, <2>3 DEF PurgeIssues, Purges
  <2>. QED
    BY <1>4, <2>1, <2>2, <2>3 DEF Sweep
<1>5. CASE Restart
  BY <1>5, EndedTyped DEF Restart, TaskTyped
<1>6. ASSUME NEW r \in pending, Write(r) PROVE TaskTyped'
  <2>1. pc' = pc /\ plan' = plan /\ cutoff' = cutoff
    BY <1>6 DEF Write, task
  <2>2. undisturbed' \in BOOLEAN
    BY <1>6, ZenonT(30) DEF Write
  <2>. QED
    BY <1>1, <2>1, <2>2 DEF TaskTyped
<1>7. CASE UNCHANGED <<task, undisturbed>>
  BY <1>1, <1>7 DEF TaskTyped, task
<1>. QED
  BY <1>2, <1>4, <1>5, <1>6, <1>7
     DEF Next, Advance, Prepare, PutSettings, SkipTick, vars

\* The clock, what waits to be committed, and the settings row.
LEMMA RestPreserved ==
  ASSUME TypeOK, [Next]_vars
  PROVE  /\ now' \in Nat
         /\ pending' \subseteq Rec
         /\ settings' \in Settings
         /\ spent' \in [Outside -> Nat]
<1>1. /\ now \in Nat /\ pending \subseteq Rec /\ settings \in Settings
      /\ spent \in [Outside -> Nat]
  BY TypeParts
<1>2. now' = now \/ now' = now + 1
  BY DEF Next, Advance, Prepare, Write, PutSettings, Restart, Wake, SkipTick, Sweep,
         PurgeAge, PurgeEvents, PurgeIssues, Purge, vars
<1>3. pending' \subseteq Rec
  <2>1. CASE Prepare
    <3>1. PICK p \in Posts :
            pending' = pending \cup {[eid |-> p.eid, project |-> p.project, at |-> now]}
      BY <2>1 DEF Prepare
    <3>2. [eid |-> p.eid, project |-> p.project, at |-> now] \in Rec
      BY <1>1, RetentionAssumption DEF Rec
    <3>. QED
      BY <1>1, <3>1, <3>2
  <2>2. CASE pending' \subseteq pending
    BY <1>1, <2>2
  <2>. QED
    BY <2>1, <2>2
       DEF Next, Advance, Write, PutSettings, Restart, Wake, SkipTick, Sweep,
           PurgeAge, PurgeEvents, PurgeIssues, Purge, vars
<1>4. settings' \in Settings
  <2>1. CASE PutSettings
    <3>1. PICK s \in Requests : s.events >= 0 /\ s.issues >= 0 /\ s.days >= 0 /\ settings' = s
      BY <2>1 DEF PutSettings
    <3>2. s \in [events : Int, issues : Int, days : Int]
      BY RetentionAssumption
    <3>. QED
      BY <3>1, <3>2 DEF Settings
  <2>2. CASE settings' = settings
    BY <1>1, <2>2
  <2>. QED
    BY <2>1, <2>2
       DEF Next, Advance, Prepare, Write, Restart, Wake, SkipTick, Sweep,
           PurgeAge, PurgeEvents, PurgeIssues, Purge, vars
<1>5. spent' \in [Outside -> Nat]
  <2>1. spent' = spent \/ \E kind \in Outside : Spend(kind)
    BY DEF Next, Advance, Prepare, Write, PutSettings, Restart, Wake, SkipTick, Sweep,
           PurgeAge, PurgeEvents, PurgeIssues, Purge, vars, Outside
  <2>. QED
    BY <1>1, <2>1, SpentTyped
<1>. QED
  BY <1>1, <1>2, <1>3, <1>4, <1>5

TablesInv == TypeOK /\ Consistent

\* The first states are typed and sound.
LEMMA InitTablesInv == Init => TablesInv
<1>. SUFFICES ASSUME Init PROVE TablesInv
  OBVIOUS
<1>1. TablesTyped /\ Consistent
  <2>1. DbTyped(db) /\ KeysUnique(db) /\ EventsGrouped(db)
    BY EmptyDbSound DEF Init
  <2>2. RowsBelowNext(db) /\ db.nextRow = 1
    BY DEF Init, EmptyDb, Db, NoRows, Stored, RowsBelowNext
  <2>3. received \in Seq(Nat) /\ Len(received) = 0
    BY DEF Init
  <2>. QED
    BY <2>1, <2>2, <2>3 DEF TablesTyped, Consistent
<1>2. undisturbed \in BOOLEAN
  BY ZenonT(30) DEF Init
<1>3. /\ plan \in Settings /\ cutoff \in Int /\ pc = "asleep"
      /\ now \in Nat /\ pending \subseteq Rec /\ settings \in Settings
      /\ spent \in [Outside -> Nat]
  BY DEF Init, Unlimited, Settings
<1>. QED
  BY <1>1, <1>2, <1>3, TypeParts DEF TablesInv, TaskTyped

\* Every step keeps types and soundness.
LEMMA NextTablesInv == TablesInv /\ [Next]_vars => TablesInv'
<1>. SUFFICES ASSUME TypeOK, Consistent, [Next]_vars PROVE TypeOK' /\ Consistent'
  BY DEF TablesInv
<1>1. TablesTyped' /\ Consistent' /\ TaskTyped'
  BY TablesPreserved, TaskPreserved
<1>. QED
  BY <1>1, RestPreserved DEF TypeOK, TablesTyped, TaskTyped, RowsBelowNext

\* Every variable keeps its kind; every event row has its stamp; a sweep is at a
\* purge only with a limit for it (retention.rs, run_one_tick).
THEOREM RetentionTyped == Spec => []TypeOK
BY InitTablesInv, NextTablesInv, PTL DEF Spec, TablesInv

\* A delete of events leaves no issue with more of them.
LEMMA WithoutEventsCovered ==
  ASSUME NEW d, DbTyped(d), Covered(d), NEW gone
  PROVE  Covered(WithoutEvents(d, gone))
<1> DEFINE u == WithoutEvents(d, gone)
<1>1. /\ Live(u) = Live(d) /\ u.issues = d.issues
      /\ Stored(u) \subseteq Stored(d)
      /\ \A i \in Live(d) : EventsOf(u, i) \subseteq EventsOf(d, i)
  BY DEF WithoutEvents, Db, Live, Stored, Keep, EventsOf
<1>. HIDE DEF u
<1>2. IsFiniteSet(Stored(u))
  BY <1>1, FS_Subset DEF Covered
<1>3. ASSUME NEW i \in Live(u) PROVE Cardinality(EventsOf(u, i)) <= u.issues[i].count
  <2>1. /\ IsFiniteSet(EventsOf(d, i)) /\ Cardinality(EventsOf(d, i)) \in Nat
        /\ EventsOf(u, i) \in SUBSET EventsOf(d, i)
    BY <1>1, <1>3, EventsOfFinite DEF Covered
  <2>2. /\ Cardinality(EventsOf(u, i)) <= Cardinality(EventsOf(d, i))
        /\ Cardinality(EventsOf(u, i)) \in Nat
    BY <2>1, FS_Subset, FS_CardinalityType
  <2>3. d.issues[i].count \in Nat /\ Cardinality(EventsOf(d, i)) <= d.issues[i].count
    BY <1>1, <1>3 DEF DbTyped, IssueRow, Covered, CountsCover
  <2>. QED BY <1>1, <2>1, <2>2, <2>3
<1>. QED BY <1>2, <1>3 DEF Covered, CountsCover, u

\* Neither the digest task nor a purge leaves an issue with fewer occurrences
\* than events.
LEMMA NextCovered == TablesInv /\ Covered(db) /\ [Next]_vars => Covered(db)'
<1>. SUFFICES ASSUME TablesInv, Covered(db), [Next]_vars PROVE Covered(db')
  BY DEF Covered, CountsCover
<1>1. DbTyped(db) /\ EventsGrouped(db) /\ pending \subseteq Rec
  BY DEF TablesInv, TypeOK, Consistent
<1>2. ASSUME NEW r \in pending, Write(r) PROVE Covered(db')
  BY <1>1, <1>2, UpsertCovered DEF Write
<1>3. CASE Sweep
  <2>1. \/ db' = db
        \/ \E gone \in {AgedEvents(db, cutoff), ExcessEvents(db, plan.events)} :
             db' = WithoutEvents(db, gone)
        \/ db' = WithoutIssues(db, ExcessIssues(db, plan.issues))
    BY <1>3 DEF Sweep, PurgeAge, PurgeEvents, PurgeIssues, Purge
  <2>. QED BY <1>1, <2>1, WithoutEventsCovered, StatementsCovered
<1>4. CASE db' = db
  BY <1>4
<1>. QED
  BY <1>2, <1>3, <1>4
     DEF Next, Advance, Prepare, PutSettings, Restart, Wake, SkipTick, vars

\* Whatever is purged between whatever commits, one issue per key, every event
\* under a live issue of its fingerprint, and none with fewer occurrences than
\* events (store.rs, the three purges).
THEOREM PurgesKeepTablesSound == Spec => []TablesSound
<1>1. Init => Covered(db)
  <2>1. Stored(EmptyDb) = {} /\ Live(EmptyDb) = {}
    BY DEF EmptyDb, Db, NoRows, Stored, Live
  <2>. QED BY <2>1, FS_EmptySet DEF Init, Covered, CountsCover
<1>2. TablesInv /\ Covered(db) => TablesSound
  BY DEF TablesInv, Consistent, Covered, TablesSound
<1>. QED
  BY <1>1, <1>2, InitTablesInv, NextTablesInv, NextCovered, PTL DEF Spec

----------------------------------------------------------------------------
(***************************************************************************)
(* The age purge                                                           *)
(***************************************************************************)

\* The age purge never takes an event received on a later date than the
\* cutoff's, for any settings and instants (store.rs:829).
THEOREM LaterDatesAlwaysKept == Spec => LaterDatesKept
<1>1. TablesInv /\ [Next]_vars =>
        (pc = "age" => \A e \in Stored(db) \ Stored(db)' : Day(ReceivedAt(db, e)) <= Day(cutoff))
  <2>. SUFFICES ASSUME TablesInv, [Next]_vars, pc = "age",
                       NEW e \in Stored(db) \ Stored(db)'
                PROVE  Day(ReceivedAt(db, e)) <= Day(cutoff)
    OBVIOUS
  <2>1. TablesTyped /\ pending \subseteq Rec
    BY TypeParts DEF TablesInv
  <2>2. ASSUME NEW r \in pending, Write(r) PROVE FALSE
    BY <2>1, <2>2, UpsertRows DEF Write, TablesTyped
  <2>3. CASE PurgeAge
    <3>1. db' # db
      OBVIOUS
    <3>2. db' = WithoutEvents(db, AgedEvents(db, cutoff))
      BY <2>3, <3>1 DEF PurgeAge, Purge
    <3>3. Stored(db') = Stored(db) \ AgedEvents(db, cutoff)
      BY <2>1, <3>2, WithoutEventsSound DEF TablesTyped
    <3>4. e \in AgedEvents(db, cutoff)
      BY <3>3
    <3>. QED
      BY <3>4 DEF AgedEvents, SortsBelow
  <2>4. CASE UNCHANGED db
    BY <2>4
  <2>. QED
    BY <2>2, <2>3, <2>4
       DEF Next, Advance, Prepare, PutSettings, Restart, Wake, SkipTick, Sweep,
           PurgeEvents, PurgeIssues, Purge, vars
<1>. QED
  BY <1>1, InitTablesInv, NextTablesInv, PTL DEF Spec, LaterDatesKept

----------------------------------------------------------------------------
(***************************************************************************)
(* Ranks: ROW_NUMBER() OVER (... ORDER BY ...) numbers a row by how many   *)
(* rows come before it; the purges delete those past a number.             *)
(***************************************************************************)

\* before[x]: the members of S that come before x in a strict total order.
Ranking(S, before) ==
  /\ IsFiniteSet(S)
  /\ before \in [S -> SUBSET S]
  /\ \A x \in S : x \notin before[x]
  /\ \A x, y \in S : x = y \/ x \in before[y] \/ y \in before[x]
  /\ \A x \in S : \A y \in before[x] : before[y] \subseteq before[x]

\* What comes before another has the smaller rank.
LEMMA RanksGrow ==
  ASSUME NEW S, NEW before, Ranking(S, before)
  PROVE  /\ \A x \in S : Cardinality(before[x]) \in Nat
         /\ \A x \in S : \A y \in before[x] : Cardinality(before[y]) < Cardinality(before[x])
<1>1. ASSUME NEW x \in S
      PROVE  IsFiniteSet(before[x]) /\ Cardinality(before[x]) \in Nat
  <2>1. before[x] \in SUBSET S
    BY DEF Ranking
  <2>. QED BY <2>1, FS_Subset, FS_CardinalityType DEF Ranking
<1>2. ASSUME NEW x \in S, NEW y \in before[x]
      PROVE  Cardinality(before[y]) < Cardinality(before[x])
  <2>1. y \in S /\ before[y] \in SUBSET before[x] /\ before[y] # before[x]
    BY DEF Ranking
  <2>2. /\ Cardinality(before[y]) <= Cardinality(before[x])
        /\ Cardinality(before[y]) # Cardinality(before[x])
    BY <1>1, <2>1, FS_Subset
  <2>. QED BY <1>1, <2>1, <2>2
<1>. QED BY <1>1, <1>2

\* Of some rows there is one that no other comes before.
LEMMA FirstOfSome ==
  ASSUME NEW S, NEW before, Ranking(S, before), NEW T \in SUBSET S, T # {}
  PROVE  \E x \in T : \A y \in T : y \notin before[x]
<1> DEFINE ranks == {Cardinality(before[x]) : x \in T}
<1>1. ranks \subseteq Nat /\ ranks # {}
  BY RanksGrow
<1>2. PICK r \in ranks : \A q \in ranks : <<q, r>> \notin OpToRel(<, Nat)
  BY <1>1, NatLessThanWellFounded, WFMin
<1>3. \A q \in ranks : ~(q < r)
  BY <1>1, <1>2 DEF OpToRel
<1>4. PICK x \in T : r = Cardinality(before[x])
  OBVIOUS
<1>. QED BY <1>3, <1>4, RanksGrow

\* And one that comes before no other.
LEMMA LastOfSome ==
  ASSUME NEW S, NEW before, Ranking(S, before), NEW T \in SUBSET S, T # {}
  PROVE  \E x \in T : T \ {x} \subseteq before[x]
<1> DEFINE size == Cardinality(S)
           left(x) == size - Cardinality(before[x])
           lefts == {left(x) : x \in T}
<1>1. size \in Nat
  BY FS_CardinalityType DEF Ranking
<1>2. ASSUME NEW x \in T PROVE left(x) \in Nat
  <2>1. before[x] \in SUBSET S /\ IsFiniteSet(S)
    BY DEF Ranking
  <2>2. Cardinality(before[x]) <= size /\ Cardinality(before[x]) \in Nat
    BY <2>1, FS_Subset, RanksGrow
  <2>. QED BY <1>1, <2>2
<1>3. lefts \subseteq Nat /\ lefts # {}
  BY <1>2
<1>4. PICK r \in lefts : \A q \in lefts : <<q, r>> \notin OpToRel(<, Nat)
  BY <1>3, NatLessThanWellFounded, WFMin
<1>5. \A q \in lefts : ~(q < r)
  BY <1>3, <1>4 DEF OpToRel
<1>6. PICK x \in T : r = left(x)
  OBVIOUS
<1>7. ASSUME NEW y \in T \ {x} PROVE y \in before[x]
  <2>1. SUFFICES ASSUME x \in before[y] PROVE FALSE
    BY DEF Ranking
  <2>2. Cardinality(before[x]) < Cardinality(before[y])
    BY <2>1, RanksGrow
  <2>3. ~(left(y) < left(x))
    BY <1>5, <1>6
  <2>. QED BY <1>1, <2>2, <2>3, RanksGrow
<1>. QED BY <1>7

\* Deleting the rows of rank n and more leaves at most n; where it deletes one,
\* it leaves n, which all come before it.
LEMMA RankedDelete ==
  ASSUME NEW S, NEW before, Ranking(S, before), NEW n \in Nat
  PROVE  LET kept == {x \in S : Cardinality(before[x]) < n} IN
         /\ Cardinality(kept) <= n
         /\ \A x \in S \ kept : Cardinality(kept) = n /\ kept \subseteq before[x]
<1> DEFINE rank(x) == Cardinality(before[x])
           kept == {x \in S : rank(x) < n}
<1>1. \A x \in S : rank(x) \in Nat
  BY RanksGrow
<1>2. IsFiniteSet(S) /\ IsFiniteSet(kept) /\ Cardinality(kept) \in Nat
  BY FS_Subset, FS_CardinalityType DEF Ranking
<1>3. ASSUME NEW x \in S \ kept PROVE kept \subseteq before[x]
  <2> SUFFICES ASSUME NEW y \in kept PROVE y \in before[x]
    OBVIOUS
  <2>1. ~(x \in before[y])
    <3>1. SUFFICES ASSUME x \in before[y] PROVE FALSE
      OBVIOUS
    <3>2. rank(x) < rank(y)
      BY <3>1, RanksGrow
    <3>. QED BY <1>1, <3>2
  <2>. QED BY <2>1 DEF Ranking
<1>4. Cardinality(kept) <= n
  <2>1. CASE kept = {}
    BY <2>1, FS_EmptySet
  <2>2. CASE kept # {}
    <3>0. kept \in SUBSET S
      OBVIOUS
    <3>1. \E x \in kept : kept \ {x} \subseteq before[x]
      <4> HIDE DEF kept
      <4>. QED BY <2>2, <3>0, LastOfSome
    <3>. PICK x \in kept : kept \ {x} \subseteq before[x]
      BY <3>1
    <3>2. IsFiniteSet(before[x]) /\ rank(x) \in Nat /\ rank(x) < n
      <4>1. before[x] \in SUBSET S
        BY DEF Ranking
      <4>. QED BY <1>1, <1>2, <4>1, FS_Subset
    <3>3. Cardinality(kept \ {x}) = Cardinality(kept) - 1
      BY <1>2, FS_RemoveElement
    <3>4. Cardinality(kept \ {x}) <= rank(x)
      BY <3>2, FS_Subset
    <3>. QED BY <1>2, <3>2, <3>3, <3>4
  <2>. QED BY <2>1, <2>2
<1>5. ASSUME S \ kept # {} PROVE Cardinality(kept) >= n
  <2> DEFINE excess == S \ kept
  <2>1. excess \in SUBSET S /\ excess # {}
    BY <1>5
  <2>2. \E x \in excess : \A y \in excess : y \notin before[x]
    <3> HIDE DEF excess
    <3>. QED BY <2>1, FirstOfSome
  <2>3. PICK x \in excess : \A y \in excess : y \notin before[x]
    BY <2>2
  <2>4. before[x] \in SUBSET kept
    BY <2>3 DEF Ranking
  <2>5. rank(x) <= Cardinality(kept)
    BY <1>2, <2>4, FS_Subset
  <2>6. rank(x) >= n
    BY <1>1, <2>3
  <2>. QED BY <1>1, <1>2, <2>5, <2>6
<1>. QED BY <1>2, <1>3, <1>4, <1>5

\* The issues of a project, newest first, ids deciding (the ORDER BY of
\* purge_excess_issues_per_project).
LEMMA IssuesRanked ==
  ASSUME NEW d, DbTyped(d), NEW p
  PROVE  Ranking(OfProject(d, p), [i \in OfProject(d, p) |-> IssuesBefore(d, i)])
<1> DEFINE S == OfProject(d, p)
           before == [i \in S |-> IssuesBefore(d, i)]
<1>1. \A i \in Live(d) : i \in Nat /\ d.issues[i].last \in Nat
  BY DEF DbTyped, IssueRow
<1>2. IsFiniteSet(S)
  <2>1. S \subseteq 1 .. (d.nextId - 1)
    BY DEF OfProject, DbTyped
  <2>2. IsFiniteSet(1 .. (d.nextId - 1))
    BY FS_Interval DEF DbTyped
  <2>. QED BY <2>1, <2>2, FS_Subset
<1>3. ASSUME NEW i \in S
      PROVE  before[i] = {j \in S : d.issues[j].last > d.issues[i].last
                                   \/ (d.issues[j].last = d.issues[i].last /\ j > i)}
  BY DEF IssuesBefore, OfProject
<1>4. S \subseteq Live(d)
  BY DEF OfProject
<1> HIDE DEF S, before
<1>5. before \in [S -> SUBSET S]
  <2>1. DOMAIN before = S /\ before = [i \in S |-> before[i]]
    BY DEF before
  <2>2. \A i \in S : before[i] \in SUBSET S
    BY <1>3
  <2>. QED BY <2>1, <2>2
<1>6. \A i \in S : i \notin before[i]
  BY <1>1, <1>3, <1>4
<1>7. \A i, j \in S : i = j \/ i \in before[j] \/ j \in before[i]
  BY <1>1, <1>3, <1>4
<1>8. ASSUME NEW i \in S, NEW j \in before[i], NEW k \in before[j] PROVE k \in before[i]
  <2>1. j \in S /\ k \in S
    BY <1>3
  <2>. QED BY <1>1, <1>3, <1>4, <2>1
<1>9. Ranking(S, before)
  BY <1>2, <1>5, <1>6, <1>7, <1>8 DEF Ranking
<1>. QED BY <1>9 DEF S, before

\* The event rows are finitely many, numbered from 1, no two alike.
RowsDistinct(d) ==
  /\ IsFiniteSet(Stored(d))
  /\ \A e \in Stored(d) : d.events[e].row # 0
  /\ \A e, g \in Stored(d) : d.events[e].row = d.events[g].row => e = g

\* An upsert's event row is a new one.
LEMMA UpsertDistinct ==
  ASSUME NEW d, DbTyped(d), RowsBelowNext(d), RowsDistinct(d), NEW r \in Rec
  PROVE  RowsDistinct(Upserted(d, r))
<1>. DEFINE u == Upserted(d, r)
<1>1. u.events = EventsAfter(d, r)
  BY DEF Upserted, Db
<1>2. CASE r.eid \in Stored(d)
  BY <1>1, <1>2 DEF EventsAfter, Stored, RowsDistinct
<1>3. CASE r.eid \notin Stored(d)
  <2>1. u.events = Assign(d.events, r.eid, [issue |-> TargetId(d, r), row |-> d.nextRow])
    BY <1>1, <1>3 DEF EventsAfter
  <2>2. /\ Stored(u) = Stored(d) \cup {r.eid}
        /\ u.events[r.eid].row = d.nextRow
        /\ \A e \in Stored(d) : u.events[e] = d.events[e]
    BY <1>3, <2>1 DEF Assign, Stored
  <2>3. IsFiniteSet(Stored(u))
    BY <2>2, FS_AddElement DEF RowsDistinct
  <2>4. /\ d.nextRow \in Nat \ {0}
        /\ \A e \in Stored(d) : d.events[e].row \in Nat /\ d.events[e].row < d.nextRow
    BY DEF DbTyped, EventRow, RowsBelowNext
  <2>5. \A e \in Stored(d) : d.events[e].row # 0
    BY DEF RowsDistinct
  <2>6. \A e, g \in Stored(d) : d.events[e].row = d.events[g].row => e = g
    BY DEF RowsDistinct
  <2>7. \A e \in Stored(u) : u.events[e].row # 0
    BY <2>2, <2>4, <2>5
  <2>8. \A e, g \in Stored(u) : u.events[e].row = u.events[g].row => e = g
    BY <2>2, <2>4, <2>6
  <2>. QED BY <2>3, <2>7, <2>8 DEF RowsDistinct
<1>. QED BY <1>2, <1>3

\* Deletes leave rows as they are.
LEMMA DeletesDistinct ==
  ASSUME NEW d, RowsDistinct(d), NEW gone
  PROVE  /\ RowsDistinct(WithoutEvents(d, gone))
         /\ RowsDistinct(WithoutIssues(d, gone))
<1>1. ASSUME NEW u, Stored(u) \in SUBSET Stored(d), \A e \in Stored(u) : u.events[e] = d.events[e]
      PROVE  RowsDistinct(u)
  BY <1>1, FS_Subset DEF RowsDistinct
<1>2. \A S : LET k == Keep(d.events, S) IN
              /\ DOMAIN k \in SUBSET Stored(d)
              /\ \A e \in DOMAIN k : k[e] = d.events[e]
  BY DEF Keep, Stored
<1>3. RowsDistinct(WithoutEvents(d, gone))
  BY <1>1, <1>2 DEF WithoutEvents, Db, Stored
<1>4. RowsDistinct(WithoutIssues(d, gone))
  BY <1>1, <1>2 DEF WithoutIssues, Db, Stored
<1>. QED BY <1>3, <1>4

\* Every event row has its stamp.
Stamped(d) ==
  /\ received \in Seq(Nat)
  /\ Len(received) = d.nextRow - 1

\* The stamps are instants.
LEMMA StampsTyped ==
  ASSUME NEW d, DbTyped(d), RowsBelowNext(d), RowsDistinct(d), Stamped(d), NEW e \in Stored(d)
  PROVE  d.events[e].row \in Nat /\ ReceivedAt(d, e) \in Nat
<1>1. d.events[e].row \in Nat \ {0} /\ d.events[e].row < d.nextRow /\ d.nextRow \in Nat
  BY DEF DbTyped, EventRow, RowsBelowNext, RowsDistinct
<1>2. d.events[e].row \in 1 .. Len(received)
  BY <1>1 DEF Stamped
<1>3. received[d.events[e].row] \in Nat
  BY <1>2, ElementOfSeq DEF Stamped
<1>. QED BY <1>1, <1>3 DEF ReceivedAt

\* The events of an issue, newest first, rowids deciding (the ORDER BY of
\* purge_excess_events_per_issue).
LEMMA EventsRanked ==
  ASSUME NEW d, DbTyped(d), RowsBelowNext(d), RowsDistinct(d), Stamped(d), NEW i
  PROVE  Ranking(EventsOf(d, i), [e \in EventsOf(d, i) |-> EventsBefore(d, e)])
<1> DEFINE S == EventsOf(d, i)
           before == [e \in S |-> EventsBefore(d, e)]
           at(e) == ReceivedAt(d, e)
           row(e) == d.events[e].row
<1>1. S \subseteq Stored(d) /\ IsFiniteSet(S)
  <2>1. S \in SUBSET Stored(d)
    BY DEF EventsOf
  <2>. QED BY <2>1, FS_Subset DEF RowsDistinct
<1>2. ASSUME NEW e \in Stored(d) PROVE row(e) \in Nat /\ at(e) \in Nat
  BY StampsTyped
<1>3. ASSUME NEW e \in S
      PROVE  before[e] = {g \in S : at(g) > at(e) \/ (at(g) = at(e) /\ row(g) > row(e))}
  BY DEF EventsBefore, EventsOf
<1>4. \A e, g \in S : row(e) = row(g) => e = g
  BY <1>1 DEF RowsDistinct
<1>5. \A e \in S : row(e) \in Nat /\ at(e) \in Nat
  BY <1>1, <1>2
<1>6. before \in [S -> SUBSET S]
  <2>2. \A e \in S : EventsBefore(d, e) \in SUBSET S
    BY <1>3
  <2>. QED BY <2>2
<1> HIDE DEF S, before, at, row
<1>7. \A e \in S : e \notin before[e]
  BY <1>3, <1>5
<1>8. \A e, g \in S : e = g \/ e \in before[g] \/ g \in before[e]
  BY <1>3, <1>4, <1>5
<1>9. ASSUME NEW e \in S, NEW g \in before[e], NEW h \in before[g] PROVE h \in before[e]
  <2>1. g \in S /\ h \in S
    BY <1>3
  <2>. QED BY <1>3, <1>5, <2>1
<1>10. Ranking(S, before)
  BY <1>1, <1>6, <1>7, <1>8, <1>9 DEF Ranking
<1>. QED BY <1>10 DEF S, before

\* What the purge of issues leaves of each project: no more than the limit, and
\* where it took one, as many as the limit, all newer (store.rs,
\* purge_excess_issues_per_project).
LEMMA IssuesPurged ==
  ASSUME NEW d, DbTyped(d), NEW n \in Nat
  PROVE  LET u == WithoutIssues(d, ExcessIssues(d, n)) IN
         /\ \A p : Cardinality(OfProject(u, p)) <= n
         /\ \A i \in Live(d) \ Live(u) :
              LET kept == OfProject(d, d.issues[i].project) \cap Live(u) IN
              Cardinality(kept) = n /\ kept \subseteq IssuesBefore(d, i)
<1> DEFINE u == WithoutIssues(d, ExcessIssues(d, n))
           before(p) == [i \in OfProject(d, p) |-> IssuesBefore(d, i)]
           kept(p) == {i \in OfProject(d, p) : Cardinality(before(p)[i]) < n}
<1>1. /\ Live(u) = Live(d) \ ExcessIssues(d, n)
      /\ \A i \in Live(u) : u.issues[i] = d.issues[i]
  BY DEF WithoutIssues, Db, Keep, Live
<1>2. ASSUME NEW p
      PROVE  /\ OfProject(u, p) = kept(p)
             /\ OfProject(d, p) \cap Live(u) = kept(p)
             /\ Cardinality(kept(p)) <= n
             /\ \A i \in OfProject(d, p) \ kept(p) :
                  Cardinality(kept(p)) = n /\ kept(p) \subseteq IssuesBefore(d, i)
  <2>1. Ranking(OfProject(d, p), before(p))
    BY IssuesRanked
  <2>2. \A i \in OfProject(d, p) : Cardinality(before(p)[i]) \in Nat
    <3> HIDE DEF before
    <3>. QED BY <2>1, RanksGrow
  <2>3. \A i \in OfProject(d, p) : i \in Live(u) <=> Cardinality(before(p)[i]) < n
    BY <1>1, <2>2 DEF ExcessIssues, OfProject
  <2>4. OfProject(u, p) = OfProject(d, p) \cap Live(u)
    BY <1>1 DEF OfProject
  <2>5. /\ Cardinality(kept(p)) <= n
        /\ \A i \in OfProject(d, p) \ kept(p) :
             Cardinality(kept(p)) = n /\ kept(p) \subseteq before(p)[i]
    <3> HIDE DEF before
    <3>. QED BY <2>1, RankedDelete
  <2>6. OfProject(d, p) \cap Live(u) = kept(p)
    BY <2>3
  <2>. QED BY <2>4, <2>5, <2>6
<1>3. ASSUME NEW i \in Live(d) \ Live(u)
      PROVE  LET k == OfProject(d, d.issues[i].project) \cap Live(u) IN
             Cardinality(k) = n /\ k \subseteq IssuesBefore(d, i)
  <2>1. i \in OfProject(d, d.issues[i].project)
    BY DEF OfProject
  <2> HIDE DEF kept, u
  <2>. QED BY <1>2, <2>1
<1>4. \A p : Cardinality(OfProject(u, p)) <= n
  <2> HIDE DEF kept, u
  <2>. QED BY <1>2
<1>. QED BY <1>3, <1>4

\* The same of the events of each issue (store.rs, purge_excess_events_per_issue).
LEMMA EventsPurged ==
  ASSUME NEW d, DbTyped(d), RowsBelowNext(d), RowsDistinct(d), Stamped(d), NEW n \in Nat
  PROVE  LET u == WithoutEvents(d, ExcessEvents(d, n)) IN
         /\ \A i : Cardinality(EventsOf(u, i)) <= n
         /\ \A e \in Stored(d) \ Stored(u) :
              LET kept == EventsOf(d, d.events[e].issue) \cap Stored(u) IN
              Cardinality(kept) = n /\ kept \subseteq EventsBefore(d, e)
<1> DEFINE u == WithoutEvents(d, ExcessEvents(d, n))
           before(i) == [e \in EventsOf(d, i) |-> EventsBefore(d, e)]
           kept(i) == {e \in EventsOf(d, i) : Cardinality(before(i)[e]) < n}
<1>1. /\ Stored(u) = Stored(d) \ ExcessEvents(d, n)
      /\ \A e \in Stored(u) : u.events[e] = d.events[e]
  BY DEF WithoutEvents, Db, Keep, Stored
<1>2. ASSUME NEW i
      PROVE  /\ EventsOf(u, i) = kept(i)
             /\ EventsOf(d, i) \cap Stored(u) = kept(i)
             /\ Cardinality(kept(i)) <= n
             /\ \A e \in EventsOf(d, i) \ kept(i) :
                  Cardinality(kept(i)) = n /\ kept(i) \subseteq EventsBefore(d, e)
  <2>1. Ranking(EventsOf(d, i), before(i))
    BY EventsRanked
  <2>2. \A e \in EventsOf(d, i) : Cardinality(before(i)[e]) \in Nat
    <3> HIDE DEF before
    <3>. QED BY <2>1, RanksGrow
  <2>3. ASSUME NEW e \in EventsOf(d, i)
        PROVE  e \in Stored(u) <=> Cardinality(before(i)[e]) < n
    <3>1. e \in Stored(d) /\ before(i)[e] = EventsBefore(d, e)
      BY DEF EventsOf
    <3>2. e \in ExcessEvents(d, n) <=> Cardinality(EventsBefore(d, e)) >= n
      BY <3>1 DEF ExcessEvents
    <3> HIDE DEF before, u
    <3>. QED BY <1>1, <2>2, <3>1, <3>2
  <2>4. EventsOf(u, i) = EventsOf(d, i) \cap Stored(u)
    BY <1>1 DEF EventsOf
  <2>5. /\ Cardinality(kept(i)) <= n
        /\ \A e \in EventsOf(d, i) \ kept(i) :
             Cardinality(kept(i)) = n /\ kept(i) \subseteq before(i)[e]
    <3> HIDE DEF before
    <3>. QED BY <2>1, RankedDelete
  <2>6. EventsOf(d, i) \cap Stored(u) = kept(i)
    BY <2>3
  <2>. QED BY <2>4, <2>5, <2>6
<1>3. ASSUME NEW e \in Stored(d) \ Stored(u)
      PROVE  LET k == EventsOf(d, d.events[e].issue) \cap Stored(u) IN
             Cardinality(k) = n /\ k \subseteq EventsBefore(d, e)
  <2>1. e \in EventsOf(d, d.events[e].issue)
    BY DEF EventsOf
  <2> HIDE DEF kept, u
  <2>. QED BY <1>2, <2>1
<1>4. \A i : Cardinality(EventsOf(u, i)) <= n
  <2> HIDE DEF kept, u
  <2>. QED BY <1>2
<1>. QED BY <1>3, <1>4

----------------------------------------------------------------------------
(***************************************************************************)
(* The oldest go first                                                     *)
(***************************************************************************)

RowsInv == TablesInv /\ RowsDistinct(db)

\* The parts of it that the purges' lemmas ask for.
LEMMA RowsParts ==
  ASSUME RowsInv
  PROVE  /\ DbTyped(db) /\ RowsBelowNext(db) /\ RowsDistinct(db) /\ Stamped(db)
         /\ plan.events \in Nat /\ plan.issues \in Nat
<1>1. TablesTyped /\ TaskTyped /\ RowsDistinct(db)
  BY TypeParts DEF RowsInv, TablesInv
<1>. QED BY <1>1 DEF TablesTyped, TaskTyped, Settings, Stamped

\* Rows stay distinct.
LEMMA NextRowsInv == RowsInv /\ [Next]_vars => RowsInv'
<1>. SUFFICES ASSUME RowsInv, [Next]_vars PROVE RowsDistinct(db')
  BY NextTablesInv DEF RowsInv
<1>1. /\ DbTyped(db) /\ RowsBelowNext(db) /\ RowsDistinct(db)
      /\ pending \subseteq Rec
  BY RowsParts, TypeParts DEF RowsInv, TablesInv
<1>2. ASSUME NEW r \in pending, Write(r) PROVE RowsDistinct(db')
  BY <1>1, <1>2, UpsertDistinct DEF Write
<1>3. CASE Sweep
  <2>1. \/ db' = db
        \/ \E gone \in {AgedEvents(db, cutoff), ExcessEvents(db, plan.events)} :
             db' = WithoutEvents(db, gone)
        \/ db' = WithoutIssues(db, ExcessIssues(db, plan.issues))
    BY <1>3 DEF Sweep, PurgeAge, PurgeEvents, PurgeIssues, Purge
  <2>. QED BY <1>1, <2>1, DeletesDistinct
<1>4. CASE UNCHANGED db
  BY <1>1, <1>4
<1>. QED BY <1>2, <1>3, <1>4
     DEF Next, Advance, Prepare, PutSettings, Restart, Wake, SkipTick, vars

\* From the first state on.
LEMMA RowsAlways == Spec => []RowsInv
<1>1. Init => RowsInv
  <2>. SUFFICES ASSUME Init PROVE RowsDistinct(db)
    BY InitTablesInv DEF RowsInv
  <2>1. Stored(db) = {}
    BY DEF Init, EmptyDb, Db, NoRows, Stored
  <2>. QED BY <2>1, FS_EmptySet DEF RowsDistinct
<1>. QED BY <1>1, NextRowsInv, PTL DEF Spec

\* A step that takes rows at a purge is that purge, done.
LEMMA RowsGoByPurges ==
  ASSUME RowsInv, [Next]_vars, db' # db, pc \in Purges,
         ~(Live(db) \subseteq Live(db') /\ Stored(db) \subseteq Stored(db'))
  PROVE  /\ pc = "issues" => db' = WithoutIssues(db, ExcessIssues(db, plan.issues))
         /\ pc = "events" => db' = WithoutEvents(db, ExcessEvents(db, plan.events))
<1>1. DbTyped(db) /\ RowsBelowNext(db) /\ pending \subseteq Rec
  BY RowsParts, TypeParts DEF RowsInv, TablesInv
<1>2. ASSUME NEW r \in pending, Write(r) PROVE FALSE
  <2>1. Live(db') = Live(db) \cup {TargetId(db, r)} /\ Stored(db) \subseteq Stored(db')
    BY <1>1, <1>2, UpsertedFact, UpsertRows DEF Write
  <2>. QED BY <2>1
<1>3. CASE Sweep
  BY <1>3 DEF Sweep, PurgeAge, PurgeEvents, PurgeIssues, Purge
<1>. QED BY <1>2, <1>3
     DEF Next, Advance, Prepare, PutSettings, Restart, Wake, SkipTick, vars

\* Of each project and of each issue a purge leaves as many as its limit where it
\* takes any, and none older than what it took, whatever stamps coincide
\* (the window functions of store.rs).
THEOREM OldestAlwaysFirst == Spec => OldestGoFirst
<1>1. ASSUME RowsInv, [Next]_vars, pc = "issues", NEW i \in Live(db) \ Live(db)'
      PROVE  LET kept == OfProject(db, db.issues[i].project) \cap Live(db)' IN
             /\ Cardinality(kept) = plan.issues
             /\ \A j \in kept : db.issues[j].last >= db.issues[i].last
  <2> DEFINE kept == OfProject(db, db.issues[i].project) \cap Live(db')
  <2>1. db' = WithoutIssues(db, ExcessIssues(db, plan.issues))
    BY <1>1, RowsGoByPurges DEF Purges
  <2>2. Cardinality(kept) = plan.issues /\ kept \subseteq IssuesBefore(db, i)
    BY <1>1, <2>1, IssuesPurged, RowsParts
  <2>3. \A j \in Live(db) : db.issues[j].last \in Nat
    BY <1>1, RowsParts DEF DbTyped, IssueRow
  <2>4. \A j \in kept : db.issues[j].last >= db.issues[i].last
    BY <2>2, <2>3 DEF IssuesBefore, OfProject
  <2>. QED BY <2>2, <2>4
<1>2. ASSUME RowsInv, [Next]_vars, pc = "events", NEW e \in Stored(db) \ Stored(db)'
      PROVE  LET kept == EventsOf(db, db.events[e].issue) \cap Stored(db)' IN
             /\ Cardinality(kept) = plan.events
             /\ \A g \in kept : ReceivedAt(db, g) >= ReceivedAt(db, e)
  <2> DEFINE kept == EventsOf(db, db.events[e].issue) \cap Stored(db')
  <2>1. db' = WithoutEvents(db, ExcessEvents(db, plan.events))
    BY <1>2, RowsGoByPurges DEF Purges
  <2>2. Cardinality(kept) = plan.events /\ kept \subseteq EventsBefore(db, e)
    BY <1>2, <2>1, EventsPurged, RowsParts
  <2>3. \A g \in kept : ReceivedAt(db, g) > ReceivedAt(db, e) \/ ReceivedAt(db, g) = ReceivedAt(db, e)
    BY <2>2 DEF EventsBefore
  <2>4. \A g \in Stored(db) : ReceivedAt(db, g) \in Nat
    BY <1>2, RowsParts, StampsTyped
  <2>. QED BY <2>2, <2>3, <2>4 DEF EventsOf
<1> DEFINE Oldest ==
      /\ pc = "issues" =>
           \A i \in Live(db) \ Live(db)' :
             LET kept == OfProject(db, db.issues[i].project) \cap Live(db)' IN
             /\ Cardinality(kept) = plan.issues
             /\ \A j \in kept : db.issues[j].last >= db.issues[i].last
      /\ pc = "events" =>
           \A e \in Stored(db) \ Stored(db)' :
             LET kept == EventsOf(db, db.events[e].issue) \cap Stored(db)' IN
             /\ Cardinality(kept) = plan.events
             /\ \A g \in kept : ReceivedAt(db, g) >= ReceivedAt(db, e)
<1>3. RowsInv /\ [Next]_vars => Oldest
  BY <1>1, <1>2
<1>. QED BY <1>3, RowsAlways, PTL DEF Spec, OldestGoFirst

----------------------------------------------------------------------------
(***************************************************************************)
(* A sweep meets its limits                                                *)
(***************************************************************************)

\* An instant of a later day is a later instant.
LEMMA LaterDay ==
  ASSUME NEW at \in Int, NEW limit \in Int, ~SortsBelow(at, limit)
  PROVE  at >= limit
<1> DEFINE D == DayParts
           p == at \div D
           q == limit \div D
<1>1. D \in Nat \ {0}
  BY RetentionAssumption
<1>2. /\ at = D * p + (at % D) /\ 0 <= (at % D) /\ (at % D) < D /\ p \in Int
      /\ limit = D * q + (limit % D) /\ 0 <= (limit % D) /\ (limit % D) < D /\ q \in Int
  BY <1>1
<1>3. p > q
  BY <1>1, <1>2 DEF SortsBelow, Day
<1> DEFINE over == p - q - 1
<1> HIDE DEF D, p, q
<1>4. over \in Nat /\ p = q + 1 + over
  BY <1>2, <1>3
<1> HIDE DEF over
<1>5. D * over \in Nat
  BY <1>1, <1>4
<1>6. D * p = D * q + D + D * over
  BY <1>1, <1>2, <1>4
<1>7. D * q \in Int /\ (at % D) \in Int /\ (limit % D) \in Int
  BY <1>1, <1>2
<1>. QED BY <1>1, <1>2, <1>5, <1>6, <1>7

\* What holds of d once the purges before the given stage are done, by the
\* settings s and the age limit.
Kept(stage, d, s, limit) ==
  /\ stage # "age" /\ EffectiveDays(s) > 0 => YoungerThan(d, limit)
  /\ stage \notin {"age", "events"} /\ s.events > 0 => EventsWithin(d, s.events)
  /\ stage \notin {"age", "events", "issues"} /\ s.issues > 0 => IssuesWithin(d, s.issues)

\* A delete undoes no limit on what there is of events.
LEMMA LimitsLast ==
  ASSUME NEW d, IsFiniteSet(Stored(d)), NEW u,
         Live(u) \subseteq Live(d), Stored(u) \subseteq Stored(d),
         \A e \in Stored(u) : u.events[e] = d.events[e]
  PROVE  /\ \A limit : YoungerThan(d, limit) => YoungerThan(u, limit)
         /\ \A n \in Nat : EventsWithin(d, n) => EventsWithin(u, n)
<1>1. ASSUME NEW limit, YoungerThan(d, limit) PROVE YoungerThan(u, limit)
  BY <1>1 DEF YoungerThan, ReceivedAt
<1>2. ASSUME NEW n \in Nat, EventsWithin(d, n) PROVE EventsWithin(u, n)
  <2> SUFFICES ASSUME NEW i \in Live(u) PROVE Cardinality(EventsOf(u, i)) <= n
    BY DEF EventsWithin
  <2>1. EventsOf(d, i) \in SUBSET Stored(d) /\ EventsOf(u, i) \in SUBSET EventsOf(d, i)
    BY DEF EventsOf
  <2>2. IsFiniteSet(EventsOf(d, i))
    BY <2>1, FS_Subset
  <2>3. /\ Cardinality(EventsOf(u, i)) <= Cardinality(EventsOf(d, i))
        /\ Cardinality(EventsOf(d, i)) \in Nat /\ Cardinality(EventsOf(u, i)) \in Nat
    BY <2>1, <2>2, FS_Subset, FS_CardinalityType
  <2>4. Cardinality(EventsOf(d, i)) <= n
    BY <1>2 DEF EventsWithin
  <2>. QED BY <2>3, <2>4
<1>. QED BY <1>1, <1>2

\* A purge that is done leaves what the next stage may count on, earlier limits
\* included (run_one_tick's order of purges).
LEMMA PurgeKeeps ==
  ASSUME RowsInv, Kept(pc, db, plan, cutoff), Sweep, spent' = spent
  PROVE  Kept(pc', db', plan, cutoff)
<1> USE DEF Kept
<1>1. /\ DbTyped(db) /\ RowsBelowNext(db) /\ RowsDistinct(db) /\ Stamped(db)
      /\ plan.events \in Nat /\ plan.issues \in Nat
  BY RowsParts
<1>2. cutoff \in Int /\ spent \in [Outside -> Nat]
  BY TypeParts DEF RowsInv, TablesInv, TaskTyped
<1>3. ~Spend("failure")
  BY <1>2 DEF Spend, Outside
<1>4. \A gone : LET u == WithoutEvents(db, gone) IN
        /\ Live(u) \subseteq Live(db) /\ Stored(u) = Stored(db) \ gone
        /\ \A e \in Stored(u) : u.events[e] = db.events[e]
  BY DEF WithoutEvents, Db, Keep, Live, Stored
<1>5. \A gone : LET u == WithoutIssues(db, gone) IN
        /\ Live(u) \subseteq Live(db) /\ Stored(u) \subseteq Stored(db)
        /\ \A e \in Stored(u) : u.events[e] = db.events[e]
  BY DEF WithoutIssues, Db, Keep, Live, Stored
<1>6. IsFiniteSet(Stored(db))
  BY <1>1 DEF RowsDistinct
<1>7. CASE PurgeAge
  <2>1. /\ pc = "age" /\ pc' = AfterAge(plan)
        /\ db' = WithoutEvents(db, AgedEvents(db, cutoff))
    BY <1>3, <1>7 DEF PurgeAge, Purge
  <2>2. YoungerThan(db', cutoff)
    <3> SUFFICES ASSUME NEW e \in Stored(db') PROVE ReceivedAt(db', e) >= cutoff
      BY DEF YoungerThan
    <3>1. e \in Stored(db) /\ e \notin AgedEvents(db, cutoff) /\ db'.events[e] = db.events[e]
      BY <1>4, <2>1
    <3>2. ~SortsBelow(ReceivedAt(db, e), cutoff) /\ ReceivedAt(db, e) \in Nat
      BY <1>1, <3>1, StampsTyped DEF AgedEvents
    <3>3. received[db.events[e].row] >= cutoff
      BY <1>2, <3>2, LaterDay DEF ReceivedAt
    <3>. QED BY <3>1, <3>3 DEF ReceivedAt
  <2>. QED BY <2>1, <2>2 DEF AfterAge, AfterEvents
<1>8. CASE PurgeEvents
  <2>1. /\ pc = "events" /\ pc' = AfterEvents(plan)
        /\ db' = WithoutEvents(db, ExcessEvents(db, plan.events))
    BY <1>3, <1>8 DEF PurgeEvents, Purge
  <2>2. EffectiveDays(plan) > 0 => YoungerThan(db', cutoff)
    BY <1>4, <1>6, <2>1, LimitsLast
  <2>3. EventsWithin(db', plan.events)
    BY <1>1, <2>1, EventsPurged DEF EventsWithin
  <2>. QED BY <2>1, <2>2, <2>3 DEF AfterEvents
<1>9. CASE PurgeIssues
  <2>1. /\ pc = "issues" /\ pc' = "asleep"
        /\ db' = WithoutIssues(db, ExcessIssues(db, plan.issues))
    BY <1>3, <1>9 DEF PurgeIssues, Purge
  <2>2. /\ EffectiveDays(plan) > 0 => YoungerThan(db', cutoff)
        /\ plan.events > 0 => EventsWithin(db', plan.events)
    BY <1>1, <1>5, <1>6, <2>1, LimitsLast
  <2>3. IssuesWithin(db', plan.issues)
    BY <1>1, <2>1, IssuesPurged DEF IssuesWithin
  <2>. QED BY <2>1, <2>2, <2>3
<1>. QED BY <1>7, <1>8, <1>9 DEF Sweep

\* The limits whose purges an undisturbed sweep has behind it hold.
SweepInv == undisturbed => Kept(pc, db, plan, cutoff)

\* Commits, failures and ends of sweeps let go of it, purges extend it.
LEMMA SweepStep ==
  ASSUME RowsInv, SweepInv, [Next]_vars
  PROVE  SweepInv'
<1>1. CASE EndSweep
  <2>1. ~undisturbed'
    BY <1>1, Zenon DEF EndSweep
  <2>. QED BY <2>1 DEF SweepInv
<1>2. ASSUME NEW r \in pending, Write(r) PROVE SweepInv'
  <2>1. ~undisturbed'
    BY <1>2, Zenon DEF Write
  <2>. QED BY <2>1 DEF SweepInv
<1>3. CASE Wake /\ ~EndSweep
  <2>1. /\ FirstStage(settings) # "asleep"
        /\ pc' = FirstStage(settings) /\ plan' = settings
    BY <1>3 DEF Wake, Begin
  <2>. QED BY <2>1 DEF SweepInv, Kept, FirstStage, AfterAge, AfterEvents, EffectiveDays
<1>4. CASE Sweep /\ ~EndSweep
  <2>1. plan' = plan /\ cutoff' = cutoff /\ received' = received
    BY <1>4 DEF Sweep, PurgeAge, PurgeEvents, PurgeIssues, Purge
  <2>2. \/ undisturbed' = FALSE
        \/ spent' = spent /\ undisturbed' = undisturbed
    BY <1>4 DEF Sweep, PurgeAge, PurgeEvents, PurgeIssues, Purge
  <2>3. CASE undisturbed' = FALSE
    <3>1. ~undisturbed'
      BY <2>3, Zenon
    <3>. QED BY <3>1 DEF SweepInv
  <2>4. CASE spent' = spent /\ undisturbed' = undisturbed
    <3>1. undisturbed' => undisturbed
      BY <2>4, Zenon
    <3>2. undisturbed => Kept(pc', db', plan, cutoff)
      BY <1>4, <2>4, PurgeKeeps DEF SweepInv
    <3>3. Kept(pc', db', plan, cutoff) => Kept(pc, db, plan, cutoff)'
      BY <2>1 DEF Kept, YoungerThan, ReceivedAt
    <3>. QED BY <3>1, <3>2, <3>3 DEF SweepInv
  <2>. QED BY <2>2, <2>3, <2>4
<1>5. CASE UNCHANGED <<db, received, task, undisturbed>>
  <2>1. undisturbed' => undisturbed
    BY <1>5, Zenon
  <2>2. Kept(pc, db, plan, cutoff) => Kept(pc, db, plan, cutoff)'
    BY <1>5 DEF task, Kept, YoungerThan, ReceivedAt
  <2>. QED BY <2>1, <2>2 DEF SweepInv
<1>. QED BY <1>1, <1>2, <1>3, <1>4, <1>5
     DEF Next, Advance, Prepare, PutSettings, Restart, SkipTick, vars, task

\* A sweep that no failed purge and no commit disturbed leaves the tables within
\* all three limits it read, together (retention.rs, run_one_tick), for any
\* settings and any number of projects, issues and events.
THEOREM SweepsMeetLimits == Spec => SweepMeetsLimits
<1> DEFINE Met == pc \in Purges /\ pc' = "asleep" /\ undisturbed /\ spent' = spent
                    => Within(db', plan, cutoff)
<1>1. RowsInv /\ SweepInv /\ [Next]_vars => Met
  <2> SUFFICES ASSUME RowsInv, SweepInv, [Next]_vars,
                      pc \in Purges, pc' = "asleep", undisturbed, spent' = spent
               PROVE  Within(db', plan, cutoff)
    OBVIOUS
  <2>1. CASE Sweep
    <3>1. Kept("asleep", db', plan, cutoff)
      BY <2>1, PurgeKeeps DEF SweepInv
    <3>. QED BY <3>1 DEF Kept, Within
  <2>2. ~Spend("failure")
    <3>1. spent \in [Outside -> Nat]
      BY TypeParts DEF RowsInv, TablesInv
    <3>. QED BY <3>1 DEF Spend, Outside
  <2>3. pc # "asleep" /\ pc # "dead"
    BY DEF Purges
  <2>. QED BY <2>1, <2>2, <2>3
       DEF Next, Advance, Prepare, Write, PutSettings, Restart, Wake, SkipTick, vars, task
<1>2. Init => SweepInv
  <2>1. Init => ~undisturbed
    BY Zenon DEF Init
  <2>. QED BY <2>1 DEF SweepInv
<1>3. RowsInv /\ SweepInv /\ [Next]_vars => SweepInv'
  BY SweepStep
<1>. QED BY <1>1, <1>2, <1>3, RowsAlways, PTL DEF Spec, SweepMeetsLimits
============================================================================
