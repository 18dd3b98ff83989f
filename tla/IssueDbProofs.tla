--------------------------- MODULE IssueDbProofs ---------------------------
(***************************************************************************)
(* What each statement of IssueDb preserves, for every database value.     *)
(***************************************************************************)
EXTENDS IssueDb, FiniteSetTheorems, TLAPS

\* An empty database is well typed, and trivially consistent.
LEMMA EmptyDbSound == DbTyped(EmptyDb) /\ KeysUnique(EmptyDb) /\ EventsGrouped(EmptyDb)
BY DEF DbTyped, EmptyDb, Db, NoRows, Live, Stored, KeysUnique, EventsGrouped

\* The upsert writes to a live id or to the next one, never to another.
LEMMA TargetIdFact ==
  ASSUME NEW d, DbTyped(d), NEW r \in Rec
  PROVE  /\ TargetId(d, r) \in Nat \ {0}
         /\ Creates(d, r) => TargetId(d, r) = d.nextId
         /\ ~Creates(d, r) =>
              /\ TargetId(d, r) \in Live(d)
              /\ TargetId(d, r) < d.nextId
              /\ d.issues[TargetId(d, r)].project = r.project
              /\ d.issues[TargetId(d, r)].fp = FpOf[r.eid]
<1>1. CASE Creates(d, r)
  BY <1>1 DEF TargetId, DbTyped
<1>2. CASE ~Creates(d, r)
  <2>1. TargetId(d, r) \in WithKey(d, r.project, FpOf[r.eid])
    BY <1>2 DEF TargetId, Creates
  <2>2. /\ TargetId(d, r) \in Live(d)
        /\ d.issues[TargetId(d, r)].project = r.project
        /\ d.issues[TargetId(d, r)].fp = FpOf[r.eid]
    BY <2>1 DEF WithKey
  <2>3. TargetId(d, r) \in 1 .. (d.nextId - 1) /\ d.nextId \in Nat
    BY <2>2 DEF DbTyped
  <2>. QED BY <1>2, <2>2, <2>3
<1>. QED BY <1>1, <1>2

\* Bumping a row gives a row.
LEMMA BumpedTyped ==
  ASSUME NEW row \in IssueRow, NEW at \in Nat
  PROVE  Bumped(row, at) \in IssueRow
<1>1. row.count + 1 \in Nat \ {0}
  BY DEF IssueRow
<1>2. Reopened(row.status) \in Statuses
  BY DEF Reopened, IssueRow, Statuses
<1>. QED BY <1>1, <1>2 DEF Bumped, IssueRow

\* The row the upsert writes is a row of the table.
LEMMA TargetRowTyped ==
  ASSUME NEW d, DbTyped(d), NEW r \in Rec
  PROVE  TargetRow(d, r) \in IssueRow
<1>1. r.project \in Projects /\ r.at \in Nat /\ FpOf[r.eid] \in Fingerprints
  BY FpOfAssumption DEF Rec
<1>2. CASE Creates(d, r)
  BY <1>1, <1>2 DEF TargetRow, NewIssue, IssueRow, Statuses
<1>3. CASE ~Creates(d, r)
  <2> DEFINE old == d.issues[TargetId(d, r)]
  <2>1. old \in IssueRow
    BY <1>3, TargetIdFact DEF DbTyped
  <2>2. Bumped(old, r.at) \in IssueRow
    BY <1>1, <2>1, BumpedTyped
  <2>. QED BY <1>3, <2>2 DEF TargetRow
<1>. QED BY <1>2, <1>3

\* The result the upsert reports is typed.
LEMMA UpsertResultTyped ==
  ASSUME NEW d, DbTyped(d), NEW r \in Rec
  PROVE  UpsertResult(d, r) \in RowResult
BY TargetIdFact, TargetRowTyped DEF UpsertResult, RowResult, Creates, Regresses

\* The upsert keeps the tables typed.
LEMMA UpsertTyped ==
  ASSUME NEW d, DbTyped(d), NEW r \in Rec
  PROVE  DbTyped(Upserted(d, r))
<1> DEFINE e == Upserted(d, r)
           id == TargetId(d, r)
<1>1. /\ e.issues = Assign(d.issues, id, TargetRow(d, r))
      /\ e.events = EventsAfter(d, r)
      /\ e.nextId = IF Creates(d, r) THEN d.nextId + 1 ELSE d.nextId
      /\ e.nextRow = IF r.eid \in Stored(d) THEN d.nextRow ELSE d.nextRow + 1
      /\ e = Db(e.issues, e.events, e.nextId, e.nextRow)
  BY DEF Upserted, Db
<1>2. Live(e) = Live(d) \cup {id}
  BY <1>1 DEF Live, Assign
<1>3. e.nextId \in Nat \ {0} /\ e.nextRow \in Nat \ {0}
  BY <1>1 DEF DbTyped
<1>4. Live(e) \subseteq 1 .. (e.nextId - 1)
  BY <1>1, <1>2, TargetIdFact DEF DbTyped
<1>5. e.issues \in [Live(e) -> IssueRow]
  BY <1>1, <1>2, TargetRowTyped DEF DbTyped, Live, Assign
<1>6. Stored(e) \subseteq EventIds /\ e.events \in [Stored(e) -> EventRow]
  <2>1. CASE r.eid \in Stored(d)
    BY <1>1, <2>1 DEF EventsAfter, DbTyped, Stored
  <2>2. CASE r.eid \notin Stored(d)
    <3>1. [issue |-> id, row |-> d.nextRow] \in EventRow
      BY TargetIdFact DEF EventRow, DbTyped
    <3>2. e.events = Assign(d.events, r.eid, [issue |-> id, row |-> d.nextRow])
      BY <1>1, <2>2 DEF EventsAfter
    <3>3. r.eid \in EventIds
      BY DEF Rec
    <3>. QED BY <3>1, <3>2, <3>3 DEF Assign, DbTyped, Stored
  <2>. QED BY <2>1, <2>2
<1>. QED BY <1>1, <1>3, <1>4, <1>5, <1>6 DEF DbTyped

----------------------------------------------------------------------------
\* The row the upsert writes carries the key it was looked up by.
LEMMA TargetRowKey ==
  ASSUME NEW d, DbTyped(d), NEW r \in Rec
  PROVE  TargetRow(d, r).project = r.project /\ TargetRow(d, r).fp = FpOf[r.eid]
<1>1. CASE Creates(d, r)
  BY <1>1 DEF TargetRow, NewIssue
<1>2. CASE ~Creates(d, r)
  BY <1>2, TargetIdFact DEF TargetRow, Bumped
<1>. QED BY <1>1, <1>2

\* The upsert keeps one issue per project and fingerprint, and every stored
\* event under an issue of its fingerprint.
LEMMA UpsertSound ==
  ASSUME NEW d, DbTyped(d), KeysUnique(d), EventsGrouped(d), NEW r \in Rec
  PROVE  KeysUnique(Upserted(d, r)) /\ EventsGrouped(Upserted(d, r))
<1> DEFINE u == Upserted(d, r)
           id == TargetId(d, r)
           row == TargetRow(d, r)
<1>1. /\ u.issues = Assign(d.issues, id, row)
      /\ u.events = EventsAfter(d, r)
  BY DEF Upserted, Db
<1>2. Live(u) = Live(d) \cup {id}
  BY <1>1 DEF Live, Assign
<1>3. \A i \in Live(u) : u.issues[i] = IF i = id THEN row ELSE d.issues[i]
  BY <1>1, <1>2 DEF Live, Assign
<1>4. row.project = r.project /\ row.fp = FpOf[r.eid]
  BY TargetRowKey
<1>5. \A i \in Live(d) :
        d.issues[i].project = r.project /\ d.issues[i].fp = FpOf[r.eid] => i = id
  <2>1. CASE Creates(d, r)
    BY <2>1 DEF Creates, WithKey
  <2>2. CASE ~Creates(d, r)
    BY <2>2, TargetIdFact DEF KeysUnique
  <2>. QED BY <2>1, <2>2
<1>6. KeysUnique(u)
  BY <1>2, <1>3, <1>4, <1>5 DEF KeysUnique
<1>7. \A i \in Live(d) : i \in Live(u) /\ u.issues[i].fp = d.issues[i].fp
  <2>1. CASE Creates(d, r)
    <3>1. id \notin Live(d)
      BY <2>1, TargetIdFact DEF DbTyped
    <3>. QED BY <3>1, <1>2, <1>3
  <2>2. CASE ~Creates(d, r)
    BY <2>2, <1>2, <1>3, <1>4, TargetIdFact
  <2>. QED BY <2>1, <2>2
<1>8. EventsGrouped(u)
  <2>1. CASE r.eid \in Stored(d)
    BY <2>1, <1>1, <1>7 DEF EventsAfter, EventsGrouped, Stored
  <2>2. CASE r.eid \notin Stored(d)
    <3>1. /\ Stored(u) = Stored(d) \cup {r.eid}
          /\ u.events[r.eid].issue = id
          /\ \A e \in Stored(d) : u.events[e] = d.events[e]
      BY <2>2, <1>1 DEF EventsAfter, Assign, Stored
    <3>. QED BY <3>1, <1>2, <1>3, <1>4, <1>7 DEF EventsGrouped
  <2>. QED BY <2>1, <2>2
<1>. QED BY <1>6, <1>8

----------------------------------------------------------------------------
\* A status change keeps the tables typed and consistent.
LEMMA WithStatusSound ==
  ASSUME NEW d, DbTyped(d), NEW i \in Live(d), NEW s \in Statuses
  PROVE  /\ DbTyped(WithStatus(d, i, s))
         /\ KeysUnique(d) => KeysUnique(WithStatus(d, i, s))
         /\ EventsGrouped(d) => EventsGrouped(WithStatus(d, i, s))
<1> DEFINE u == WithStatus(d, i, s)
<1>1. /\ u.issues = [d.issues EXCEPT ![i].status = s]
      /\ u.events = d.events /\ u.nextId = d.nextId /\ u.nextRow = d.nextRow
      /\ u = Db(u.issues, u.events, u.nextId, u.nextRow)
  BY DEF WithStatus, Db
<1>2. Live(u) = Live(d) /\ Stored(u) = Stored(d)
  BY <1>1 DEF Live, Stored
<1>3. [d.issues[i] EXCEPT !.status = s] \in IssueRow
  BY DEF DbTyped, IssueRow
<1>4. \A j \in Live(d) :
        u.issues[j] = IF j = i THEN [d.issues[i] EXCEPT !.status = s] ELSE d.issues[j]
  BY <1>1 DEF DbTyped, Live
<1>5. u.issues \in [Live(u) -> IssueRow]
  BY <1>1, <1>2, <1>3, <1>4 DEF DbTyped, Live
<1>6. DbTyped(u)
  BY <1>1, <1>2, <1>5 DEF DbTyped
<1>7. \A j \in Live(d) :
        u.issues[j].project = d.issues[j].project /\ u.issues[j].fp = d.issues[j].fp
  BY <1>4 DEF DbTyped, IssueRow
<1>. QED BY <1>1, <1>2, <1>6, <1>7 DEF KeysUnique, EventsGrouped

\* A project delete, with its cascade, keeps the tables typed and consistent.
LEMMA WithoutIssuesSound ==
  ASSUME NEW d, DbTyped(d), NEW gone
  PROVE  /\ DbTyped(WithoutIssues(d, gone))
         /\ KeysUnique(d) => KeysUnique(WithoutIssues(d, gone))
         /\ EventsGrouped(d) => EventsGrouped(WithoutIssues(d, gone))
<1> DEFINE u == WithoutIssues(d, gone)
           kept == {e \in Stored(d) : d.events[e].issue \notin gone}
<1>1. /\ u.issues = Keep(d.issues, Live(d) \ gone)
      /\ u.events = Keep(d.events, kept)
      /\ u.nextId = d.nextId /\ u.nextRow = d.nextRow
      /\ u = Db(u.issues, u.events, u.nextId, u.nextRow)
  BY DEF WithoutIssues, Db
<1>2. Live(u) = Live(d) \ gone /\ Stored(u) = kept
  BY <1>1 DEF Live, Stored, Keep
<1>3. /\ \A i \in Live(u) : u.issues[i] = d.issues[i]
      /\ \A e \in Stored(u) : u.events[e] = d.events[e]
  BY <1>1, <1>2 DEF Live, Stored, Keep
<1>4. u.issues \in [Live(u) -> IssueRow]
  BY <1>1, <1>2, <1>3 DEF DbTyped, Keep, Live
<1>5. u.events \in [Stored(u) -> EventRow]
  BY <1>1, <1>2, <1>3 DEF DbTyped, Keep, Stored
<1>6. DbTyped(u)
  BY <1>1, <1>2, <1>4, <1>5 DEF DbTyped
<1>. QED BY <1>2, <1>3, <1>6 DEF KeysUnique, EventsGrouped

\* A rename that trips no UNIQUE index keeps the tables typed and consistent.
LEMMA MovedSound ==
  ASSUME NEW d, DbTyped(d), NEW p, NEW q \in Projects
  PROVE  /\ DbTyped(Moved(d, p, q))
         /\ KeysUnique(d) /\ ~MoveConflicts(d, p, q) => KeysUnique(Moved(d, p, q))
         /\ EventsGrouped(d) => EventsGrouped(Moved(d, p, q))
<1> DEFINE u == Moved(d, p, q)
           renamed(i) == [d.issues[i] EXCEPT !.project = q]
<1>1. /\ u.issues = [i \in Live(d) |->
                       IF d.issues[i].project = p THEN renamed(i) ELSE d.issues[i]]
      /\ u.events = d.events /\ u.nextId = d.nextId /\ u.nextRow = d.nextRow
      /\ u = Db(u.issues, u.events, u.nextId, u.nextRow)
  BY DEF Moved, Db
<1>2. Live(u) = Live(d) /\ Stored(u) = Stored(d)
  BY <1>1 DEF Live, Stored
<1>3. \A i \in Live(d) : renamed(i) \in IssueRow
  BY DEF DbTyped, IssueRow
<1>4. u.issues \in [Live(u) -> IssueRow]
  BY <1>1, <1>2, <1>3 DEF DbTyped
<1>5. DbTyped(u)
  BY <1>1, <1>2, <1>4 DEF DbTyped
<1>6. \A i \in Live(d) :
        /\ u.issues[i].fp = d.issues[i].fp
        /\ u.issues[i].project = IF d.issues[i].project = p THEN q ELSE d.issues[i].project
  BY <1>1 DEF DbTyped, IssueRow
<1>7. ASSUME KeysUnique(d), ~MoveConflicts(d, p, q)
      PROVE  KeysUnique(u)
  <2> SUFFICES ASSUME NEW i \in Live(d), NEW j \in Live(d),
                      u.issues[i].project = u.issues[j].project,
                      d.issues[i].fp = d.issues[j].fp
               PROVE  i = j
    BY <1>2, <1>6 DEF KeysUnique
  <2>1. CASE d.issues[i].project = d.issues[j].project
    BY <2>1, <1>7 DEF KeysUnique
  <2>2. CASE d.issues[i].project # d.issues[j].project
    BY <2>2, <1>6, <1>7 DEF MoveConflicts, OfProject
  <2>. QED BY <2>1, <2>2
<1>8. EventsGrouped(d) => EventsGrouped(u)
  BY <1>1, <1>2, <1>6 DEF EventsGrouped
<1>. QED BY <1>5, <1>7, <1>8

----------------------------------------------------------------------------
\* e comes after d: ids were only handed out from where d's sequence stood.
Extends(e, d) ==
  /\ e.nextId >= d.nextId
  /\ \A i \in Live(e) : i < d.nextId => i \in Live(d)

\* No statement hands out an old id; deleted ids stay free.
LEMMA UpsertExtends ==
  ASSUME NEW d, DbTyped(d), NEW w, DbTyped(w), Extends(w, d), NEW r \in Rec
  PROVE  Extends(Upserted(w, r), d)
<1>1. /\ Live(Upserted(w, r)) = Live(w) \cup {TargetId(w, r)}
      /\ Upserted(w, r).nextId = IF Creates(w, r) THEN w.nextId + 1 ELSE w.nextId
  BY DEF Upserted, Db, Live, Assign
<1>2. w.nextId \in Nat /\ d.nextId \in Nat
  BY DEF DbTyped
<1>3. CASE Creates(w, r)
  BY <1>1, <1>2, <1>3, TargetIdFact DEF Extends
<1>4. CASE ~Creates(w, r)
  BY <1>1, <1>2, <1>4, TargetIdFact DEF Extends
<1>. QED BY <1>3, <1>4

----------------------------------------------------------------------------
\* The upsert, field by field.
LEMMA UpsertedFact ==
  ASSUME NEW d, DbTyped(d), NEW r \in Rec
  PROVE  /\ Live(Upserted(d, r)) = Live(d) \cup {TargetId(d, r)}
         /\ \A i \in Live(d) \cup {TargetId(d, r)} :
              Upserted(d, r).issues[i] =
                IF i = TargetId(d, r) THEN TargetRow(d, r) ELSE d.issues[i]
         /\ Upserted(d, r).events = EventsAfter(d, r)
         /\ Creates(d, r) => TargetId(d, r) \notin Live(d)
<1>1. /\ Upserted(d, r).issues = Assign(d.issues, TargetId(d, r), TargetRow(d, r))
      /\ Upserted(d, r).events = EventsAfter(d, r)
  BY DEF Upserted, Db
<1>2. Creates(d, r) => TargetId(d, r) \notin Live(d)
  BY TargetIdFact DEF DbTyped
<1>. QED BY <1>1, <1>2 DEF Live, Assign

\* The row of an upsert that creates none is the old one, bumped.
LEMMA TargetRowFact ==
  ASSUME NEW d, DbTyped(d), NEW r \in Rec, ~Creates(d, r)
  PROVE  LET old == d.issues[TargetId(d, r)]
             new == TargetRow(d, r)
         IN /\ old \in IssueRow
            /\ new.project = old.project /\ new.fp = old.fp
            /\ new.status = Reopened(old.status)
            /\ new.count = old.count + 1
<1>1. d.issues[TargetId(d, r)] \in IssueRow
  BY TargetIdFact DEF DbTyped
<1>2. TargetRow(d, r) = Bumped(d.issues[TargetId(d, r)], r.at)
  BY DEF TargetRow
<1>. QED BY <1>1, <1>2 DEF Bumped

----------------------------------------------------------------------------
(***************************************************************************)
(* Counts                                                                  *)
(***************************************************************************)

\* The stored events are finitely many, and no issue counts fewer than it has.
Covered(d) == IsFiniteSet(Stored(d)) /\ CountsCover(d)

\* The events of an issue are finitely many.
LEMMA EventsOfFinite ==
  ASSUME NEW d, IsFiniteSet(Stored(d)), NEW i
  PROVE  IsFiniteSet(EventsOf(d, i)) /\ Cardinality(EventsOf(d, i)) \in Nat
<1>1. EventsOf(d, i) \in SUBSET Stored(d)
  BY DEF EventsOf
<1>. QED BY <1>1, FS_Subset, FS_CardinalityType

\* The upsert counts the event it stores.
LEMMA UpsertCovered ==
  ASSUME NEW d, DbTyped(d), EventsGrouped(d), Covered(d), NEW r \in Rec
  PROVE  Covered(Upserted(d, r))
<1> DEFINE u == Upserted(d, r)
           id == TargetId(d, r)
<1>1. /\ Live(u) = Live(d) \cup {id}
      /\ \A i \in Live(u) : u.issues[i] = IF i = id THEN TargetRow(d, r) ELSE d.issues[i]
      /\ u.events = EventsAfter(d, r)
      /\ Creates(d, r) => id \notin Live(d)
  BY UpsertedFact
<1>2. \A i \in Live(d) : d.issues[i].count \in Nat
  BY DEF DbTyped, IssueRow
<1>3. IsFiniteSet(Stored(d)) /\ \A i \in Live(d) : Cardinality(EventsOf(d, i)) <= d.issues[i].count
  BY DEF Covered, CountsCover
<1>4. Creates(d, r) => EventsOf(d, id) = {} /\ TargetRow(d, r).count = 1
  BY <1>1 DEF EventsOf, EventsGrouped, TargetRow, NewIssue
<1>5. ~Creates(d, r) => id \in Live(d) /\ TargetRow(d, r).count = d.issues[id].count + 1
  BY TargetIdFact, TargetRowFact
<1>6. /\ Cardinality(EventsOf(d, id)) + 1 <= TargetRow(d, r).count
      /\ Cardinality(EventsOf(d, id)) \in Nat /\ TargetRow(d, r).count \in Nat
  <2>1. Cardinality(EventsOf(d, id)) \in Nat
    BY <1>3, EventsOfFinite
  <2>2. CASE Creates(d, r)
    BY <1>4, <2>1, <2>2, FS_EmptySet
  <2>3. CASE ~Creates(d, r)
    BY <1>2, <1>3, <1>5, <2>1, <2>3
  <2>. QED BY <2>2, <2>3
<1> HIDE DEF u, id
<1>7. CASE r.eid \in Stored(d)
  <2>1. u.events = d.events
    BY <1>1, <1>7 DEF EventsAfter
  <2>2. Stored(u) = Stored(d) /\ \A i : EventsOf(u, i) = EventsOf(d, i)
    BY <2>1 DEF Stored, EventsOf
  <2>3. ASSUME NEW i \in Live(u) PROVE Cardinality(EventsOf(u, i)) <= u.issues[i].count
    BY <1>1, <1>3, <1>6, <2>2
  <2>. QED BY <1>3, <2>2, <2>3 DEF Covered, CountsCover, u
<1>8. CASE r.eid \notin Stored(d)
  <2>1. u.events = Assign(d.events, r.eid, [issue |-> id, row |-> d.nextRow])
    BY <1>1, <1>8 DEF EventsAfter, id
  <2>2. Stored(u) = Stored(d) \cup {r.eid}
    BY <2>1 DEF Assign, Stored
  <2>3. IsFiniteSet(Stored(u))
    BY <1>3, <2>2, FS_AddElement
  <2>4. /\ \A e \in Stored(d) : u.events[e] = d.events[e]
        /\ u.events[r.eid].issue = id
    BY <1>8, <2>1 DEF Assign, Stored
  <2>5. \A i : EventsOf(u, i) = IF i = id THEN EventsOf(d, id) \cup {r.eid} ELSE EventsOf(d, i)
    BY <1>8, <2>2, <2>4 DEF EventsOf
  <2>6. Cardinality(EventsOf(u, id)) = Cardinality(EventsOf(d, id)) + 1
    <3>1. r.eid \notin EventsOf(d, id)
      BY <1>8 DEF EventsOf
    <3>. QED BY <1>3, <2>5, <3>1, EventsOfFinite, FS_AddElement
  <2>7. ASSUME NEW i \in Live(u) PROVE Cardinality(EventsOf(u, i)) <= u.issues[i].count
    BY <1>1, <1>3, <1>6, <2>5, <2>6
  <2>. QED BY <2>3, <2>7 DEF Covered, CountsCover, u
<1>. QED BY <1>7, <1>8 DEF u

\* A change of status, a rename and a delete leave counts and events together.
LEMMA StatementsCovered ==
  ASSUME NEW d, DbTyped(d), Covered(d)
  PROVE  /\ \A i \in Live(d), s \in Statuses : Covered(WithStatus(d, i, s))
         /\ \A gone : Covered(WithoutIssues(d, gone))
         /\ \A p, q : Covered(Moved(d, p, q))
<1>1. ASSUME NEW u, Live(u) = Live(d), u.events = d.events,
             \A i \in Live(d) : u.issues[i].count = d.issues[i].count
      PROVE  Covered(u)
  <2>1. Stored(u) = Stored(d) /\ \A i : EventsOf(u, i) = EventsOf(d, i)
    BY <1>1 DEF Stored, EventsOf
  <2>. QED BY <1>1, <2>1 DEF Covered, CountsCover
<1>2. ASSUME NEW i \in Live(d), NEW s \in Statuses PROVE Covered(WithStatus(d, i, s))
  <2> DEFINE u == WithStatus(d, i, s)
  <2>1. u.issues = [d.issues EXCEPT ![i].status = s] /\ u.events = d.events
    BY DEF WithStatus, Db
  <2>2. Live(u) = Live(d)
    BY <2>1 DEF Live
  <2>3. \A j \in Live(d) : u.issues[j].count = d.issues[j].count
    BY <2>1 DEF DbTyped, IssueRow, Live
  <2>. QED BY <1>1, <2>1, <2>2, <2>3
<1>3. ASSUME NEW p, NEW q PROVE Covered(Moved(d, p, q))
  <2> DEFINE u == Moved(d, p, q)
  <2>1. /\ u.issues = [i \in Live(d) |-> IF d.issues[i].project = p
                                            THEN [d.issues[i] EXCEPT !.project = q]
                                            ELSE d.issues[i]]
        /\ u.events = d.events
    BY DEF Moved, Db
  <2>2. Live(u) = Live(d)
    BY <2>1 DEF Live
  <2>3. \A j \in Live(d) : u.issues[j].count = d.issues[j].count
    BY <2>1 DEF DbTyped, IssueRow
  <2>. QED BY <1>1, <2>1, <2>2, <2>3
<1>4. ASSUME NEW gone PROVE Covered(WithoutIssues(d, gone))
  <2> DEFINE u == WithoutIssues(d, gone)
  <2>1. /\ u.issues = Keep(d.issues, Live(d) \ gone)
        /\ u.events = Keep(d.events, {e \in Stored(d) : d.events[e].issue \notin gone})
    BY DEF WithoutIssues, Db
  <2>2. /\ Live(u) = Live(d) \ gone
        /\ \A i \in Live(u) : u.issues[i] = d.issues[i]
        /\ Stored(u) \in SUBSET Stored(d)
        /\ \A e \in Stored(u) : u.events[e] = d.events[e]
    BY <2>1 DEF Live, Stored, Keep
  <2> HIDE DEF u
  <2>3. IsFiniteSet(Stored(u))
    BY <2>2, FS_Subset DEF Covered
  <2>4. ASSUME NEW i \in Live(u) PROVE Cardinality(EventsOf(u, i)) <= u.issues[i].count
    <3>1. EventsOf(u, i) \in SUBSET EventsOf(d, i)
      BY <2>2 DEF EventsOf
    <3>2. IsFiniteSet(EventsOf(d, i)) /\ Cardinality(EventsOf(d, i)) \in Nat
      BY EventsOfFinite DEF Covered
    <3>3. Cardinality(EventsOf(u, i)) <= Cardinality(EventsOf(d, i))
      BY <3>1, <3>2, FS_Subset
    <3>4. Cardinality(EventsOf(u, i)) \in Nat
      BY <2>3, EventsOfFinite
    <3>5. u.issues[i] = d.issues[i] /\ i \in Live(d) /\ d.issues[i].count \in Nat
      BY <2>2 DEF DbTyped, IssueRow
    <3>. QED BY <3>2, <3>3, <3>4, <3>5 DEF Covered, CountsCover
  <2>. QED BY <2>3, <2>4 DEF Covered, CountsCover, u
<1>. QED BY <1>2, <1>3, <1>4

----------------------------------------------------------------------------
(***************************************************************************)
(* Transactions                                                            *)
(***************************************************************************)

\* A row after some occurrences: none, or more of them than before and the
\* status they leave.
After(old, new) ==
  \/ new = old
  \/ /\ new.project = old.project /\ new.fp = old.fp
     /\ new.status = Reopened(old.status)
     /\ new.count > old.count

\* w is d with some occurrences recorded.
Builds(w, d) ==
  /\ Live(d) \subseteq Live(w)
  /\ \A i \in Live(d) : After(d.issues[i], w.issues[i])
  /\ \A i \in Live(w) \ Live(d) : w.issues[i].status = "unresolved"

\* One occurrence more.
LEMMA UpsertBuilds ==
  ASSUME NEW d, DbTyped(d), NEW w, DbTyped(w), Builds(w, d), NEW r \in Rec
  PROVE  Builds(Upserted(w, r), d)
<1> DEFINE u == Upserted(w, r)
           id == TargetId(w, r)
<1>1. /\ Live(u) = Live(w) \cup {id}
      /\ \A i \in Live(u) : u.issues[i] = IF i = id THEN TargetRow(w, r) ELSE w.issues[i]
      /\ Creates(w, r) => id \notin Live(w)
  BY UpsertedFact
<1> HIDE DEF u, id
<1>2. CASE Creates(w, r)
  <2>1. TargetRow(w, r).status = "unresolved"
    BY <1>2 DEF TargetRow, NewIssue
  <2>. QED BY <1>1, <1>2, <2>1 DEF Builds, u
<1>3. CASE ~Creates(w, r)
  <2> DEFINE old == w.issues[id]
             new == TargetRow(w, r)
  <2>1. /\ id \in Live(w) /\ old \in IssueRow
        /\ new.project = old.project /\ new.fp = old.fp
        /\ new.status = Reopened(old.status)
        /\ new.count = old.count + 1
    BY <1>3, TargetIdFact, TargetRowFact DEF id
  <2> HIDE DEF new
  <2>2. old.status = "unresolved" => new.status = "unresolved"
    BY <2>1 DEF Reopened
  <2>3. id \in Live(d) => After(d.issues[id], new)
    <3>1. SUFFICES ASSUME id \in Live(d) PROVE After(d.issues[id], new)
      OBVIOUS
    <3>2. d.issues[id].count \in Nat /\ old.count \in Nat
      BY <2>1, <3>1 DEF DbTyped, IssueRow
    <3>3. After(d.issues[id], old)
      BY <3>1 DEF Builds
    <3>. QED BY <2>1, <3>2, <3>3 DEF After, Reopened
  <2>. QED BY <1>1, <2>1, <2>2, <2>3 DEF Builds, new, u
<1>. QED BY <1>2, <1>3

\* A transaction that has recorded nothing.
LEMMA BuildsItself ==
  ASSUME NEW d
  PROVE  Builds(d, d)
BY DEF Builds, After
============================================================================
