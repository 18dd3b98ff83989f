------------------------ MODULE ProjectConsoleProofs ------------------------
(***************************************************************************)
(* What holds of ProjectConsole for any number of consoles, command lines, *)
(* projects and events, and any interleaving of their database calls; and  *)
(* of activity_stats, for any events and any time of day.                  *)
(***************************************************************************)
EXTENDS MCProjectConsole, IssueDbProofs

----------------------------------------------------------------------------
(***************************************************************************)
(* The invariant                                                           *)
(***************************************************************************)

Numbers == [issues : Nat, events : Nat]

Places == {"insert", "update", "reread", "check", "issues", "events", "tx", "answered"}

Answers == {"none", "200", "201", "404", "409", "panic"}

CallRecord ==
  [pc : Places, op : ConsoleOps, project : Projects \cup {NoUrl},
   arg : Urls \cup {NoUrl} \cup Projects, answer : Answers,
   issues : Nat, events : Nat, changed : BOOLEAN, raced : BOOLEAN,
   truth : Numbers, grew : BOOLEAN, shrank : BOOLEAN]

\* The database calls each operation makes.
OpsAt(pc) ==
  CASE pc = "insert" -> {"create"}
    [] pc = "update" -> {"webhook", "rotate"}
    [] pc = "reread" -> {"webhook", "rotate", "rename"}
    [] pc = "check"  -> {"rename", "delete", "preview", "activity"}
    [] pc = "tx"     -> {"rename", "delete"}
    [] pc \in {"issues", "events"} -> Counting
    [] OTHER -> ConsoleOps

\* A call is where its operation can be, about names it can be about.
WellFormed(s, call) ==
  /\ call \in CallRecord
  /\ s \in Clis => call.op \in CliOps
  /\ call.op \in OpsAt(call.pc)
  /\ call.op # "storage" => call.project \in Projects
  /\ call.op = "rename" => call.arg \in Projects
  /\ call.op = "webhook" => call.arg \in Urls \cup {NoUrl}
  /\ call.pc # "answered" => call.answer = "none"

\* The row a call shows once it has written.
Shown(call) == IF call.op = "rename" THEN call.arg ELSE call.project

\* A call that has written only has to read its row again, which is there as
\* long as nobody took a project away.
LateOnlyIfRaced(call, r) ==
  /\ call.pc # "answered" /\ call.changed => call.pc = "reread"
  /\ call.pc = "tx" /\ call.op = "rename" => call.raced \/ call.project \in DOMAIN r
  /\ call.pc = "reread" /\ call.changed => call.raced \/ Shown(call) \in DOMAIN r
  /\ call.answer \in {"404", "409", "panic"} /\ call.changed => call.raced

ReportOf(call) == [issues |-> call.issues, events |-> call.events]

\* a was read before b, of a number that only others change.
Drifted(call, a, b) == (~call.shrank => a <= b) /\ (~call.grew => b <= a)

\* What a call knows so far is bracketed by what it is compared with.
CountedSoFar(call, d) ==
  LET now == About(call, d) IN
  /\ call.op \in Counting \ {"delete"} =>
       /\ call.pc # "answered" => Bracketed(call, call.truth, now)
       /\ call.pc = "events" /\ call.op # "activity" =>
            Drifted(call, call.truth.issues, call.issues)
       /\ call.pc = "issues" /\ call.op = "activity" =>
            Drifted(call, call.truth.events, call.events)
       /\ call.answer = "200" => Bracketed(call, call.truth, ReportOf(call))
  /\ call.op = "delete" =>
       /\ call.pc = "events" => Drifted(call, call.issues, now.issues)
       /\ call.pc = "tx" => Bracketed(call, ReportOf(call), now)
       /\ call.answer = "200" => Bracketed(call, ReportOf(call), call.truth)

CallOK(s, call, r, d) ==
  call # NoCall => WellFormed(s, call) /\ LateOnlyIfRaced(call, r) /\ CountedSoFar(call, d)

\* Rows of the projects table, with tokens below n, no two the same.
RowsOK(r, n) ==
  /\ DOMAIN r \subseteq Projects
  /\ r \in [DOMAIN r -> [token : 1 .. n, url : Urls \cup {NoUrl}]]
  /\ \A p, q \in DOMAIN r : r[p].token = r[q].token => p = q

\* Finitely many typed rows.
TablesOK(d) == DbTyped(d) /\ IsFiniteSet(Stored(d))

CallsOK == calls = [s \in Slots |-> calls[s]]

Inv ==
  /\ issued \in Nat
  /\ RowsOK(rows, issued)
  /\ TablesOK(db)
  /\ CallsOK
  /\ \A s \in Slots : CallOK(s, calls[s], rows, db)

----------------------------------------------------------------------------
(***************************************************************************)
(* Numbers                                                                 *)
(***************************************************************************)

\* A database has finitely many issues.
LEMMA LiveFinite ==
  ASSUME NEW d, DbTyped(d)
  PROVE  IsFiniteSet(Live(d))
<1>1. d.nextId - 1 \in Int /\ Live(d) \in SUBSET (1 .. (d.nextId - 1))
  BY DEF DbTyped
<1>. QED BY <1>1, FS_Interval, FS_Subset

\* What a call counts are numbers.
LEMMA AboutTyped ==
  ASSUME NEW d, TablesOK(d), NEW call
  PROVE  About(call, d) \in Numbers
<1>1. IsFiniteSet(Live(d)) /\ IsFiniteSet(Stored(d))
  BY LiveFinite DEF TablesOK
<1>2. \A S : S \subseteq Live(d) \/ S \subseteq Stored(d) => Cardinality(S) \in Nat
  BY <1>1, FS_Subset, FS_CardinalityType
<1>3. TotalsOf(d) \in Numbers
  BY <1>2 DEF TotalsOf, Numbers
<1>4. CountsOf(d, call.project) \in Numbers
  <2>1. OfProject(d, call.project) \subseteq Live(d)
    BY DEF OfProject
  <2>2. UNION {EventsOf(d, i) : i \in OfProject(d, call.project)} \subseteq Stored(d)
    BY DEF EventsOf
  <2>. QED BY <1>2, <2>1, <2>2 DEF CountsOf, Numbers
<1>5. ActivityOf(d, call.project) \in Numbers
  <2>1. {i \in OfProject(d, call.project) : EventsOf(d, i) # {}} \subseteq Live(d)
    BY DEF OfProject
  <2>. QED BY <1>2, <1>4, <2>1 DEF ActivityOf, Numbers
<1>. QED BY <1>3, <1>4, <1>5 DEF About

----------------------------------------------------------------------------
(***************************************************************************)
(* The tables                                                              *)
(***************************************************************************)

\* Every statement leaves finitely many typed rows.
LEMMA StatementsTyped ==
  ASSUME NEW d, TablesOK(d)
  PROVE  /\ \A r \in Rec : TablesOK(Upserted(d, r))
         /\ \A gone : TablesOK(WithoutIssues(d, gone))
         /\ \A p, q \in Projects : TablesOK(Moved(d, p, q))
         /\ \A e : TablesOK(Db(d.issues, Keep(d.events, Stored(d) \ {e}),
                               d.nextId, d.nextRow))
<1> USE DEF TablesOK
<1>1. ASSUME NEW r \in Rec PROVE TablesOK(Upserted(d, r))
  <2>1. Stored(Upserted(d, r)) \subseteq Stored(d) \cup {r.eid}
    BY DEF Upserted, Db, Stored, EventsAfter, Assign
  <2>2. IsFiniteSet(Stored(d) \cup {r.eid})
    BY FS_AddElement
  <2>. QED BY <2>1, <2>2, UpsertTyped, FS_Subset
<1>2. ASSUME NEW gone PROVE TablesOK(WithoutIssues(d, gone))
  <2>1. Stored(WithoutIssues(d, gone)) \subseteq Stored(d)
    BY DEF WithoutIssues, Db, Stored, Keep
  <2>. QED BY <2>1, WithoutIssuesSound, FS_Subset
<1>3. ASSUME NEW p \in Projects, NEW q \in Projects PROVE TablesOK(Moved(d, p, q))
  <2>1. Stored(Moved(d, p, q)) = Stored(d)
    BY DEF Moved, Db, Stored
  <2>. QED BY <2>1, MovedSound
<1>4. ASSUME NEW e
      PROVE  TablesOK(Db(d.issues, Keep(d.events, Stored(d) \ {e}), d.nextId, d.nextRow))
  <2> DEFINE u == Db(d.issues, Keep(d.events, Stored(d) \ {e}), d.nextId, d.nextRow)
  <2>1. /\ Stored(u) = Stored(d) \ {e} /\ Live(u) = Live(d)
        /\ \A x \in Stored(u) : u.events[x] = d.events[x]
        /\ u.issues = d.issues /\ u.nextId = d.nextId /\ u.nextRow = d.nextRow
        /\ u.events = Keep(d.events, Stored(d) \ {e})
        /\ u = Db(u.issues, u.events, u.nextId, u.nextRow)
    BY DEF Db, Stored, Keep, Live
  <2>2. u.events \in [Stored(u) -> EventRow]
    BY <2>1 DEF DbTyped, Keep, Stored
  <2> HIDE DEF u
  <2>3. DbTyped(u)
    BY <2>1, <2>2 DEF DbTyped
  <2>4. IsFiniteSet(Stored(u))
    BY <2>1, FS_Subset
  <2>. QED BY <2>3, <2>4 DEF u
<1>. QED BY <1>1, <1>2, <1>3, <1>4

\* A token that was never issued can go to any row.
LEMMA TokenWritten ==
  ASSUME NEW r, NEW n \in Nat, RowsOK(r, n), NEW p \in Projects,
         NEW url \in Urls \cup {NoUrl}
  PROVE  RowsOK(Assign(r, p, Row(n + 1, url)), n + 1)
<1> DEFINE r2 == Assign(r, p, Row(n + 1, url))
<1>1. /\ DOMAIN r2 = DOMAIN r \cup {p}
      /\ r2 = [q \in DOMAIN r2 |-> r2[q]]
      /\ \A q \in DOMAIN r2 : r2[q] = IF q = p THEN Row(n + 1, url) ELSE r[q]
  BY DEF Assign
<1>2. Row(n + 1, url) \in [token : 1 .. (n + 1), url : Urls \cup {NoUrl}]
      /\ Row(n + 1, url).token = n + 1
  BY DEF Row
<1>3. \A q \in DOMAIN r : /\ r[q] \in [token : 1 .. (n + 1), url : Urls \cup {NoUrl}]
                          /\ r[q].token # n + 1
  BY DEF RowsOK
<1> HIDE DEF r2
<1>4. r2 \in [DOMAIN r2 -> [token : 1 .. (n + 1), url : Urls \cup {NoUrl}]]
  BY <1>1, <1>2, <1>3
<1>5. \A q1, q2 \in DOMAIN r2 : r2[q1].token = r2[q2].token => q1 = q2
  BY <1>1, <1>2, <1>3 DEF RowsOK
<1>. QED BY <1>1, <1>4, <1>5 DEF RowsOK, r2

\* Fewer rows, or another URL, are as good.
LEMMA RowsKept ==
  ASSUME NEW r, NEW n \in Nat, RowsOK(r, n)
  PROVE  /\ \A S : RowsOK(Keep(r, S), n)
         /\ \A p \in DOMAIN r, url \in Urls \cup {NoUrl} :
              RowsOK([r EXCEPT ![p].url = url], n)
<1>1. ASSUME NEW S PROVE RowsOK(Keep(r, S), n)
  BY DEF RowsOK, Keep
<1>2. ASSUME NEW p \in DOMAIN r, NEW url \in Urls \cup {NoUrl}
      PROVE  RowsOK([r EXCEPT ![p].url = url], n)
  <2> DEFINE r2 == [r EXCEPT ![p].url = url]
  <2>1. r2 = [r EXCEPT ![p] = [r[p] EXCEPT !.url = url]]
    OBVIOUS
  <2>2. [r[p] EXCEPT !.url = url] \in [token : 1 .. n, url : Urls \cup {NoUrl}]
        /\ [r[p] EXCEPT !.url = url].token = r[p].token
    BY DEF RowsOK
  <2>3. DOMAIN r2 = DOMAIN r /\ r2 \in [DOMAIN r -> [token : 1 .. n, url : Urls \cup {NoUrl}]]
        /\ \A q \in DOMAIN r : r2[q].token = r[q].token
    BY <2>1, <2>2 DEF RowsOK
  <2> HIDE DEF r2
  <2>. QED BY <2>3 DEF RowsOK, r2
<1>. QED BY <1>1, <1>2

\* A new token in a row, whatever the row.
LEMMA Rotated ==
  ASSUME NEW r, NEW n \in Nat, RowsOK(r, n), NEW p \in DOMAIN r
  PROVE  RowsOK([r EXCEPT ![p].token = n + 1], n + 1)
<1>1. r[p] = Row(r[p].token, r[p].url) /\ r[p].url \in Urls \cup {NoUrl} /\ p \in Projects
  BY DEF RowsOK, Row
<1>2. [r[p] EXCEPT !.token = n + 1] = Row(n + 1, r[p].url)
  BY <1>1 DEF Row
<1>3. [r EXCEPT ![p].token = n + 1] = Assign(r, p, Row(n + 1, r[p].url))
  BY <1>2 DEF Assign, RowsOK
<1>. QED BY <1>1, <1>3, TokenWritten

\* A row that moves to a free name.
LEMMA RenamedFact ==
  ASSUME RowsOK(rows, issued), NEW p \in Projects, NEW q \in Projects,
         ~({p, q} \subseteq DOMAIN rows)
  PROVE  /\ RowsOK(Renamed(p, q), issued)
         /\ p \in DOMAIN rows => q \in DOMAIN Renamed(p, q)
<1>1. CASE p \notin DOMAIN rows
  BY <1>1 DEF Renamed
<1>2. CASE p \in DOMAIN rows
  <2> DEFINE r2 == Renamed(p, q)
  <2>1. q \notin DOMAIN rows
    BY <1>2
  <2>2. r2 = Assign(Keep(rows, Projects \ {p}), q, rows[p])
    BY <1>2 DEF Renamed
  <2>3. DOMAIN r2 = (DOMAIN rows \ {p}) \cup {q}
    BY <2>2 DEF Assign, Keep, RowsOK
  <2>4. \A n \in DOMAIN r2 : r2[n] = IF n = q THEN rows[p] ELSE rows[n]
    BY <2>2, <2>3 DEF Assign, Keep
  <2>5. r2 = [n \in DOMAIN r2 |-> r2[n]]
    BY <2>2 DEF Assign
  <2> HIDE DEF r2
  <2>6. r2 \in [DOMAIN r2 -> [token : 1 .. issued, url : Urls \cup {NoUrl}]]
    BY <1>2, <2>3, <2>4, <2>5 DEF RowsOK
  <2>7. \A n1, n2 \in DOMAIN r2 : r2[n1].token = r2[n2].token => n1 = n2
    BY <1>2, <2>1, <2>3, <2>4 DEF RowsOK
  <2>. QED BY <2>3, <2>6, <2>7 DEF RowsOK, r2
<1>. QED BY <1>1, <1>2

----------------------------------------------------------------------------
(***************************************************************************)
(* Others' steps                                                           *)
(***************************************************************************)

\* What a call notices of them is all that changes in it.
LEMMA WatchingFact ==
  ASSUME NEW call \in CallRecord, NEW r, NEW d
  PROVE  LET w == Watching(call, r, d)
             old == About(call, db)
             new == About(call, d)
         IN
         /\ w \in CallRecord
         /\ <<w.pc, w.op, w.project, w.arg, w.answer>> =
              <<call.pc, call.op, call.project, call.arg, call.answer>>
         /\ <<w.issues, w.events, w.truth, w.changed>> =
              <<call.issues, call.events, call.truth, call.changed>>
         /\ call.pc = "answered" => w = call
         /\ call.raced => w.raced
         /\ call.grew => w.grew
         /\ call.shrank => w.shrank
         /\ Counts(call) =>
              /\ new.issues > old.issues \/ new.events > old.events => w.grew
              /\ new.issues < old.issues \/ new.events < old.events => w.shrank
         /\ Running(call) /\ ~Counts(call) => w.raced \/ DOMAIN rows \subseteq DOMAIN r
<1>1. CASE ~Running(call)
  BY <1>1 DEF Watching, Counts
<1>2. CASE Counts(call)
  BY <1>2 DEF Watching, Counts, CallRecord, Running
<1>3. CASE Running(call) /\ ~Counts(call)
  BY <1>3 DEF Watching, Counts, CallRecord, Running
<1>. QED BY <1>1, <1>2, <1>3 DEF Counts

\* A bracket follows the tables.
LEMMA BracketFollows ==
  ASSUME NEW call, NEW w, NEW a \in Numbers, NEW old \in Numbers, NEW new \in Numbers,
         Bracketed(call, a, old),
         call.grew => w.grew, call.shrank => w.shrank,
         new.issues > old.issues \/ new.events > old.events => w.grew,
         new.issues < old.issues \/ new.events < old.events => w.shrank
  PROVE  Bracketed(w, a, new)
BY DEF Bracketed, Numbers

\* What a call reads depends on its operation and its project.
LEMMA AboutSame ==
  ASSUME NEW call, NEW w, w.op = call.op, w.project = call.project, NEW d
  PROVE  About(w, d) = About(call, d)
BY DEF About

\* Whatever others do, a call keeps what it may rely on.
LEMMA WatchKeeps ==
  ASSUME NEW s, NEW call, CallOK(s, call, rows, db), TablesOK(db),
         NEW r, NEW d, TablesOK(d)
  PROVE  CallOK(s, Watching(call, r, d), r, d)
<1>1. CASE call = NoCall
  BY <1>1 DEF NoCall, Watching, Running, CallOK
<1>2. CASE call # NoCall
  <2> DEFINE w == Watching(call, r, d)
             old == About(call, db)
             new == About(call, d)
  <2>1. WellFormed(s, call) /\ LateOnlyIfRaced(call, rows) /\ CountedSoFar(call, db)
    BY <1>2 DEF CallOK
  <2>2. /\ w \in CallRecord
        /\ /\ w.pc = call.pc /\ w.op = call.op /\ w.project = call.project
           /\ w.arg = call.arg /\ w.answer = call.answer
        /\ /\ w.issues = call.issues /\ w.events = call.events
           /\ w.truth = call.truth /\ w.changed = call.changed
        /\ call.pc = "answered" => w = call
        /\ call.raced => w.raced
        /\ call.grew => w.grew
        /\ call.shrank => w.shrank
        /\ Counts(call) =>
             /\ new.issues > old.issues \/ new.events > old.events => w.grew
             /\ new.issues < old.issues \/ new.events < old.events => w.shrank
        /\ Running(call) /\ ~Counts(call) => w.raced \/ DOMAIN rows \subseteq DOMAIN r
    BY <2>1, WatchingFact DEF WellFormed
  <2>3. About(w, d) = new
    BY <2>2, AboutSame
  <2>4. old \in Numbers /\ new \in Numbers
    BY AboutTyped
  <2>5. call \in CallRecord
    BY <2>1 DEF WellFormed
  <2> HIDE DEF w, old, new
  <2>6. WellFormed(s, w)
    BY <2>1, <2>2 DEF WellFormed
  <2>7. LateOnlyIfRaced(w, r)
    BY <2>1, <2>2 DEF LateOnlyIfRaced, WellFormed, OpsAt, Counts, Counting, Running, Shown
  <2>8. CountedSoFar(w, d)
    <3>1. CASE call.pc = "answered"
      <4>1. w = call
        BY <2>2, <3>1
      <4>. QED BY <2>1, <3>1, <4>1 DEF CountedSoFar
    <3>2. CASE call.pc # "answered" /\ call.op \in Counting
      <4>1. call.answer = "none" /\ w.answer = "none" /\ Counts(call)
        BY <2>1, <2>2, <3>2 DEF WellFormed, Counts, Running, CallRecord, Places
      <4>2. \A a \in Numbers : Bracketed(call, a, old) => Bracketed(w, a, new)
        BY <2>2, <2>4, <4>1, BracketFollows
      <4>3. call.truth \in Numbers /\ ReportOf(call) \in Numbers
            /\ ReportOf(w) = ReportOf(call) /\ w.truth = call.truth
        BY <2>2, <2>5 DEF CallRecord, ReportOf, Numbers
      <4>4. Drifted(call, call.issues, old.issues) => Drifted(w, call.issues, new.issues)
        BY <2>2, <2>4, <2>5, <4>1 DEF Drifted, CallRecord, Numbers
      <4>5. \A a, b : Drifted(call, a, b) => Drifted(w, a, b)
        BY <2>2 DEF Drifted
      <4>. QED BY <2>1, <2>2, <2>3, <3>2, <4>1, <4>2, <4>3, <4>4, <4>5
               DEF CountedSoFar, old
    <3>3. CASE call.op \notin Counting
      BY <2>2, <3>3 DEF CountedSoFar, Counting
    <3>. QED BY <3>1, <3>2, <3>3
  <2>. QED BY <2>6, <2>7, <2>8 DEF CallOK, w
<1>. QED BY <1>1, <1>2

----------------------------------------------------------------------------
(***************************************************************************)
(* A call's own steps                                                      *)
(***************************************************************************)

\* A call under way is one that began.
LEMMA UnderWay ==
  ASSUME Inv, NEW s \in Slots, calls[s].pc # "idle"
  PROVE  /\ WellFormed(s, calls[s])
         /\ LateOnlyIfRaced(calls[s], rows)
         /\ CountedSoFar(calls[s], db)
         /\ calls[s] \in CallRecord
BY DEF Inv, CallOK, NoCall, WellFormed

\* A step keeps the invariant if its own call and its tables are in order.
LEMMA StepKeeps ==
  ASSUME Inv, NEW s \in Slots, NEW call, NEW r, NEW d, Step(s, call, r, d),
         CallOK(s, call, r, d), issued' \in Nat, RowsOK(r, issued'), TablesOK(d)
  PROVE  Inv'
<1>1. calls' = [t \in Slots |-> IF t = s THEN call ELSE Watching(calls[t], r, d)]
      /\ rows' = r /\ db' = d
  BY DEF Step
<1>2. \A t \in Slots : CallOK(t, calls'[t], r, d)
  <2>1. \A t \in Slots : CallOK(t, Watching(calls[t], r, d), r, d)
    BY WatchKeeps DEF Inv
  <2>. QED BY <1>1, <2>1
<1>3. calls' = [t \in Slots |-> calls'[t]]
  BY <1>1
<1>. QED BY <1>1, <1>2, <1>3 DEF Inv, CallsOK

\* What the parts of a step leave of a call's record.
SameCall(new, call) ==
  /\ new.op = call.op /\ new.project = call.project /\ new.arg = call.arg
  /\ new.issues = call.issues /\ new.events = call.events /\ new.truth = call.truth
  /\ new.raced = call.raced /\ new.grew = call.grew /\ new.shrank = call.shrank

LEMMA AnsweredFact ==
  ASSUME NEW call \in CallRecord, NEW answer \in Answers
  PROVE  LET new == Answered(call, answer) IN
         /\ new \in CallRecord /\ SameCall(new, call)
         /\ new.pc = "answered" /\ new.answer = answer /\ new.changed = call.changed
BY DEF CallRecord, Answered, SameCall, Places

LEMMA AtFact ==
  ASSUME NEW call \in CallRecord, NEW pc \in Places
  PROVE  LET new == At(call, pc) IN
         /\ new \in CallRecord /\ SameCall(new, call)
         /\ new.pc = pc /\ new.answer = call.answer /\ new.changed = call.changed
BY DEF CallRecord, At, SameCall

LEMMA WroteFact ==
  ASSUME NEW call \in CallRecord
  PROVE  LET new == Wrote(call) IN
         /\ new \in CallRecord /\ SameCall(new, call)
         /\ new.pc = call.pc /\ new.answer = call.answer /\ new.changed
BY DEF CallRecord, Wrote, SameCall

\* Refusals that leave everything alone: 404 and 409 before a write.
LEMMA RefusedKeeps ==
  ASSUME Inv, NEW s \in Slots, calls[s].pc \notin {"idle", "answered"},
         NEW answer \in {"404", "409", "panic", "200"},
         Step(s, Answered(calls[s], answer), rows, db),
         answer # "200" /\ calls[s].changed => calls[s].raced,
         answer = "200" => calls[s].op \notin Counting,
         issued' \in Nat, RowsOK(rows, issued')
  PROVE  Inv'
<1> DEFINE call == calls[s]
           new == Answered(call, answer)
<1>1. WellFormed(s, call) /\ call \in CallRecord
  BY UnderWay
<1>2. /\ new \in CallRecord /\ SameCall(new, call)
      /\ new.pc = "answered" /\ new.answer = answer /\ new.changed = call.changed
  BY <1>1, AnsweredFact DEF Answers
<1> HIDE DEF new
<1>3. WellFormed(s, new)
  BY <1>1, <1>2 DEF WellFormed, OpsAt, CallRecord, SameCall
<1>4. LateOnlyIfRaced(new, rows)
  BY <1>2 DEF LateOnlyIfRaced, SameCall
<1>5. CountedSoFar(new, db)
  BY <1>2 DEF CountedSoFar, Counting, SameCall
<1>6. CallOK(s, new, rows, db)
  BY <1>3, <1>4, <1>5 DEF CallOK
<1>. QED BY <1>6, StepKeeps DEF Inv, new

\* create_project makes a row with a new token, or finds the name taken.
LEMMA InsertKeeps ==
  ASSUME Inv, NEW s \in Slots, Insert(s)
  PROVE  Inv'
<1> DEFINE call == calls[s]
           p == call.project
           new == Wrote(Answered(call, "201"))
<1>1. /\ WellFormed(s, call) /\ LateOnlyIfRaced(call, rows) /\ call \in CallRecord
      /\ call.pc = "insert"
  BY UnderWay DEF Insert
<1>2. call.op = "create" /\ p \in Projects /\ ~call.changed
  BY <1>1 DEF WellFormed, OpsAt, LateOnlyIfRaced
<1>3. CASE Step(s, Answered(call, "409"), rows, db) /\ issued' = issued
  BY <1>1, <1>2, <1>3, RefusedKeeps DEF Inv
<1>4. CASE /\ Step(s, new, Assign(rows, p, Row(issued + 1, NoUrl)), db)
           /\ issued' = issued + 1
  <2>1. RowsOK(Assign(rows, p, Row(issued + 1, NoUrl)), issued + 1)
    BY <1>2, TokenWritten DEF Inv
  <2>2. /\ new \in CallRecord /\ SameCall(new, call)
        /\ new.pc = "answered" /\ new.answer = "201"
    BY <1>1, AnsweredFact, WroteFact DEF Answers, SameCall
  <2>3. WellFormed(s, new)
    BY <1>1, <1>2, <2>2 DEF WellFormed, OpsAt, SameCall, CallRecord
  <2>4. \A r, d : LateOnlyIfRaced(new, r) /\ CountedSoFar(new, d)
    BY <1>2, <2>2 DEF LateOnlyIfRaced, CountedSoFar, Counting, SameCall
  <2> HIDE DEF new
  <2>. QED BY <1>4, <2>1, <2>3, <2>4, StepKeeps DEF Inv, CallOK
<1>. QED BY <1>3, <1>4 DEF Insert

\* The two updates write a row that is there, with a new token or a URL.
LEMMA UpdateKeeps ==
  ASSUME Inv, NEW s \in Slots, Update(s)
  PROVE  Inv'
<1> DEFINE call == calls[s]
           p == call.project
           over == s \in Clis /\ call.op = "webhook"
           new == Wrote(IF over THEN Answered(call, "200") ELSE At(call, "reread"))
<1>1. /\ WellFormed(s, call) /\ LateOnlyIfRaced(call, rows) /\ call \in CallRecord
      /\ call.pc = "update"
  BY UnderWay DEF Update
<1>2. call.op \in {"webhook", "rotate"} /\ p \in Projects /\ ~call.changed
  BY <1>1 DEF WellFormed, OpsAt, LateOnlyIfRaced
<1>3. /\ issued' = IF call.op = "rotate" THEN issued + 1 ELSE issued
      /\ issued' \in Nat
  BY DEF Update, Inv
<1>4. CASE Step(s, Answered(call, "404"), rows, db)
  <2>1. RowsOK(rows, issued')
    BY <1>3 DEF RowsOK, Inv
  <2>. QED BY <1>1, <1>2, <1>3, <1>4, <2>1, RefusedKeeps
<1>5. CASE p \in DOMAIN rows /\ Step(s, new, Updated(call), db)
  <2>1. RowsOK(Updated(call), issued') /\ DOMAIN Updated(call) = DOMAIN rows
    <3>1. CASE call.op = "rotate"
      <4>1. Updated(call) = [rows EXCEPT ![p].token = issued + 1]
        BY <3>1 DEF Updated
      <4>. QED BY <1>3, <1>5, <3>1, <4>1, Rotated DEF Inv
    <3>2. CASE call.op = "webhook"
      <4>1. Updated(call) = [rows EXCEPT ![p].url = call.arg]
        BY <3>2 DEF Updated
      <4>2. call.arg \in Urls \cup {NoUrl}
        BY <1>1, <3>2 DEF WellFormed
      <4>. QED BY <1>3, <1>5, <3>2, <4>1, <4>2, RowsKept DEF Inv
    <3>. QED BY <1>2, <3>1, <3>2
  <2>2. /\ new \in CallRecord /\ SameCall(new, call)
        /\ IF over THEN new.pc = "answered" /\ new.answer = "200"
                   ELSE new.pc = "reread" /\ new.answer = call.answer
    BY <1>1, AnsweredFact, AtFact, WroteFact DEF Answers, Places, SameCall
  <2> HIDE DEF new
  <2>3. WellFormed(s, new)
    BY <1>1, <1>2, <2>2 DEF WellFormed, OpsAt, SameCall, CallRecord
  <2>4. /\ LateOnlyIfRaced(new, Updated(call))
        /\ CountedSoFar(new, db)
    BY <1>1, <1>2, <1>5, <2>1, <2>2
       DEF LateOnlyIfRaced, CountedSoFar, Counting, SameCall, Shown, WellFormed
  <2>5. CallOK(s, new, Updated(call), db)
    BY <2>3, <2>4 DEF CallOK
  <2>. QED BY <1>3, <1>5, <2>1, <2>5, StepKeeps DEF Inv
<1>. QED BY <1>4, <1>5 DEF Update

\* Reading the row to show.
LEMMA RereadKeeps ==
  ASSUME Inv, NEW s \in Slots, Reread(s)
  PROVE  Inv'
<1> DEFINE call == calls[s]
           answer == IF Shown(call) \in DOMAIN rows THEN "200"
                     ELSE IF call.op = "webhook" THEN "panic" ELSE "404"
<1>1. /\ WellFormed(s, call) /\ LateOnlyIfRaced(call, rows)
      /\ call.pc = "reread"
  BY UnderWay DEF Reread
<1>2. Step(s, Answered(call, answer), rows, db) /\ issued' = issued
  BY DEF Reread, Shown
<1>3. call.op \notin Counting
  BY <1>1 DEF WellFormed, OpsAt, Counting
<1>4. answer # "200" /\ call.changed => call.raced
  BY <1>1 DEF LateOnlyIfRaced
<1>. QED BY <1>1, <1>2, <1>3, <1>4, RefusedKeeps DEF Inv

\* The existence check, and the database call it leads to.
LEMMA CheckKeeps ==
  ASSUME Inv, NEW s \in Slots, Check(s)
  PROVE  Inv'
<1> DEFINE call == calls[s]
           next == CASE call.op = "rename"   -> "tx"
                     [] call.op = "activity" -> "events"
                     [] OTHER                -> "issues"
           new == At(call, next)
<1>1. /\ WellFormed(s, call) /\ LateOnlyIfRaced(call, rows) /\ CountedSoFar(call, db)
      /\ call \in CallRecord /\ call.pc = "check" /\ issued' = issued
  BY UnderWay DEF Check
<1>2. call.op \in {"rename", "delete", "preview", "activity"} /\ ~call.changed
  BY <1>1 DEF WellFormed, OpsAt, LateOnlyIfRaced
<1>3. CASE Step(s, Answered(call, "404"), rows, db)
  BY <1>1, <1>2, <1>3, RefusedKeeps DEF Inv
<1>4. CASE call.project \in DOMAIN rows /\ Step(s, new, rows, db)
  <2>1. /\ next \in {"tx", "events", "issues"}
        /\ next = "tx" <=> call.op = "rename"
        /\ next = "events" <=> call.op = "activity"
    BY <1>2
  <2> HIDE DEF next
  <2>2. /\ new \in CallRecord /\ SameCall(new, call) /\ new.pc = next
        /\ new.answer = call.answer /\ new.changed = call.changed
    BY <1>1, <2>1, AtFact DEF Places
  <2>3. About(new, db) = About(call, db)
    BY <2>2, AboutSame DEF SameCall
  <2> HIDE DEF new
  <2>4. WellFormed(s, new)
    BY <1>1, <1>2, <2>1, <2>2 DEF WellFormed, OpsAt, SameCall, Counting
  <2>5. LateOnlyIfRaced(new, rows)
    BY <1>2, <1>4, <2>1, <2>2 DEF LateOnlyIfRaced, SameCall
  <2>6. CountedSoFar(new, db)
    <3>1. new.answer = "none"
      BY <1>1, <2>2 DEF WellFormed
    <3>2. call.op # "delete" /\ call.op # "rename" =>
            Bracketed(new, new.truth, About(new, db))
      BY <1>1, <1>2, <2>2, <2>3 DEF CountedSoFar, Counting, Bracketed, SameCall
    <3>. QED BY <1>2, <2>1, <2>2, <3>1, <3>2 DEF CountedSoFar, Counting, SameCall
  <2>7. CallOK(s, new, rows, db)
    BY <2>4, <2>5, <2>6 DEF CallOK
  <2>. QED BY <1>1, <1>4, <2>7, StepKeeps DEF Inv
<1>. QED BY <1>3, <1>4 DEF Check

\* What a call has once it notes a count.
LEMMA NotedFact ==
  ASSUME NEW call \in CallRecord, NEW n \in Nat
  PROVE  /\ LET new == [call EXCEPT !.issues = n] IN
            /\ new \in CallRecord /\ new.issues = n /\ new.events = call.events
            /\ new.pc = call.pc /\ new.answer = call.answer /\ new.op = call.op
            /\ new.project = call.project /\ new.arg = call.arg
            /\ new.changed = call.changed /\ new.raced = call.raced
            /\ new.grew = call.grew /\ new.shrank = call.shrank /\ new.truth = call.truth
         /\ LET new == [call EXCEPT !.events = n] IN
            /\ new \in CallRecord /\ new.events = n /\ new.issues = call.issues
            /\ new.pc = call.pc /\ new.answer = call.answer /\ new.op = call.op
            /\ new.project = call.project /\ new.arg = call.arg
            /\ new.changed = call.changed /\ new.raced = call.raced
            /\ new.grew = call.grew /\ new.shrank = call.shrank /\ new.truth = call.truth
BY DEF CallRecord

\* Counting issues.
LEMMA CountIssuesKeeps ==
  ASSUME Inv, NEW s \in Slots, CountIssues(s)
  PROVE  Inv'
<1> DEFINE call == calls[s]
           now == About(call, db)
           on == IF call.op = "activity" THEN Answered(call, "200") ELSE At(call, "events")
           new == [on EXCEPT !.issues = now.issues]
<1>1. /\ WellFormed(s, call) /\ LateOnlyIfRaced(call, rows) /\ CountedSoFar(call, db)
      /\ call \in CallRecord /\ call.pc = "issues"
      /\ issued' = issued /\ Step(s, new, rows, db)
  BY UnderWay DEF CountIssues
<1>2. call.op \in Counting /\ ~call.changed /\ call.answer = "none"
  BY <1>1 DEF WellFormed, OpsAt, LateOnlyIfRaced
<1>3. now \in Numbers /\ now.issues \in Nat /\ now.events \in Nat
  BY AboutTyped DEF Inv, Numbers
<1>4. /\ on \in CallRecord /\ SameCall(on, call) /\ on.changed = call.changed
      /\ IF call.op = "activity" THEN on.pc = "answered" /\ on.answer = "200"
                                 ELSE on.pc = "events" /\ on.answer = "none"
  BY <1>1, <1>2, AnsweredFact, AtFact DEF Answers, Places
<1> HIDE DEF on, now
<1>5. /\ new \in CallRecord /\ new.issues = now.issues /\ new.events = on.events
      /\ new.pc = on.pc /\ new.answer = on.answer /\ new.op = on.op
      /\ new.project = on.project /\ new.arg = on.arg
      /\ new.changed = on.changed /\ new.raced = on.raced
      /\ new.grew = on.grew /\ new.shrank = on.shrank /\ new.truth = on.truth
  BY <1>3, <1>4, NotedFact
<1> HIDE DEF new
<1>6. About(new, db) = now
  <2>1. new.op = call.op /\ new.project = call.project
    BY <1>4, <1>5 DEF SameCall
  <2>. QED BY <2>1, AboutSame DEF now
<1>7. WellFormed(s, new)
  BY <1>1, <1>2, <1>4, <1>5 DEF WellFormed, OpsAt, SameCall, CallRecord
<1>8. LateOnlyIfRaced(new, rows)
  BY <1>2, <1>4, <1>5 DEF LateOnlyIfRaced, SameCall
<1>9. CountedSoFar(new, db)
  <2>1. call.op # "delete" => Bracketed(call, call.truth, now)
    BY <1>1, <1>2 DEF CountedSoFar, now
  <2>2. call.op = "activity" => Drifted(call, call.truth.events, call.events)
    BY <1>1 DEF CountedSoFar, Counting
  <2>3. /\ new.op = call.op /\ new.truth = call.truth /\ new.events = call.events
        /\ new.grew = call.grew /\ new.shrank = call.shrank
    BY <1>4, <1>5 DEF SameCall
  <2>4. call.op # "delete" =>
          /\ Bracketed(new, new.truth, now)
          /\ Drifted(new, new.truth.issues, new.issues)
    BY <1>5, <2>1, <2>3 DEF Bracketed, Drifted
  <2>5. call.op = "activity" => Bracketed(new, new.truth, ReportOf(new))
    BY <2>2, <2>3, <2>4 DEF Bracketed, Drifted, ReportOf, Counting
  <2>6. Drifted(new, new.issues, now.issues)
    BY <1>3, <1>5 DEF Drifted
  <2>. QED BY <1>2, <1>4, <1>5, <1>6, <2>3, <2>4, <2>5, <2>6 DEF CountedSoFar, Counting
<1>10. CallOK(s, new, rows, db)
  BY <1>7, <1>8, <1>9 DEF CallOK
<1>. QED BY <1>1, <1>10, StepKeeps DEF Inv

\* Counting events.
LEMMA CountEventsKeeps ==
  ASSUME Inv, NEW s \in Slots, CountEvents(s)
  PROVE  Inv'
<1> DEFINE call == calls[s]
           now == About(call, db)
           on == CASE call.op = "delete"   -> At(call, "tx")
                   [] call.op = "activity" -> At(call, "issues")
                   [] OTHER                -> Answered(call, "200")
           new == [on EXCEPT !.events = now.events]
<1>1. /\ WellFormed(s, call) /\ LateOnlyIfRaced(call, rows) /\ CountedSoFar(call, db)
      /\ call \in CallRecord /\ call.pc = "events"
      /\ issued' = issued /\ Step(s, new, rows, db)
  BY UnderWay DEF CountEvents, EventsCounted
<1>2. call.op \in Counting /\ ~call.changed /\ call.answer = "none"
  BY <1>1 DEF WellFormed, OpsAt, LateOnlyIfRaced
<1>3. now \in Numbers /\ now.issues \in Nat /\ now.events \in Nat
  BY AboutTyped DEF Inv, Numbers
<1>4. /\ on \in CallRecord /\ SameCall(on, call) /\ on.changed = call.changed
      /\ call.op = "delete" => on.pc = "tx" /\ on.answer = "none"
      /\ call.op = "activity" => on.pc = "issues" /\ on.answer = "none"
      /\ call.op \notin {"delete", "activity"} =>
           on.pc = "answered" /\ on.answer = "200"
  BY <1>1, <1>2, AnsweredFact, AtFact DEF Answers, Places
<1> HIDE DEF on, now
<1>5. /\ new \in CallRecord /\ new.events = now.events /\ new.issues = on.issues
      /\ new.pc = on.pc /\ new.answer = on.answer /\ new.op = on.op
      /\ new.project = on.project /\ new.arg = on.arg
      /\ new.changed = on.changed /\ new.raced = on.raced
      /\ new.grew = on.grew /\ new.shrank = on.shrank /\ new.truth = on.truth
  BY <1>3, <1>4, NotedFact, ZenonT(40)
<1> HIDE DEF new
<1>6. About(new, db) = now
  <2>1. new.op = call.op /\ new.project = call.project
    BY <1>4, <1>5 DEF SameCall
  <2>. QED BY <2>1, AboutSame DEF now
<1>7. WellFormed(s, new)
  BY <1>1, <1>2, <1>4, <1>5 DEF WellFormed, OpsAt, SameCall, CallRecord
<1>8. LateOnlyIfRaced(new, rows)
  BY <1>2, <1>4, <1>5 DEF LateOnlyIfRaced, SameCall, Counting
<1>9. CountedSoFar(new, db)
  <2>1. call.op # "delete" => Bracketed(call, call.truth, now)
    BY <1>1, <1>2 DEF CountedSoFar, now
  <2>2. call.op \notin {"delete", "activity"} =>
          Drifted(call, call.truth.issues, call.issues)
    BY <1>1, <1>2 DEF CountedSoFar
  <2>3. call.op = "delete" => Drifted(call, call.issues, now.issues)
    BY <1>1 DEF CountedSoFar, now
  <2>4. /\ new.op = call.op /\ new.truth = call.truth /\ new.issues = call.issues
        /\ new.grew = call.grew /\ new.shrank = call.shrank
    BY <1>4, <1>5 DEF SameCall
  <2>5. call.op # "delete" =>
          /\ Bracketed(new, new.truth, now)
          /\ Drifted(new, new.truth.events, new.events)
    BY <1>5, <2>1, <2>4 DEF Bracketed, Drifted
  <2>6. call.op \notin {"delete", "activity"} => Bracketed(new, new.truth, ReportOf(new))
    BY <2>2, <2>4, <2>5 DEF Bracketed, Drifted, ReportOf
  <2>7. call.op = "delete" => Bracketed(new, ReportOf(new), now)
    BY <1>3, <1>5, <2>3, <2>4 DEF Bracketed, Drifted, ReportOf
  <2>. QED BY <1>2, <1>4, <1>5, <1>6, <2>4, <2>5, <2>6, <2>7 DEF CountedSoFar, Counting
<1>10. CallOK(s, new, rows, db)
  BY <1>7, <1>8, <1>9 DEF CallOK
<1>. QED BY <1>1, <1>10, StepKeeps DEF Inv

\* delete_project's transaction removes what it reports, or what has come or
\* gone since it counted.
LEMMA DeleteTxKeeps ==
  ASSUME Inv, NEW s \in Slots, DeleteTx(s)
  PROVE  Inv'
<1> DEFINE call == calls[s]
           p == call.project
           on == Wrote(Answered(call, "200"))
           new == [on EXCEPT !.truth = CountsOf(db, p)]
           r == Keep(rows, Projects \ {p})
           d == WithoutIssues(db, OfProject(db, p))
<1>1. /\ WellFormed(s, call) /\ CountedSoFar(call, db) /\ call \in CallRecord
      /\ call.pc = "tx" /\ call.op = "delete"
      /\ issued' = issued /\ Step(s, new, r, d)
  BY UnderWay DEF DeleteTx
<1>2. CountsOf(db, p) = About(call, db) /\ CountsOf(db, p) \in Numbers
  <2>1. CountsOf(db, p) = About(call, db)
    BY <1>1 DEF About
  <2>. QED BY <2>1, AboutTyped DEF Inv
<1>3. /\ on \in CallRecord /\ SameCall(on, call) /\ on.pc = "answered" /\ on.answer = "200"
  BY <1>1, AnsweredFact, WroteFact DEF Answers, SameCall
<1> HIDE DEF on
<1>4. /\ new \in CallRecord /\ new.pc = "answered" /\ new.answer = "200"
      /\ new.op = "delete" /\ new.project = p /\ ReportOf(new) = ReportOf(call)
      /\ new.truth = CountsOf(db, p)
      /\ new.grew = call.grew /\ new.shrank = call.shrank
  BY <1>1, <1>2, <1>3 DEF CallRecord, SameCall, ReportOf
<1> HIDE DEF new
<1>5. WellFormed(s, new)
  BY <1>1, <1>4 DEF WellFormed, OpsAt, CallRecord
<1>6. LateOnlyIfRaced(new, r)
  BY <1>4 DEF LateOnlyIfRaced
<1>7. CountedSoFar(new, d)
  <2>1. Bracketed(call, ReportOf(call), CountsOf(db, p))
    BY <1>1, <1>2 DEF CountedSoFar
  <2>2. Bracketed(new, ReportOf(new), new.truth)
    BY <1>4, <2>1 DEF Bracketed
  <2>. QED BY <1>4, <2>2 DEF CountedSoFar
<1>8. CallOK(s, new, r, d)
  BY <1>5, <1>6, <1>7 DEF CallOK
<1>9. RowsOK(r, issued) /\ TablesOK(d)
  BY RowsKept, StatementsTyped DEF Inv
<1>. QED BY <1>1, <1>8, <1>9, StepKeeps DEF Inv

\* rename_project's transaction moves both tables to a free name, or neither.
LEMMA RenameTxKeeps ==
  ASSUME Inv, NEW s \in Slots, RenameTx(s)
  PROVE  Inv'
<1> DEFINE call == calls[s]
           p == call.project
           q == call.arg
           new == Wrote(At(call, "reread"))
<1>1. /\ WellFormed(s, call) /\ LateOnlyIfRaced(call, rows) /\ call \in CallRecord
      /\ call.pc = "tx" /\ call.op = "rename" /\ issued' = issued
  BY UnderWay DEF RenameTx
<1>2. /\ p \in Projects /\ q \in Projects /\ ~call.changed
      /\ call.raced \/ p \in DOMAIN rows
  BY <1>1 DEF WellFormed, LateOnlyIfRaced
<1>3. CASE Step(s, Answered(call, "409"), rows, db)
  BY <1>1, <1>2, <1>3, RefusedKeeps DEF Inv
<1>4. CASE /\ ~({p, q} \subseteq DOMAIN rows)
           /\ Step(s, new, Renamed(p, q), Moved(db, p, q))
  <2>1. /\ RowsOK(Renamed(p, q), issued)
        /\ p \in DOMAIN rows => q \in DOMAIN Renamed(p, q)
    BY <1>2, <1>4, RenamedFact DEF Inv
  <2>2. TablesOK(Moved(db, p, q))
    BY <1>2, StatementsTyped DEF Inv
  <2>3. /\ new \in CallRecord /\ SameCall(new, call)
        /\ new.pc = "reread" /\ new.answer = call.answer
    BY <1>1, AtFact, WroteFact DEF Places, SameCall
  <2> HIDE DEF new
  <2>4. WellFormed(s, new)
    BY <1>1, <2>3 DEF WellFormed, OpsAt, SameCall
  <2>5. new.answer = "none"
    BY <1>1, <2>3 DEF WellFormed
  <2>6. LateOnlyIfRaced(new, Renamed(p, q))
    BY <1>1, <1>2, <2>1, <2>3, <2>5 DEF LateOnlyIfRaced, SameCall, Shown
  <2>7. CountedSoFar(new, Moved(db, p, q))
    BY <1>1, <2>3 DEF CountedSoFar, Counting, SameCall
  <2>8. CallOK(s, new, Renamed(p, q), Moved(db, p, q))
    BY <2>4, <2>6, <2>7 DEF CallOK
  <2>. QED BY <1>1, <1>4, <2>1, <2>2, <2>8, StepKeeps DEF Inv
<1>. QED BY <1>1, <1>3, <1>4 DEF RenameTx

----------------------------------------------------------------------------
(***************************************************************************)
(* Theorems                                                                *)
(***************************************************************************)

\* A call that begins has written and counted nothing.
LEMMA BeginKeeps ==
  ASSUME Inv, NEW s \in Slots, NEW op \in ConsoleOps, NEW p \in Projects \cup {NoUrl},
         NEW arg \in Urls \cup {NoUrl} \cup Projects,
         NEW pc \in {"insert", "update", "reread", "check", "issues"},
         op \in OpsAt(pc), pc = "issues" => op = "storage",
         op # "storage" => p \in Projects,
         op = "rename" => arg \in Projects, op = "webhook" => arg \in Urls \cup {NoUrl},
         Begin(s, op, p, arg, pc)
  PROVE  Inv'
<1> DEFINE fresh == Call(op, p, arg, pc)
           new == IF op \in Counting \ {"delete"}
                    THEN [fresh EXCEPT !.truth = About(fresh, db)] ELSE fresh
<1>1. /\ calls' = [calls EXCEPT ![s] = new]
      /\ UNCHANGED <<rows, db, issued>>
      /\ s \in Clis => op \in CliOps
  BY DEF Begin
<1>2. About(fresh, db) \in Numbers
  BY AboutTyped DEF Inv
<1>3. fresh \in CallRecord /\ fresh.op = op /\ fresh.project = p /\ fresh.arg = arg
      /\ fresh.pc = pc /\ fresh.answer = "none" /\ fresh.changed = FALSE
  BY DEF Call, CallRecord, Numbers, Places, Answers
<1> HIDE DEF fresh
<1>4. /\ new \in CallRecord /\ new.op = op /\ new.project = p /\ new.arg = arg
      /\ new.pc = pc /\ new.answer = "none" /\ ~new.changed
      /\ op \in Counting \ {"delete"} => new.truth = About(fresh, db)
  BY <1>2, <1>3 DEF CallRecord
<1>5. About(new, db) = About(fresh, db)
  <2> HIDE DEF new
  <2>. QED BY <1>3, <1>4, AboutSame
<1> HIDE DEF new
<1>6. WellFormed(s, new)
  BY <1>1, <1>4 DEF WellFormed
<1>7. LateOnlyIfRaced(new, rows)
  BY <1>4 DEF LateOnlyIfRaced
<1>8. CountedSoFar(new, db)
  <2>1. op \in Counting \ {"delete"} => Bracketed(new, new.truth, About(new, db))
    BY <1>2, <1>4, <1>5 DEF Bracketed, Numbers
  <2>. QED BY <1>4, <2>1 DEF CountedSoFar, OpsAt
<1>9. CallOK(s, new, rows, db)
  BY <1>6, <1>7, <1>8 DEF CallOK
<1>10. \A t \in Slots : calls'[t] = IF t = s THEN new ELSE calls[t]
  BY <1>1 DEF Inv, CallsOK
<1>11. calls' = [t \in Slots |-> calls'[t]]
  BY <1>1 DEF Inv, CallsOK
<1>. QED BY <1>1, <1>9, <1>10, <1>11 DEF Inv, CallsOK

\* Commits and purges leave typed tables.
LEMMA OthersKeep ==
  ASSUME Inv, NEW d, TablesOK(d), Others(d)
  PROVE  Inv'
<1>1. /\ calls' = [s \in Slots |-> Watching(calls[s], rows, d)]
      /\ db' = d /\ UNCHANGED <<rows, issued>>
  BY DEF Others
<1>2. \A s \in Slots : CallOK(s, Watching(calls[s], rows, d), rows, d)
  BY WatchKeeps DEF Inv
<1>. QED BY <1>1, <1>2 DEF Inv, CallsOK

\* Some projects with tokens of their own, and no call.
LEMMA InvInit == Init => Inv
<1> SUFFICES ASSUME Init PROVE Inv
  OBVIOUS
<1>1. PICK P \in SUBSET Projects : \E token \in [P -> 1 .. Cardinality(P)] :
        /\ IsFiniteSet(P)
        /\ \A p, q \in P : token[p] = token[q] => p = q
        /\ rows = [p \in P |-> Row(token[p], NoUrl)]
        /\ issued = Cardinality(P)
  BY DEF Init
<1>2. PICK token \in [P -> 1 .. Cardinality(P)] :
        /\ IsFiniteSet(P)
        /\ \A p, q \in P : token[p] = token[q] => p = q
        /\ rows = [p \in P |-> Row(token[p], NoUrl)]
        /\ issued = Cardinality(P)
  BY <1>1
<1>3. issued \in Nat
  BY <1>2, FS_CardinalityType
<1>4. RowsOK(rows, issued)
  BY <1>2, <1>3 DEF RowsOK, Row
<1>5. TablesOK(db)
  <2>1. Stored(EmptyDb) = {}
    BY DEF Stored, EmptyDb, Db, NoRows
  <2>. QED BY <2>1, EmptyDbSound, FS_EmptySet DEF Init, TablesOK
<1>6. CallsOK /\ \A s \in Slots : calls[s] = NoCall
  BY DEF Init, CallsOK
<1>. QED BY <1>3, <1>4, <1>5, <1>6 DEF Inv, CallOK

\* Every step keeps the invariant.
LEMMA InvStep == Inv /\ [Next]_vars => Inv'
<1> SUFFICES ASSUME Inv, [Next]_vars PROVE Inv'
  OBVIOUS
<1>1. ASSUME NEW s \in Slots, NEW p \in Projects,
             \/ Create(s, p) \/ Rotate(s, p) \/ Delete(s, p)
             \/ DestroyPreview(s, p) \/ Activity24(s, p)
      PROVE  Inv'
  BY <1>1, BeginKeeps DEF Create, Rotate, Delete, DestroyPreview, Activity24,
                          ConsoleOps, OpsAt
<1>2. ASSUME NEW s \in Slots, NEW p \in Projects, NEW url \in Urls \cup {NoUrl},
             SetWebhook(s, p, url)
      PROVE  Inv'
  BY <1>2, BeginKeeps DEF SetWebhook, ConsoleOps, OpsAt
<1>3. ASSUME NEW s \in Slots, NEW p \in Projects, NEW q \in Projects, Rename(s, p, q)
      PROVE  Inv'
  <2>1. \E pc \in {"reread", "check"} : Begin(s, "rename", p, q, pc)
    BY <1>3 DEF Rename
  <2>. QED BY <2>1, BeginKeeps DEF ConsoleOps, OpsAt
<1>4. ASSUME NEW s \in Slots, GetStorage(s) PROVE Inv'
  BY <1>4, BeginKeeps DEF GetStorage, ConsoleOps, OpsAt, Counting
<1>5. ASSUME NEW s \in Slots, Continue(s) PROVE Inv'
  BY <1>5, InsertKeeps, UpdateKeeps, RereadKeeps, CheckKeeps, CountIssuesKeeps,
     CountEventsKeeps, DeleteTxKeeps, RenameTxKeeps DEF Continue
<1>6. ASSUME NEW e \in EventIds, NEW p \in Projects, Commit(e, p) PROVE Inv'
  <2>1. [eid |-> e, project |-> p, at |-> 0] \in Rec
    BY DEF Rec
  <2>. QED BY <1>6, <2>1, StatementsTyped, OthersKeep DEF Commit, Inv
<1>7. ASSUME NEW e \in EventIds, PurgeEvent(e) PROVE Inv'
  BY <1>7, StatementsTyped, OthersKeep DEF PurgeEvent, Inv
<1>8. ASSUME NEW i, PurgeIssue(i) PROVE Inv'
  BY <1>8, StatementsTyped, OthersKeep DEF PurgeIssue, Inv
<1>9. CASE UNCHANGED vars
  BY <1>9 DEF vars, Inv, CallsOK
<1>. QED BY <1>1, <1>2, <1>3, <1>4, <1>5, <1>6, <1>7, <1>8, <1>9 DEF Next

\* So it holds for ever.
LEMMA InvAlways == Spec => []Inv
BY InvInit, InvStep, PTL DEF Spec

\* No mix of creations, rotations, renames and deletions, of the console and
\* the command line, gives two projects one token or leaves a row of no type.
THEOREM ConsoleTyped == Spec => []TypeOK
<1>1. Inv => TypeOK
  <2> SUFFICES ASSUME Inv PROVE TypeOK
    OBVIOUS
  <2>1. ASSUME NEW s \in Made PROVE CallTyped(s, calls[s])
    <3>1. s \in Slots /\ WellFormed(s, calls[s])
      BY <2>1 DEF Made, Inv, CallOK
    <3>. QED BY <3>1 DEF WellFormed, CallRecord, CallTyped, Places, Answers, Numbers
  <2>. QED BY <2>1 DEF Inv, RowsOK, TablesOK, TypeOK
<1>. QED BY <1>1, InvAlways, PTL

\* A call that fails after it has written met another that took a project away.
THEOREM LateFailuresAreRaces == Spec => []OnlyRacesFailLate
<1>1. Inv => OnlyRacesFailLate
  BY DEF Inv, CallOK, LateOnlyIfRaced, OnlyRacesFailLate, Made
<1>. QED BY <1>1, InvAlways, PTL

\* Numbers that are read one by one are off by what others did meanwhile only.
THEOREM ReportsAreBracketed == Spec => []ReportsBracketed
<1>1. Inv => ReportsBracketed
  BY DEF Inv, CallOK, CountedSoFar, ReportsBracketed, Made, ReportOf
<1>. QED BY <1>1, InvAlways, PTL

----------------------------------------------------------------------------
(***************************************************************************)
(* activity_stats                                                          *)
(***************************************************************************)

\* A row of today is the only one whose text is not before the cutoff's: the
\* blank of CURRENT_TIMESTAMP sorts below the T of to_rfc3339.
LEMMA WindowIsToday ==
  ASSUME NEW now \in Int, NEW at \in Int, at <= now
  PROVE  NotBefore(StoredText(at), Rfc3339(now - Hours)) <=> at \div Hours = now \div Hours
<1>1. (now - 24) \div 24 = (now \div 24) - 1
  OBVIOUS
<1>2. at \div 24 <= now \div 24 /\ at \div 24 \in Int /\ now \div 24 \in Int
  OBVIOUS
<1>3. /\ StoredText(at).date = at \div 24 /\ StoredText(at).separator = 32
      /\ Rfc3339(now - Hours).date = (now - 24) \div 24
      /\ Rfc3339(now - Hours).separator = 84
  BY DEF StoredText, Rfc3339, TextOf, Hours, Blank, LetterT
<1>4. NotBefore(StoredText(at), Rfc3339(now - Hours)) <=> at \div 24 > (now - 24) \div 24
  BY <1>3 DEF NotBefore
<1>. QED BY <1>1, <1>2, <1>4 DEF Hours

\* How far activity_stats is from a rollup of 24 hours (store.rs:965), whatever
\* the events and the time of day: it counts what came in since midnight, has no
\* hour for any event and takes the newest to be from just now (974, 981, 1035).
THEOREM ActivitySinceMidnight ==
  ASSUME NEW now \in Int, NEW received, \A r \in received : r.at \in Int /\ r.at <= now
  PROVE  LET today == {r \in received : r.at \div Hours = now \div Hours}
             stats == ActivityStats(received, now)
         IN  /\ stats.events24h = Cardinality(today)
             /\ stats.uniqueIssues24h = Cardinality({r.issue : r \in today})
             /\ stats.lastEventAt \subseteq {now}
             /\ \A n \in 0 .. 23 : stats.hourlyBuckets[n] = 0
<1> DEFINE today == {r \in received : r.at \div Hours = now \div Hours}
           stats == ActivityStats(received, now)
<1>1. InWindow(received, now) = today
  BY WindowIsToday DEF InWindow
<1>2. \A t : Parses(StoredText(t)) = FALSE
  BY DEF Parses, StoredText, TextOf
<1>3. stats.events24h = Cardinality(today)
  BY <1>1 DEF ActivityStats
<1>4. stats.uniqueIssues24h = Cardinality({r.issue : r \in today})
  BY <1>1 DEF ActivityStats
<1>5. stats.lastEventAt \subseteq {now}
  <2>1. stats.lastEventAt = LastEventAt(received, now)
    BY DEF ActivityStats
  <2>. QED BY <1>2, <2>1 DEF LastEventAt
<1>6. ASSUME NEW n \in 0 .. 23 PROVE stats.hourlyBuckets[n] = 0
  <2>1. stats.hourlyBuckets = [m \in 0 .. 23 |-> Cardinality(Bucket(received, now, m))]
    BY DEF ActivityStats
  <2>2. Bucket(received, now, n) = {}
    BY <1>2 DEF Bucket
  <2>. QED BY <1>6, <2>1, <2>2, FS_EmptySet
<1> HIDE DEF today, stats
<1>7. /\ stats.events24h = Cardinality(today)
      /\ stats.uniqueIssues24h = Cardinality({r.issue : r \in today})
      /\ stats.lastEventAt \subseteq {now}
      /\ \A n \in 0 .. 23 : stats.hourlyBuckets[n] = 0
  BY <1>3, <1>4, <1>5, <1>6
<1>. QED BY <1>7 DEF today, stats
=============================================================================
