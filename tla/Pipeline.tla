----------------------------- MODULE Pipeline -----------------------------
(***************************************************************************)
(* The path of an error event through the daemon: the HTTP handlers that   *)
(* accept envelopes (ingest.rs), the bounded channel to the digest task    *)
(* (main.rs), the digest task and its transaction (digest.rs, store.rs),   *)
(* the messages it publishes, and the other writers it shares the issues   *)
(* table with: PUT /api/issues/:id/status and the project console.         *)
(*                                                                         *)
(* The daemon runs on one thread, so everything between two awaits is one  *)
(* step.  It has one database connection, so a statement or a transaction  *)
(* of another task never falls inside the digest task's transaction; and   *)
(* since a task that commits goes on to its sends without awaiting, commit *)
(* and sends are one step to whoever needs the connection.                 *)
(***************************************************************************)
EXTENDS IssueDb

CONSTANTS
  Handlers,     \* concurrent ingest requests
  RequireAuth,  \* config.require_auth
  QueueCap,     \* INGEST_CHANNEL_CAPACITY
  BatchSize,    \* BATCH_SIZE
  WebhookCap,   \* WEBHOOK_CHANNEL_CAPACITY
  MaxEnvelope,  \* bound: events in one envelope
  Budget        \* bound: how often each kind of outside step happens

Outside == {"event", "triage", "abort", "admin", "rollback", "crash"}

ASSUME PipelineAssumption ==
  /\ IsFiniteSet(Handlers)
  /\ RequireAuth \in BOOLEAN
  /\ QueueCap \in Nat \ {0}
  /\ BatchSize \in Nat \ {0}
  /\ WebhookCap \in Nat \ {0}
  /\ MaxEnvelope \in Nat
  /\ Budget \in [Outside -> Nat]

VARIABLES
  clock,       \* Utc::now(), one tick per prepared event
  handlers,    \* the ingest_envelope call of each request slot
  permits,     \* free permits of the ingest channel's semaphore
  waiters,     \* handlers waiting for a permit, first come first
  queue,       \* the ingest channel
  dpc,         \* where the digest task is: "recv", "begin" or "tx"
  batch,       \* its buf
  work,        \* the database as its open transaction sees it
  results,     \* the UpsertResults so far
  db,          \* the committed database
  registered,  \* names in the projects table
  admin,       \* the project operation an administrator has under way
  fanout,      \* the last issue broadcast under each id since boot
  unsent,      \* ids whose last committed change was not broadcast; no action
               \* reads it, the properties do
  webhooks,    \* the webhook channel
  tally,       \* events accepted, settled and dropped since boot
  spent        \* outside steps taken, against Budget

channel == <<permits, waiters, queue>>
digest == <<dpc, batch, work, results>>
output == <<fanout, unsent, webhooks>>
vars == <<clock, handlers, channel, digest, db, registered, admin, output,
          tally, spent>>

----------------------------------------------------------------------------
NoRec == [eid |-> "none"]

Request(pc, project, todo, rec) ==
  [pc |-> pc, project |-> project, todo |-> todo, rec |-> rec]

Idle == Request("idle", "none", <<>>, NoRec)

NoAdmin == [op |-> "none"]

\* Sequences over S no longer than n.
SeqUpTo(S, n) == UNION {[1 .. m -> S] : m \in 0 .. n}

Smaller(a, b) == IF a <= b THEN a ELSE b

\* Variant: a pool of more than one connection, without SQLite's write lock.
SharedConn == TRUE

\* No transaction holds the only connection.
ConnFree == dpc # "tx"

Spend(kind) ==
  /\ spent[kind] < Budget[kind]
  /\ spent' = [spent EXCEPT ![kind] = @ + 1]

Count(kind, n) == tally' = [tally EXCEPT ![kind] = @ + n]

Init ==
  /\ clock = 0
  /\ handlers = [h \in Handlers |-> Idle]
  /\ permits = QueueCap
  /\ waiters = <<>>
  /\ queue = <<>>
  /\ dpc = "recv"
  /\ batch = <<>>
  /\ work = EmptyDb
  /\ results = <<>>
  /\ db = EmptyDb
  /\ registered = {}
  /\ admin = NoAdmin
  /\ fanout = NoRows
  /\ unsent = {}
  /\ webhooks = <<>>
  /\ tally = [accepted |-> 0, settled |-> 0, dropped |-> 0]
  /\ spent = [kind \in Outside |-> 0]

----------------------------------------------------------------------------
(***************************************************************************)
(* ingest_envelope                                                         *)
(***************************************************************************)

\* Authorisation, rate limit, gunzip and parse: the request enters its send
\* loop, or was refused and changed nothing here.  With RequireAuth the
\* sentry_key must be the token of a registered project of that very name.
Receive(h) ==
  /\ handlers[h].pc = "idle"
  /\ RequireAuth => ConnFree
  /\ \E p \in Projects, envelope \in SeqUpTo(EventIds, MaxEnvelope) :
       /\ RequireAuth => p \in registered
       /\ spent["event"] + Len(envelope) <= Budget["event"]
       /\ spent' = [spent EXCEPT !["event"] = @ + Len(envelope)]
       /\ handlers' = [handlers EXCEPT ![h] = Request("sending", p, envelope, NoRec)]
  /\ UNCHANGED <<clock, channel, digest, db, registered, admin, output, tally>>

\* digest::prepare stamps the next event; the first poll of events.send takes
\* a free permit and pushes, or joins the line for one.
Send(h) ==
  LET project == handlers[h].project
      todo == Tail(handlers[h].todo)
      rec == [eid |-> Head(handlers[h].todo), project |-> project, at |-> clock + 1]
  IN
  /\ handlers[h].pc = "sending"
  /\ handlers[h].todo # <<>>
  /\ clock' = clock + 1
  /\ \/ /\ permits > 0
        /\ permits' = permits - 1
        /\ queue' = Append(queue, rec)
        /\ handlers' = [handlers EXCEPT ![h] = Request("sending", project, todo, NoRec)]
        /\ Count("accepted", 1)
        /\ UNCHANGED waiters
     \/ /\ permits = 0
        /\ waiters' = Append(waiters, h)
        /\ handlers' = [handlers EXCEPT ![h] = Request("waiting", project, todo, rec)]
        /\ UNCHANGED <<permits, queue, tally>>
  /\ UNCHANGED <<digest, db, registered, admin, output, spent>>

\* A handler woken with a permit pushes the event it had prepared.
Push(h) ==
  /\ handlers[h].pc = "granted"
  /\ queue' = Append(queue, handlers[h].rec)
  /\ handlers' = [handlers EXCEPT ![h] =
       Request("sending", @.project, @.todo, NoRec)]
  /\ Count("accepted", 1)
  /\ UNCHANGED <<clock, permits, waiters, digest, db, registered, admin, output,
                 spent>>

\* Every event is on the channel: touch_project_used, then 200.
Finish(h) ==
  /\ handlers[h].pc = "sending"
  /\ handlers[h].todo = <<>>
  /\ ConnFree
  /\ handlers' = [handlers EXCEPT ![h] = Idle]
  /\ UNCHANGED <<clock, channel, digest, db, registered, admin, output, tally,
                 spent>>

\* The first k in line each get a permit.
Woken(k, hs, line) ==
  [h \in Handlers |->
     IF h \in {line[j] : j \in 1 .. k} THEN [hs[h] EXCEPT !.pc = "granted"]
                                      ELSE hs[h]]

\* n permits come back: to the first in line, the rest to the semaphore.
\* hs is the handlers' state the grants apply to, line who waits.
Release(n, hs, line) ==
  LET k == Smaller(n, Len(line)) IN
  /\ handlers' = Woken(k, hs, line)
  /\ waiters' = SubSeq(line, k + 1, Len(line))
  /\ permits' = permits + (n - k)

\* The line without h, which stands in it once at most.
Without(line, h) ==
  IF \E k \in 1 .. Len(line) : line[k] = h
    THEN LET k == CHOOSE j \in 1 .. Len(line) : line[j] = h
         IN SubSeq(line, 1, k - 1) \o SubSeq(line, k + 1, Len(line))
    ELSE line

\* Variant: the permit of a dropped request is forgotten.
DisconnectWithPermit(h) ==
  /\ handlers[h].pc \in {"waiting", "granted", "sending"}
  /\ handlers[h].pc = "sending" => handlers[h].todo = <<>>
  /\ Spend("abort")
  /\ Release(0, [handlers EXCEPT ![h] = Idle], Without(waiters, h))
  /\ UNCHANGED <<clock, queue, digest, db, registered, admin, output, tally>>

\* The client goes away: the server drops the request's future where it
\* awaits, and with it its place in line or its permit.
Disconnect(h) ==
  LET held == IF handlers[h].pc = "granted" THEN 1 ELSE 0 IN
  /\ handlers[h].pc \in {"waiting", "granted", "sending"}
  /\ handlers[h].pc = "sending" => handlers[h].todo = <<>>
  /\ Spend("abort")
  /\ Release(held, [handlers EXCEPT ![h] = Idle], Without(waiters, h))
  /\ UNCHANGED <<clock, queue, digest, db, registered, admin, output, tally>>

----------------------------------------------------------------------------
(***************************************************************************)
(* The digest task                                                         *)
(***************************************************************************)

\* recv, then try_recv while the buffer has room: no await in between.
TakeBatch ==
  LET n == Smaller(Len(queue), BatchSize) IN
  /\ dpc = "recv"
  /\ queue # <<>>
  /\ dpc' = "begin"
  /\ batch' = SubSeq(queue, 1, n)
  /\ queue' = SubSeq(queue, n + 1, Len(queue))
  /\ Release(n, handlers, waiters)
  /\ UNCHANGED <<clock, work, results, db, registered, admin, output, tally,
                 spent>>

\* pool.begin() gets the connection.
BeginTx ==
  /\ dpc = "begin"
  /\ dpc' = "tx"
  /\ work' = db
  /\ UNCHANGED <<clock, handlers, channel, batch, results, db, registered,
                 admin, output, tally, spent>>

\* One iteration of the loop in upsert_batch_with_events.
UpsertNext ==
  LET r == batch[Len(results) + 1] IN
  /\ dpc = "tx"
  /\ Len(results) < Len(batch)
  /\ work' = Upserted(work, r)
  /\ results' = Append(results, UpsertResult(work, r))
  /\ UNCHANGED <<clock, handlers, channel, dpc, batch, db, registered, admin,
                 output, tally, spent>>

\* Variant: the first message about an issue wins.
BroadcastFirst(view, msgs) ==
  LET about(i) == {n \in DOMAIN msgs : msgs[n].id = i}
      first(i) == CHOOSE n \in about(i) : \A m \in about(i) : n <= m
  IN [i \in DOMAIN view \cup {msgs[n].id : n \in DOMAIN msgs} |->
        IF about(i) = {} THEN view[i] ELSE msgs[first(i)].issue]

\* What a client that applies msgs in order to view ends up holding
\* (IssuesStore.upsert: last write wins, by id).
Broadcast(view, msgs) ==
  LET about(i) == {n \in DOMAIN msgs : msgs[n].id = i}
      last(i) == CHOOSE n \in about(i) : \A m \in about(i) : m <= n
  IN [i \in DOMAIN view \cup {msgs[n].id : n \in DOMAIN msgs} |->
        IF about(i) = {} THEN view[i] ELSE msgs[last(i)].issue]

\* Variant: every occurrence of an open issue alerts.
AlertingAlways(result) == result.issue.status = "unresolved"

Alerting(result) == result.created \/ result.regressed

\* The n-th position of a set of positions.
Nth(S, n) == CHOOSE i \in S : Cardinality({j \in S : j <= i}) = n

TriggerOf(result) ==
  [id |-> result.id, kind |-> IF result.created THEN "new" ELSE "regression"]

\* Variant: an unbounded webhook channel.
OfferedUnbounded(chan, rs) ==
  LET alerting == {n \in DOMAIN rs : Alerting(rs[n])}
  IN chan \o [n \in 1 .. Cardinality(alerting) |-> TriggerOf(rs[Nth(alerting, n)])]

\* try_send of one Trigger per alerting result; a full channel drops it.
Offered(chan, rs) ==
  LET alerting == {n \in DOMAIN rs : Alerting(rs[n])}
      room == Smaller(Cardinality(alerting), WebhookCap - Len(chan))
  IN chan \o [n \in 1 .. room |-> TriggerOf(rs[Nth(alerting, n)])]

\* Variant: no buf.clear() on the error path.
EndBatchUncleared(outcome) ==
  /\ dpc' = "recv"
  /\ batch' = IF outcome = "dropped" THEN batch ELSE <<>>
  /\ results' = <<>>
  /\ work' = EmptyDb
  /\ Count(outcome, Len(batch))

\* Variant: the digest task exits on a database error.
EndBatchOrExit(outcome) ==
  /\ dpc' = IF outcome = "dropped" THEN "exited" ELSE "recv"
  /\ batch' = <<>>
  /\ results' = <<>>
  /\ work' = EmptyDb
  /\ Count(outcome, Len(batch))

\* The batch is over: its buffer is cleared, its connection back in the pool.
EndBatch(outcome) ==
  /\ dpc' = "recv"
  /\ batch' = <<>>
  /\ results' = <<>>
  /\ work' = EmptyDb
  /\ Count(outcome, Len(batch))

\* COMMIT, and the rest of process_batch: a trigger per new or regressed
\* issue, a broadcast per result.
Commit ==
  /\ dpc = "tx"
  /\ Len(results) = Len(batch)
  /\ db' = work
  /\ webhooks' = Offered(webhooks, results)
  /\ fanout' = Broadcast(fanout, results)
  /\ unsent' = unsent \ {results[n].id : n \in DOMAIN results}
  /\ EndBatch("settled")
  /\ UNCHANGED <<clock, handlers, channel, registered, admin, spent>>

\* Variant: the statements before the error are kept (no transaction).
RollbackKeepsRows ==
  /\ dpc \in {"begin", "tx"}
  /\ Spend("rollback")
  /\ db' = IF dpc = "tx" THEN work ELSE db
  /\ EndBatch("dropped")
  /\ UNCHANGED <<clock, handlers, channel, registered, admin, output>>

\* A database error anywhere from BEGIN to COMMIT: the transaction rolls back
\* and process_batch drops the batch.
Rollback ==
  /\ dpc \in {"begin", "tx"}
  /\ Spend("rollback")
  /\ EndBatch("dropped")
  /\ UNCHANGED <<clock, handlers, channel, db, registered, admin, output>>

\* The webhook task takes a trigger off its channel.
WebhookRecv ==
  /\ webhooks # <<>>
  /\ webhooks' = Tail(webhooks)
  /\ UNCHANGED <<clock, handlers, channel, digest, db, registered, admin,
                 fanout, unsent, tally, spent>>

----------------------------------------------------------------------------
(***************************************************************************)
(* PUT /api/issues/:id/status                                              *)
(***************************************************************************)

\* set_status commits the new status and the handler broadcasts the row.
PutStatus(i, s) ==
  /\ ConnFree
  /\ i \in Live(db)
  /\ Spend("triage")
  /\ db' = WithStatus(db, i, s)
  /\ fanout' = Assign(fanout, i, db'.issues[i])
  /\ unsent' = unsent \ {i}
  /\ UNCHANGED <<clock, handlers, channel, digest, registered, admin, webhooks,
                 tally>>

\* The client goes away while set_status awaits its COMMIT: the statement is
\* with SQLite's thread already, the handler that would broadcast is dropped.
PutStatusCutShort(i, s) ==
  /\ ConnFree
  /\ i \in Live(db)
  /\ spent["triage"] < Budget["triage"]
  /\ spent["abort"] < Budget["abort"]
  /\ spent' = [spent EXCEPT !["triage"] = @ + 1, !["abort"] = @ + 1]
  /\ db' = WithStatus(db, i, s)
  /\ unsent' = unsent \cup {i}
  /\ UNCHANGED <<clock, handlers, channel, digest, registered, admin, fanout,
                 webhooks, tally>>

----------------------------------------------------------------------------
(***************************************************************************)
(* The project console: an existence check in one database call, the       *)
(* transaction in another.                                                 *)
(***************************************************************************)

CreateProject(p) ==
  /\ ConnFree
  /\ p \notin registered
  /\ registered' = registered \cup {p}
  /\ UNCHANGED <<clock, handlers, channel, digest, db, admin, output, tally,
                 spent>>

CheckDelete(p) ==
  /\ admin = NoAdmin
  /\ ConnFree
  /\ p \in registered
  /\ Spend("admin")
  /\ admin' = [op |-> "delete", project |-> p]
  /\ UNCHANGED <<clock, handlers, channel, digest, db, registered, output,
                 tally>>

CheckRename(p, q) ==
  /\ admin = NoAdmin
  /\ ConnFree
  /\ p # q
  /\ p \in registered
  /\ Spend("admin")
  /\ admin' = [op |-> "rename", project |-> p, new |-> q]
  /\ UNCHANGED <<clock, handlers, channel, digest, db, registered, output,
                 tally>>

\* delete_project's transaction.
DeleteProject ==
  /\ admin.op = "delete"
  /\ ConnFree
  /\ db' = WithoutIssues(db, OfProject(db, admin.project))
  /\ registered' = registered \ {admin.project}
  /\ admin' = NoAdmin
  /\ UNCHANGED <<clock, handlers, channel, digest, output, tally, spent>>

\* rename_project's transaction: rolled back when the new name is taken in
\* either table, else both tables follow.
RenameProject ==
  LET p == admin.project
      q == admin.new
      taken == p \in registered /\ q \in registered
  IN
  /\ admin.op = "rename"
  /\ ConnFree
  /\ admin' = NoAdmin
  /\ IF taken \/ MoveConflicts(db, p, q)
       THEN UNCHANGED <<db, registered>>
       ELSE /\ db' = Moved(db, p, q)
            /\ registered' = {IF n = p THEN q ELSE n : n \in registered}
  /\ UNCHANGED <<clock, handlers, channel, digest, output, tally, spent>>

----------------------------------------------------------------------------
\* The process ends, by a signal or a panic, and starts again: every task,
\* channel, connection and open transaction is gone, the database stays.
Crash ==
  /\ Spend("crash")
  /\ handlers' = [h \in Handlers |-> Idle]
  /\ permits' = QueueCap
  /\ waiters' = <<>>
  /\ queue' = <<>>
  /\ dpc' = "recv"
  /\ batch' = <<>>
  /\ work' = EmptyDb
  /\ results' = <<>>
  /\ admin' = NoAdmin
  /\ fanout' = NoRows
  /\ unsent' = {}
  /\ webhooks' = <<>>
  /\ tally' = [accepted |-> 0, settled |-> 0, dropped |-> 0]
  /\ UNCHANGED <<clock, db, registered>>

----------------------------------------------------------------------------
Ingest == \E h \in Handlers : Receive(h) \/ Send(h) \/ Push(h) \/ Finish(h)

Abort == \E h \in Handlers : Disconnect(h)

Digest == TakeBatch \/ BeginTx \/ UpsertNext \/ Commit \/ Rollback

Triage ==
  \E i \in Live(db), s \in Statuses : PutStatus(i, s) \/ PutStatusCutShort(i, s)

Console ==
  \/ \E p \in Projects : CreateProject(p) \/ CheckDelete(p)
  \/ \E p, q \in Projects : CheckRename(p, q)
  \/ DeleteProject
  \/ RenameProject

Next == Ingest \/ Abort \/ Digest \/ WebhookRecv \/ Triage \/ Console \/ Crash

Spec == Init /\ [][Next]_vars

(***************************************************************************)
(* Fairness: tokio polls every task that is ready, and its semaphore hands *)
(* permits out in order; so a handler and the digest task, once able to    *)
(* step, do.  Requests, triage, aborts, errors and crashes need not come.  *)
(***************************************************************************)
Fairness ==
  /\ WF_vars(TakeBatch)
  /\ WF_vars(BeginTx)
  /\ WF_vars(UpsertNext)
  /\ WF_vars(Commit)
  /\ \A h \in Handlers : WF_vars(Send(h)) /\ WF_vars(Push(h)) /\ SF_vars(Finish(h))

FairSpec == Spec /\ Fairness

----------------------------------------------------------------------------
(***************************************************************************)
(* Safety                                                                  *)
(***************************************************************************)

Trigger == [id : Nat \ {0}, kind : {"new", "regression"}]

\* The rows a view of issues by id holds.
ViewTyped(view) == view \in [DOMAIN view -> IssueRow] /\ DOMAIN view \subseteq Nat \ {0}

HandlerState ==
  [pc : {"idle", "sending", "waiting", "granted"}, project : Projects \cup {"none"},
   todo : Seq(EventIds), rec : Rec \cup {NoRec}]

\* A request knows its project, and one that waits knows the event it will push.
HandlersTyped(hs) ==
  /\ hs \in [Handlers -> HandlerState]
  /\ \A h \in Handlers :
       /\ hs[h].pc # "idle" => hs[h].project \in Projects
       /\ hs[h].pc \in {"waiting", "granted"} => hs[h].rec \in Rec

AdminTyped ==
  \/ admin = NoAdmin
  \/ admin \in [op : {"delete"}, project : Projects]
  \/ admin \in [op : {"rename"}, project : Projects, new : Projects]

\* Every variable holds a value of its kind, and the ingest channel, the batch
\* and the webhook channel stay within INGEST_CHANNEL_CAPACITY, BATCH_SIZE and
\* WEBHOOK_CHANNEL_CAPACITY.
TypeOK ==
  /\ clock \in Nat
  /\ HandlersTyped(handlers)
  /\ permits \in 0 .. QueueCap
  /\ waiters \in Seq(Handlers)
  /\ queue \in Seq(Rec) /\ Len(queue) <= QueueCap
  /\ dpc \in {"recv", "begin", "tx"}
  /\ batch \in Seq(Rec) /\ Len(batch) <= BatchSize
  /\ DbTyped(work)
  /\ results \in Seq(RowResult) /\ Len(results) <= Len(batch)
  /\ DbTyped(db)
  /\ registered \subseteq Projects
  /\ AdminTyped
  /\ ViewTyped(fanout)
  /\ unsent \subseteq Nat \ {0}
  /\ webhooks \in Seq(Trigger) /\ Len(webhooks) <= WebhookCap
  /\ tally \in [{"accepted", "settled", "dropped"} -> Nat]
  /\ spent \in [Outside -> Nat]

\* The committed tables stay consistent whatever the order of ingest, triage,
\* rename and delete: one issue per project and fingerprint, and every stored
\* event under a live issue of its own fingerprint (store.rs: the upsert loop
\* re-reads the row it wrote, delete cascades, rename moves both tables).
GroupingSound == KeysUnique(db) /\ EventsGrouped(db)

\* event_count never falls behind the stored events of the issue: both are
\* written in the digest task's transaction, and triage, rename and delete
\* leave them together.
CountsCoverEvents == CountsCover(db)

\* Every event counted as accepted since boot is in the channel, in the open
\* batch, committed, or in a batch that was dropped: no event is taken twice
\* or left in the buffer by a failed transaction.
NothingUnaccounted ==
  tally["accepted"] =
    Len(queue) + Len(batch) + tally["settled"] + tally["dropped"]

\* The handlers whose state in hs is pc.
At(hs, pc) == {h \in Handlers : hs[h].pc = pc}

Distinct(line) == \A j, k \in 1 .. Len(line) : line[j] = line[k] => j = k

Members(line) == {line[n] : n \in 1 .. Len(line)}

\* The handlers in line for a permit: those that wait, each once.
LineOfWaiters ==
  Distinct(waiters) /\ Members(waiters) = At(handlers, "waiting")

\* A place in the channel is free, holds an event or is promised to one
\* handler; a handler waits, in line, only while no place is free.  A permit
\* lost by an aborted request, or a wake-up lost with it, would shrink the
\* channel for good or block an SDK for ever.
NoIdlePermit ==
  /\ permits + Len(queue) + Cardinality(At(handlers, "granted")) = QueueCap
  /\ LineOfWaiters
  /\ waiters # <<>> => permits = 0

\* A client that reads every message since boot holds, for each live issue it
\* heard of, the committed triage status, count and times: the order of the
\* broadcasts is the order of the commits, although two tasks send them.  Only
\* an aborted triage request leaves it behind, for that issue and until the
\* next message about it (the handler is dropped between commit and send).
FanoutEndsAtDb ==
  \A i \in (DOMAIN fanout \cap Live(db)) \ unsent :
    [fanout[i] EXCEPT !.project = db.issues[i].project] = db.issues[i]

----------------------------------------------------------------------------
(***************************************************************************)
(* What a step may do                                                      *)
(***************************************************************************)

Counted(i) == db'.issues[i].count # db.issues[i].count

KeepsTriage ==
  \A i \in Live(db) \cap Live(db)' :
    Counted(i) =>
      db'.issues[i].status = IF db.issues[i].status = "resolved"
                               THEN "unresolved" ELSE db.issues[i].status

\* Recording occurrences never overwrites a decision an operator took while
\* the digest task's transaction was open: the status it leaves is the
\* committed one, reopened if that was "resolved".
IngestKeepsTriage == [][KeepsTriage]_vars

\* An id that was deleted, or never handed out below nextId, never names an
\* issue again: a commit does not bring back what a project delete removed
\* while the batch was open.
DeadIdsStayDead ==
  [][\A i \in 1 .. (db.nextId - 1) : i \notin Live(db) => i \notin Live(db)']_vars

\* The triggers a commit adds to the webhook channel: exactly one "new" per
\* issue it made and one "regression" per issue it reopened, less those a full
\* channel turns away.
NewIssues == Live(db)' \ Live(db)

ReopenedIssues ==
  {i \in Live(db) \cap Live(db)' :
     db.issues[i].status = "resolved" /\ Counted(i)}

AlertsOfCommit ==
  LET added == SubSeq(webhooks', Len(webhooks) + 1, Len(webhooks'))
      due == {[id |-> i, kind |-> "new"] : i \in NewIssues}
               \cup {[id |-> i, kind |-> "regression"] : i \in ReopenedIssues}
  IN
  /\ {added[n] : n \in DOMAIN added} \subseteq due
  /\ \A m, n \in DOMAIN added : added[m] = added[n] => m = n
  /\ Len(added) = Smaller(Cardinality(due), WebhookCap - Len(webhooks))

\* The digest task asks for each alert once: a batch that meets the same issue
\* several times still alerts for its net effect, and a status change between
\* batches is seen (digest.rs: created, else regressed).
AlertsMatchChanges == [][tally["settled"]' > tally["settled"] => AlertsOfCommit]_vars

----------------------------------------------------------------------------
(***************************************************************************)
(* Liveness                                                                *)
(***************************************************************************)

InFlight(t) ==
  \/ \E n \in DOMAIN queue : queue[n].at = t
  \/ \E n \in DOMAIN batch : batch[n].at = t

\* Every event put on the channel leaves it: committed, dropped with its batch
\* or lost to a restart, but never stuck behind a failed batch.
AcceptedIsSettled ==
  \A t \in 1 .. Budget["event"] : InFlight(t) ~> ~InFlight(t)

\* Every ingest request ends, however full the channel: back-pressure blocks
\* an SDK only for as long as the digest task needs.
RequestsEnd == \A h \in Handlers : handlers[h].pc # "idle" ~> handlers[h].pc = "idle"

----------------------------------------------------------------------------
(***************************************************************************)
(* The ledger that the committed database is to every client.              *)
(***************************************************************************)

LedgerOf(d) ==
  [k \in Projects \X Fingerprints |->
     LET ids == WithKey(d, k[1], k[2])
         i == CHOOSE j \in ids : TRUE
     IN IF ids = {} THEN [status |-> "absent", count |-> 0]
                    ELSE [status |-> d.issues[i].status, count |-> d.issues[i].count]]

Ledger == INSTANCE IssueLedger WITH
  ledger <- LedgerOf(db), recorded <- tally["settled"], MaxBatch <- BatchSize

\* Handlers, channel, batching, transactions, roll-backs, aborts and restarts
\* implement the ledger: each commit records its whole batch, and nothing but
\* a commit, a triage, a delete or a rename is seen.
LedgerSpec == Ledger!Spec
============================================================================
