# errex in TLA+

errex is a self-hosted error tracker: one daemon (`crates/errexd`) that accepts
Sentry envelopes over HTTP, groups the events into issues in a SQLite file, and
shows the issues to browsers (`web/`) over a websocket. This directory holds the
TLA+ models of it, the TLC configurations that check them and the proofs TLAPS
checks. Line numbers below are those of the repository's sources.

## The system

| Part | Source | State | Operations |
|---|---|---|---|
| Ingest handler | `ingest.rs` `ingest_envelope`, `digest.rs` `prepare` | none of its own | check the key, rate limit, decode, send each event to the digest task, touch the project |
| Ingest channel | `main.rs:94-98,159` | up to 256 events, free permits, waiting senders | send, recv, try_recv |
| Digest task | `digest.rs` | a buffer of up to 16 events | take a batch, one transaction, alert, broadcast |
| Store | `store.rs`, `migrations/` | the SQLite tables, one pooled connection | every SQL statement |
| Triage | `ingest.rs` `put_status` | none | set an issue's status, broadcast it |
| Project console | `ingest.rs` `admin_*` | none | create, rename, delete, rotate the token, webhook URL, previews |
| Fan-out | `main.rs:100-102`, `ws.rs` | broadcast ring of 64, a cursor per session | subscribe, snapshot, forward, lag |
| SPA live client | `web/src/lib/ws.ts`, `stores.svelte.ts` | socket, reconnect timer, map of issues | connect, handle a frame, reconnect |
| Webhook task | `webhook.rs` | channel of 64 triggers | look up the URL, POST, record the outcome |
| Retention task | `retention.rs` | settings row | hourly purges of old events, excess events, excess issues, attempts, sessions |
| Accounts | `auth.rs`, `ingest.rs` users | users, sessions, auth_attempts | setup, login, logout, roles, deactivate, delete |
| Lockout, rate limiter | `lockout.rs`, `rate_limit.rs` | attempts; token buckets | evaluate; acquire |
| Envelope parser, fingerprint | `ingest.rs:1097-1193`, `fingerprint.rs` | none | pure functions |
| The rest | `spa.rs`, `mcp.rs`, `triage.rs`, `metrics.rs`, `config.rs`, `user_agent.rs`, `crypto.rs` | counters or none | serving files, parsing, formatting, stubs |

### How the parts interact

* The daemon is one process on tokio's `current_thread` runtime
  (`main.rs:117`). Everything between two awaits is one step; every await is a
  place where any other task may run, and where an HTTP handler's future may be
  dropped because its client went away.
* The pool has one connection (`store.rs:250-251`). A transaction keeps it from
  `begin` to `commit`, so no other task's statement falls between the digest
  task's statements. Everything that uses the database in the models waits for
  `ConnFree`.
* A task that has committed goes on to its `try_send`s and `send`s without
  awaiting. Another task can get the connection only after that, so the commit
  and what it sends are one step to all other users of the database. This is
  what keeps broadcasts in commit order (`FanoutEndsAtDb`) although two tasks
  send them. The exception is a handler dropped while its commit is under way:
  its issue is behind until the next message about it.
* tokio's channel hands permits out first come first served. A sender that was
  woken holds its permit but pushes only when it is polled, and may be overtaken
  by one that is granted a permit later; so the queue's order is not the order
  of the time stamps.
* Nothing is persisted but the SQLite file. A signal and a panic end the process
  the same way: the `select!` of `main.rs:233-241` returns and every task dies
  where it stands.

### What must be right, part by part

* Ingest and digest: an accepted event is committed or dropped with its batch
  and never counted twice; a full channel blocks a sender only for as long as
  the digest task needs; a failed batch leaves nothing behind and does not stop
  the task.
* Store: one issue per project and fingerprint, every event under a live issue
  of its fingerprint, ids never reused, whatever the order of ingest, triage,
  rename, delete.
* Triage: a decision taken while a batch is open survives it, and only
  `resolved` is reopened.
* Alerts: one per new or regressed issue, except those a full channel drops.
* Fan-out and client: a client that keeps up shows the committed rows.
* Retention: a sweep meets the limits it read, takes the oldest first, and leaves
  tables the ingest path can go on with; a stored change and a failed purge are
  made good by a later tick.
* Accounts: no session without a user or of one who was deactivated, no request
  stream that gets past the lockout by more than those already under way, always an
  active admin.
* Webhook delivery: every alert taken is dealt with, none is of an issue that
  nobody wants to hear of; the project's row tells the
  outcome of its last delivery.

`PROJECT.json` lists the hazards line by line with the properties that cover
them.

## Modules

| Module | Models |
|---|---|
| `IssueDb` | the `issues` and `events` tables as a value, and the SQL statements on them as operators |
| `Pipeline` | ingest handlers, ingest channel, digest task and transaction, triage, project console, webhook channel, what is broadcast, restarts |
| `IssueLedger` | abstract: what the daemon promises about issues, one entry per project and fingerprint |
| `RateLimiter`, `Envelope` | the token bucket; the envelope parser over symbols |
| `Ingress` | `ingest_envelope` from the key to the answer, with both of them |
| `Grouping`, `UserAgent` | `fingerprint.rs`; the tags derived from a `User-Agent` header |
| `ProjectConsole` | the project console and the command line's project commands on the tables, every database call a step |
| `Activity` | `activity_stats` over the texts that stand for times |
| `LiveView` | the broadcast ring, websocket sessions, frames on the sockets, the page's sockets, timer and map |
| `Accounts` | setup, login with its lockout, logout and the team console on users, sessions and failed attempts, every database call a step |
| `Lockout` | the lockout over time: the texts its query compares, the window, the hourly purge |
| `SessionAge` | a session over time: its row, its cookie, `require_auth`'s two calls, the purge |
| `Retention` | the hourly sweep on the tables of `IssueDb`, between commits, settings, failures and restarts |
| `Alerts` | the webhook task from the channel to the record of the outcome, between triage and the project console |
| `MCPipeline`, `MCIngress`, `MCProjectConsole`, `MCLiveView`, `MCAccounts`, `MCRetention`, `MCAlerts` | small instances, and facts about the pure modules over bounded inputs |
| `IssueDbProofs`, `PipelineProofs`, `IngressProofs`, `ProjectConsoleProofs`, `LiveViewProofs`, `AccountsProofs`, `RetentionProofs`, `AlertsProofs` | the theorems and their proofs |

`Retention` extends `IssueDb` and writes it with the same `Upserted` as the digest
task's transaction. `Alerts` begins where `Pipeline`'s `WebhookRecv` ends: it
keeps of an issue its project and status. `Ingress` ends where `Pipeline` begins,
at the channel: it has what comes before a send (key, limiter, body) and what
the sender is told, `Pipeline` how senders wait for room. `ProjectConsole`
extends `IssueDb` too: `Pipeline` has the console's transactions against open
batches, `ProjectConsole` every call of several consoles against commits.
`Accounts` shares no state with the others; `Lockout` extends it and `SessionAge`
extends `Lockout`.

`Pipeline` extends `IssueDb` and instantiates `IssueLedger` with a refinement
mapping (`Ledger!Spec`). `LiveView` stands beside it: it abstracts a row to a
version number and the writers to commits with the messages they send; which
commits send messages and in which order is what `Pipeline` establishes.

### Pipeline and the code

| Variable | Code |
|---|---|
| `handlers` | the local state of each running `ingest_envelope`: before its send loop (`idle`), in it (`sending`), parked in `events.send(..).await` (`waiting`), woken with a permit (`granted`) |
| `permits`, `waiters`, `queue` | the mpsc channel: its semaphore, the semaphore's line, its buffer |
| `dpc`, `batch`, `work`, `results` | the digest task: awaiting `recv`, awaiting the connection (`begin`), in the transaction (`tx`); its `buf`; the database as the transaction sees it; the `UpsertResult`s |
| `db`, `registered` | the committed `issues` and `events`; the names in `projects` |
| `admin` | a rename or delete between its existence check and its transaction |
| `fanout`, `unsent` | what a client that reads every message since boot holds; history: the issues whose last commit was not broadcast |
| `webhooks` | the webhook channel |
| `tally` | events accepted, committed, dropped since boot, for the accounting |
| `clock`, `spent` | time stamps; the bounds |

| Action | Code |
|---|---|
| `Receive` | `ingest_envelope` to the start of its loop: key check when `RequireAuth`, rate limit, decoding (a request refused there changes nothing) |
| `Send`, `Push` | `prepare`, `events.send`: at once, or after a wait |
| `Finish` | `touch_project_used` and the 200 |
| `Disconnect` | the request's future dropped at an await |
| `TakeBatch`, `BeginTx`, `UpsertNext`, `Commit`, `Rollback` | `digest::run`, `process_batch`, `upsert_batch_with_events` |
| `WebhookRecv` | the webhook task takes a trigger |
| `PutStatus`, `PutStatusCutShort` | `put_status`; the same dropped while `set_status` commits |
| `CreateProject`, `CheckDelete`, `DeleteProject`, `CheckRename`, `RenameProject` | the store's project operations, check and transaction apart |
| `Crash` | the process ends and starts again |

Abstracted: titles, culprits, levels and payloads (no statement reads them); the
fingerprint is a function `FpOf` of the event id; an envelope is a sequence of
event ids; the rate limiter is a request that never gets to its loop. A failed
statement outside the digest task's transaction changes nothing and is left
out. The broadcast ring is in `LiveView`; here `fanout` is its ideal reader.

### Ingress and the code

| Variable | Code |
|---|---|
| `tokens`, `issued`, `touched` | the projects table: tokens, `last_used_at` |
| `buckets` | `RateLimiter`'s map |
| `reqs` | each `ingest_envelope`: before `project_by_token` (`lookup`), before the limiter (`admit`), in the send loop (`send`), before `touch_project_used` (`touch`), answered (`free`) |
| `channel`, `open`, `metrics` | the ingest channel, whether the digest task still receives, the two counters |
| `now`, `grants`, `taken`, `spent` | the clock; history; the bounds |

`Ask`, `Lookup`, `LookupFails`, `Refuse`, `Admit`, `Send` and `Touch` are the
handler between its awaits; `Disconnect` its client's going away at any of them;
`Rotate`, `Rename` and `Create` the console; `Take` and `CloseChannel` the digest
task.

`RateLimiter` counts tokens in units so fine that a tick and an event are whole
numbers of them; it leaves out the rounding of `f64`. `Envelope` is `read_line`
and `parse_envelope` over symbols: a newline, the two ends of a JSON document,
other text. Both are used by `Admit`, on bodies that are plain, packed or
packed wrongly. `Grouping` is `derive` over the bytes it hashes (FNV-1a is taken
to have no collisions); `UserAgent` tests a header's markers in the code's order
and joins the tags to the event's own.

### ProjectConsole and the code

`rows` is the projects table, `db` the issues and events, `calls` where each
handler or command is and what it has counted. `Begin` and the operations that
use it are the handlers' heads and the subcommands; `Insert`, `Update`,
`Reread`, `Check`, `CountIssues`, `CountEvents`, `DeleteTx` and `RenameTx` the
calls of `Store` they are made of. `Commit`, `PurgeEvent` and `PurgeIssue` are
what other tasks do to the tables meanwhile. The fields `raced`, `truth`,
`grew` and `shrank` of a call are history. `Activity` has `activity_stats` with
its texts: `received_at` as SQLite writes it, the cutoff as chrono does.

### LiveView and the code

`Subscribe` is `ws::handle` up to `fanout.subscribe()`; `LoadIssues`,
`SendSnapshot`, `Forward` and `Lagged` are `ws::run`; `Handle` is `onmessage`
with `IssuesStore.reset` and `upsert`. `Connect`, `Disconnect`, `Reconnect`,
`ClosedLate` and `Close` are `connect()`, `disconnect()`, the timer, the
`onclose` of a socket that `disconnect()` closed, and that of one whose
connection broke. `page` holds the variables of `ws.ts` (`socket`, whether
`pendingProject` and `reconnectTimer` are set) and `closing`, the sockets that
are closed and have not told of it: `disconnect()` leaves their handlers on, so
their `onclose` may find the page connected again and set the timer beside the
new socket (`ws.ts:142-152`). `late` counts those. `log` is every message since
boot, of which the ring keeps the last `RingCap`. `stale` is a history variable:
the ids whose committed version a session has no message for, because it
lagged, because none was sent, or because a second socket that was behind put
an older row on the page and broke.

### Accounts and the code

`users`, `sessions` (how many each user has), `userFails` and `ipFails` are the
tables; `requests` holds where each handler is and what it has read. Every call
of `Store` is a step, since any other handler may run at its await:

| Action | Code |
|---|---|
| `BeginSetup`, `SetupLockout`, `SetupCreate` | `handle_setup`: count users; count failures; create the admin |
| `BeginLogin`, `LoginLockout`, `Verify`, `CheckActive`, `RecordFailure`, `OpenSession`, `RereadUser` | `handle_login`: the two counts and `LockoutPolicy::evaluate`, `get_user` and the password, the deactivated flag, `record_attempt`, `create_session`, the row for the response |
| `BeginAdmin`, `BeginTeam`, `CreateUser`, `CheckExists`, `ReadCurrent`, `CountAdmins`, `SetPassword`, `SetRole`, `SetActive`, `ReadTarget`, `DeleteUser`, `RevokeSessions`, `Reply` | the team console, from `require_admin` on |
| `EndSession` | logout, the purge of idle sessions |
| `Abort` | a handler's future dropped at an await |

A password is absent, weak or strong in a PATCH, right or wrong in a login when it
is compared; which one is on record is not kept, nor are `last_login_at` and
`last_login_ip`, which nothing reads but the lists. All attempts fall in one
lockout window. `overtaken` is history: for each user, how many requests were past
their check, with the session still to open (`Opening`), when the last
deactivation committed. `AdminSlots` are the requests
that may be of the team console, so that a run can say how many are at once.

`Lockout` has what time adds, with attempts one after the other, of logins and of
setups with a wrong token, which have no name: `rows` are the attempts by their
ids, `Failures` is the query, which compares texts; `Fraction` and `Text` write a time as chrono does,
with as many groups of digits as it needs (one binary digit for each group of
three); `Login` is the check and the record of an attempt (`Inserted`), `Prune` the hourly
tick of retention. `SessionAge` has one session: `LookUp` and `TouchSession` are
the two calls of `require_auth`, between which a purge may come, `TouchFails` the
error that is only logged, `Purge` the statement, by the same comparison of
texts.

### Retention and the code

`now` counts parts of a day. An issue's `last_seen` is stamped when its event is
prepared, an event's `received_at` when its row is inserted, so `Prepare` and
`Write` are steps apart. `Wake` reads the settings and works out the cutoff;
`PurgeAge`, `PurgeEvents` and `PurgeIssues` are the three statements, each of
which may fail; `SkipTick` is a tick that cannot read the settings. `SortsBelow`
is the comparison of the two date texts, which only tells dates apart when they
differ (see the divergences). `MaxDays` stands for the range of chrono's
`Duration` and dates; past it the task panics and the daemon ends. `Overdue(e)`
says that the stored limits do not allow event `e` to be. The purges of
`auth_attempts` and `sessions` that end a tick are left out.

### Alerts and the code

`Create`, `Recur` and `PutStatus` are what the digest task and the triage endpoint
do to an issue, with `try_send`; `Recv`, `Lookup`, `NoResponse`, `Response`,
`BodyEnds` and `Record` are the loop of `webhook::run` and `post_json`. A project
row has an identity besides its name, to say whose URL was called. `overtaken` is
history: the issues whose last triage found a trigger of theirs on its way
(`Waiting`: in the channel, or taken and not looked up). Payloads and
the validation of URLs, both pure functions, are left out; so is a rename that
fails on `UNIQUE(project, fingerprint)`, which changes nothing.

## Runs

| Run | Question | Bounds |
|---|---|---|
| `pipeline_ingest` | counts, triage, alerts, broadcasts and accounting under concurrent ingest | 2 requests, 3 event ids on 2 fingerprints, 4 events, channel 2, batch 2, webhook channel 1, 1 triage, 1 abort, 1 database error |
| `pipeline_console` | consistency under renames and deletes, and the refinement of `IssueLedger`, with authorisation on | 2 projects, 1 fingerprint, 2 events, 2 console operations, one each of triage, abort, database error, restart |
| `pipeline_live` | no lost permit; every event and every request ends | 2 requests, 3 events, channel 1, batch 1, one abort, error, restart |
| `live_view` | one socket; a drained page is current; a page that wants to be connected ends up so | 1 page, 2 sockets, 2 issues, ring 2, batches of 2, 1 frame in a socket, 2 changes, one each of silent change, removal, break, restart, connect, disconnect; 5 of these in all |
| `ingress` | what is granted, refused, sent and answered; what a body is read as | 3 requests, 2 at once, 2 names, 3 bodies of at most 2 events, clock 3, 2 requests a minute of 3 ticks, burst 1, channel 1, one each of console step, failure and client going away, requests interchangeable; envelopes of up to 2 items, every pair of 45 events, every browser on every system |
| `projects` | what a refusal leaves behind, what the counts report | 2 consoles and 1 command, 2 calls, 2 projects, 2 events of 1 fingerprint, 2 commits, 1 purge |
| `accounts_team` | lockout, the last admin, and whose sessions a deactivation leaves, with handlers interleaved; the lockout and a session over time | 2 users, 2 requests of which one of the team console, 1 setup, 3 logins, 2 console requests, 1 logout, 1 abort, thresholds 1 and 2, users interchangeable; 4 logins or purges over time, 4 steps of a session's life |
| `retention` | what a sweep does and that nothing overdue stays | 2 projects, 4 event ids on 3 issues, 2 events, 1 change of the settings (of 3, one of them an age too long, and one refused), 1 failure or restart, 5 instants, 2 to a day, an age limit of 1 day |
| `alerts` | what is alerted and what is recorded | 2 names, 2 issues, channel 1, 3 events, 4 console operations, one each of triage, database error, restart |
| `accounts_last_admin`, `accounts_signed_out`, `activity_window` | statements of the repository the code does not keep | the first two: 2 users, 2 requests at once, 1 setup, 1 login, 2 or 3 console requests; the last: up to 2 events over 3 days |

Why the bounds are enough to meet the interesting cases: a channel of one or two
places is full, with requests waiting, before the events run out; a batch of two
holds the same fingerprint twice, or two, and a later batch meets the issue
again; two fingerprints with three event ids give repeated ids and different ids
of one issue; a webhook channel of one overflows on a batch with two new issues;
two projects are enough for a rename onto an existing name, a rename of a name
that was deleted meanwhile, and an event id known from another project. One
triage falls at each point of an open batch, and a batch after it meets each
status. In `LiveView` a ring of two with batches of two overruns a session in
any state; one page suffices since pages share only the ring, which none of
them changes, and two sockets since a third comes only from a second late
`onclose`; five outside steps disconnect, connect again before `onclose`, change
an issue and break a socket. In `Ingress` a burst of one is used up by the first of
two requests at once, the clock refills it in part or past its cap, and the others
tell whether a token was lost or made up; a channel of one blocks the second event of a body, and closes
between the two. In `ProjectConsole` two calls on two names, and commits and a
purge, fall between the steps of each call. In `Accounts` a threshold of one is passed by the two logins
that are admitted together, and the third meets the lockout; two console
requests make a second user and deactivate it around a login. In `Retention`
limits of one are exceeded by the second event or issue; with an age of one day,
five instants of two a day put the cutoff before, on and after the date of an
event received at the start, which is overdue from the fourth instant on, so that a
sweep without the age purge is found out; and a change of the settings falls
before, in and after a sweep. In `Alerts` two names and four operations rename, delete
and make again the project of a call that is out. `Budget` bounds each kind of
outside step, `MaxEnvelope` the events of one request, `Horizon` the clock,
`MaxIssues` the ids; nothing else is cut.

What is said of pure functions (envelopes, fingerprints, tags, the lockout's
windows, a session's age, activity) is an invariant that looks at the initial state only:
`InputsReadAsMeant`, `OverTime` and `LastDayReported` are evaluated once, over
all their inputs.

Deadlock is checked in `pipeline_*` and `retention`. A quiet system stops in the
others, whose configurations say so.

### Fairness

`Pipeline!Fairness`: weak fairness of the digest task's and the senders' steps,
because tokio polls a task that was woken; strong fairness of `Finish`, which
waits for the connection that the digest task takes and returns again and
again, because sqlx's pool serves waiters in order. No fairness of requests,
triage, console, aborts, errors or restarts. `LiveView!Fairness`: weak fairness of a
session that can step, which tokio polls; of the browser's handling of frames
and of the `onclose` of a socket that was closed; of the reconnect timer. Writers,
failures and the user owe nothing.

`Retention!Fairness`: weak fairness of the tick and of the sweep's statements,
because the interval ticks for ever and the pool serves the task in turn; a
daemon that has ended need not be started again. `Alerts!Fairness`: weak fairness
of the task's steps, and of the end of a call that gets no response, which
`SEND_TIMEOUT` brings about; none of the end of a response's body, which nothing
in the daemon brings about, so `AlertsSettle` has the body that never ends as its
one exception.

## Findings

Each of these is a run that TLC refutes, with the sentence of the repository it
refutes (details in `PROJECT.json`).

* `accounts_last_admin`: two console requests at once can take away the last two
  admins, each having counted the other.
* `accounts_signed_out`: a login that has found its user active opens its session
  after a deactivation has deleted the user's sessions, and `require_auth` accepts
  it (`auth.rs:160`, `367`; `store.rs:1157-1159`). `OnlyOvertakenStay` says how far
  the promise holds.
* `activity_window`: the activity panel counts the events since midnight, not of 24
  hours; its hours are all zero and its last event is always from now, since
  `received_at` and the cutoff are texts of different formats and
  `parse_from_rfc3339` takes only the cutoff's (`store.rs:965-1036`). The test
  (`tests/store.rs:1583-1615`) rewrites `received_at` in that format first. No run
  asserts what the code counts instead; `ActivitySinceMidnight` proves it.

Other divergences met while modelling, which no run of this project shows:

* `last_seen` can go backwards when the ingest channel is full, since the time
  stamp is taken before the wait (`digest.rs:101`, `store.rs:438`).
* An issue can be committed without any event, when the event's id is stored
  already under another project's issue (`store.rs:464`).
* A retried POST is counted twice; only its event row is deduplicated.
* A triage whose request is dropped during its commit is never broadcast
  (`ingest.rs:389`): the one exception of `FanoutEndsAtDb`, which `unsent` marks
  until the next message about the issue.
* A client that lags and stays connected may show an old row until the issue
  changes again (`ws.rs:132`); a message older than the snapshot takes the
  client's row back until the next message about the issue (`ws.rs:106`).
* An age that cannot be subtracted from the present is stored, although the check
  on the body is there so that no "unrepresentable cap" is (`ingest.rs:552-553`);
  the next tick panics, and so does the first one after every start
  (`retention.rs:55`). `Wake` has this step; `LimitsTakeEffect` promises nothing
  about such an age.
* Two setups at once may both create an admin. A user or project deleted
  between two calls of a handler fails an `expect`.
* The age purge takes all events of the cutoff's date: `received_at` is
  `"2026-04-28 09:30:00"`, the cutoff `"2026-04-28T09:30:00+00:00"`, and a space
  sorts below a `T` (`store.rs:829`). `LaterDatesKept` states what does hold.
* An issue muted while its trigger waits is alerted: `webhook.rs:239` looks at the
  trigger's copy of the status, from the commit. `CONFIGURATION.md:201` says "Muted
  and ignored issues never fire webhooks"; `OnlyOvertakenFire` says that this is
  the only way one does. A response whose body never ends
  holds the webhook task for ever (`webhook.rs:77`; the comment at 50-53 has the
  call, "including ... the response", end within 10 seconds); it is the one
  exception of `AlertsSettle`.
* After `disconnect()`, a `connect()` before the old socket's `onclose` ends with
  two live sockets (`ws.ts:142`), and the loss of the one that is behind may leave
  older rows on the page.
* `admin_set_webhook` expects the project it has just updated (`ingest.rs:653`): a
  delete or rename in between aborts the daemon. `rotate_token` and
  `rename_project` answer 404 in that case, having written (`store.rs:673`, 941);
  `OnlyRacesFailLate` has just these.
* `storage_stats` is four calls on the pool although its comment speaks of one
  connection and a snapshot (`store.rs:739-742`).
* The limiter's bucket belongs to the name: it stays with it through a delete or
  a rename (`rate_limit.rs:71-80`).
* An exception without frames falls in one group with a message that reads like
  its type; `fingerprint.rs` speaks of the topmost in-app frame, the code takes
  the last frame of any kind.
* Tags in the old form of a list of pairs are replaced by the derived ones,
  although a value the SDK sent is never to be overwritten (`user_agent.rs:24`,
  `53-62`); `ObjectTagsWin` claims this of tags sent as an object only.
* A declared payload length near 2^64 wraps and panics (`ingest.rs:1149`);
  `IngressAssumption` leaves such bodies out (`LengthsFit`), and `ParserAnswers`
  shows that no others do.
* The command line stores a webhook URL that it has not validated.
* A session cookie's `Max-Age` is never renewed though its comment says sliding
  (`auth.rs:22`): in `SessionAge` only the row's `seen` moves. That the browser
  would refuse the cookie of a purged row (`retention.rs:107`) does hold. A session
  that has idled too long is valid until the next hourly purge.
* A webhook's outcome is recorded under the name the project had when the event
  was committed: after a rename it is lost, or lands on another project
  (`store.rs:951`); `HealthIsLastOutcome` names these cases as its exceptions.

## Proofs

`PipelineProofs` proves for every set of requests, projects, fingerprints and
event ids and for all capacities:

| Theorem | States |
|---|---|
| `TypeCorrect` | `Spec => []TypeOK`, the bounds of the three queues included |
| `PermitsConserved` | `Spec => []NoIdlePermit` |
| `EventsAccountedFor` | `Spec => []NothingUnaccounted` |
| `GroupingAlwaysSound` | `Spec => []GroupingSound` |
| `DeletedStaysDeleted` | `Spec => DeadIdsStayDead` |
| `CountsAlwaysCover` | `Spec => []CountsCoverEvents` |
| `TriageAlwaysKept` | `Spec => IngestKeepsTriage` |
| `AlertsAlwaysMatch` | `Spec => AlertsMatchChanges` |
| `FanoutFollowsDb` | `Spec => []FanoutEndsAtDb` |
| `ImplementsLedger` | `Spec => LedgerSpec` |

Assumptions: `PipelineAssumption` (finitely many requests, capacities at least
one) and `FpOfAssumption`.

The inductive invariant is
`Inv == ChannelInv /\ DigestInv /\ OutputInv /\ ConsoleInv /\ NothingUnaccounted`.
`TypeOK` alone is not inductive: that the channel stays within its capacity rests
on the conservation of permits (`NoIdlePermit`, part of `ChannelInv`), which needs
that the line holds exactly the waiting requests, each once; that a commit adds
no more triggers than there is room for rests on the bound of the webhook
channel; and that the database stays consistent over a commit rests on the same
consistency of the transaction's private copy, and on that copy being an
extension of the committed database while the transaction is open
(`DigestInv`), which holds because every other writer waits for the connection.
Each conjunct is preserved action by action; steps that leave its variables
alone are dismissed in one place. `IssueDbProofs` has the lemmas about the
statements: an upsert, a status change, a delete with its cascade and a rename
without conflict keep types, unique keys and the grouping of events; an upsert
only extends the set of live ids (`UpsertExtends`).

The other five say what an open transaction has done so far, each on top of
`Inv`:

* `TxInv`: counts cover events in the committed database and in the private copy,
  and the copy differs from the database by recorded occurrences only
  (`Builds`). At a commit that is what `IngestKeepsTriage` states: without it
  nothing would rule out that a copy taken before a decision overwrites it.
* `AlertsInv`: the results kept for after the commit announce exactly the issues
  the copy has and the database has not, and those it has taken back from
  `resolved`, each once. An issue met twice in a batch is announced once because
  its second upsert finds it made, or open again.
* `FanoutInv`: the messages sent mirror the database's live rows, and with those
  of the open transaction they would mirror its rows, but for the issues in
  `unsent`. A client that goes away between a triage handler's commit and its
  send puts one there; any later message about it takes it out again, which is
  the second half: what a batch has touched so far, it will have sent.
* `LedgerInv`: for each project and fingerprint the copy's entry is the database's
  grown by the number of records of the batch so far. `ImplementsLedger` then maps
  initial states to initial states, a commit to one `Record`, a status change, a
  delete, a rename and a restart to theirs, and every other step to a stutter.
  `IssueLedger` states no fairness, so this is all of its specification.

`IngressProofs` proves, for any names, tokens, bodies, number of requests at once,
rate, burst and granularity of the clock, from `LimiterAssumption` and
`IngressAssumption`; the theorems about the parser and the fingerprint state their
own hypotheses:

| Theorem | States |
|---|---|
| `BudgetKept` | `Spec => []WithinBudget` |
| `RefusalsJustified` | `Spec => RefusedOnlyOverBudget` |
| `KeysHeld` | `Spec => []KeyHeldDuringRequest` |
| `IngressTyped` | `Spec => []TypeOK` |
| `AnswersAreHonest` | `Spec => []AnswersMatchSends` |
| `ParserAnswers` | `ParseEnvelope(raw)` is a list of events that are in `raw`, or an error; a panic only if a declared length wraps, for any `raw` whose declared lengths are numbers |
| `EnvelopesAlwaysRead` | `ReadAsMeant(items) /\ CutShortIsSafe(items)`, for items of any number, headers and payloads |
| `FingerprintsGroup` | `Fingerprint(a) = Fingerprint(b) <=> SameGroup(a, b)`, for events of any strings and lists |
| `InputsAlwaysRead` | `Spec => []InputsReadAsMeant`, given that `Width > 25` |

The invariant is `Ledger /\ Requests`. `Ledger` has for each bucket an account
(`Balanced`): what its grants have cost since any of them, and the tokens it
holds, come to at most the budget over the time since, and to at least that since
one of them unless the bucket is full. The first half gives `BudgetKept`, the
second `RefusalsJustified`; a refill adds to both sides alike, and what the cap
takes is what the second half lets go. `Requests` says that a request knows when
its project holds its key (`Sound`): without it, the lookup's step would prove
nothing. `Typed` has the ranges, that the channel is within its capacity, and
that each answer agrees with what was sent (`Honest`); that a body decodes to a
list or is refused is `ParserAnswers`. `IngressAssumption` says of a body only
that it is a list of symbols whose declared lengths are numbers that do not wrap;
TLC evaluates it for the bodies of the run.

The parser is a loop over places in the body, `ItemsFrom` a recursive function
of the place. `LoopEnds` shows that there is such a function: each pass needs the
loop's result only at a later place (`PassLooksAhead`). What is said of every place is proved by the
least number of passes, or the least number of items, for which it would fail
(`EveryNumber`, `LeastNumber`), since a set of numbers that is not empty has one.
`ReadAsMeant` and `CutShortIsSafe` are proved of an envelope as it lies in the
body (`LaidOut`: the place of each item, and what is at it), item after item
(`Progress`: what the items so far have told stands ahead of what comes of the
rest): a pass over an item all of whose payload is there reads it and goes
on past its newline (`ItemRead`); one over the item in which the envelope is cut
ends the loop with what came before it, or fails. The hypotheses are what
`WellFormed` says of a sender: a payload without a declared length has no
newline, a declared length is the payload's own, an event item's payload is an
event; and that the envelope is shorter than `Width`.

`InputsAlwaysRead` is then the run's invariant: its envelopes are such envelopes,
of 25 symbols at most, hence `Width > 25` (64 in the run, 2^64 in the daemon); its
events are such events; and `FamiliesRight` and `ObjectTagsWin` follow marker by
marker from the order of the two tables (`FirstHit`).

`FingerprintsGroup` is about `Grouping`. A field ends in its only byte 255, which
no UTF-8 string has, so no field is the beginning of another (`ClosedPrefix`) and
different fields are written differently (`FieldTells`). `SameGroup` includes the
one case the code does not tell apart: an exception without frames, and a
message that reads as its type. An event that has neither is hashed by the
sixteen raw bytes of its id; `IdTold` leaves out ids that begin with 0 or 1 and
end with 255, which could read as a field.

`ProjectConsoleProofs` proves, for any projects, numbers of requests and commands
and any budgets, from `FpOfAssumption` and a finite set of projects:

| Theorem | States |
|---|---|
| `ConsoleTyped` | `Spec => []TypeOK` |
| `LateFailuresAreRaces` | `Spec => []OnlyRacesFailLate` |
| `ReportsAreBracketed` | `Spec => []ReportsBracketed` |
| `ActivitySinceMidnight` | `ActivityStats(received, now)` counts what was received since midnight, no event in any hour, and gives now as the last event's time, for any rows received no later than `now` |

The invariant says of each request, by its place in its operation, what it knows
and what must have happened for that to be untrue by now: a row it has checked
is still there, or another request has changed it since (`LateOnlyIfRaced`); and the
numbers it has read differ from what is there now only by what others have added
or removed since it began (`CountedSoFar`). The two properties speak of answered
requests and know nothing of those under way.
`ActivitySinceMidnight` is about `Activity`: the text comparison of
`activity_stats` decides by the day alone. It says how far the code is from what
`LastDayReported` states, and that this is so for every input.

`LiveViewProofs` proves, for any finite number of sockets, any issues and all
capacities, from `LiveViewAssumption`:

| Theorem | States |
|---|---|
| `LiveViewTyped` | `Spec => []TypeOK` |
| `SocketsAccountedFor` | `Spec => []OneSocket` |
| `DrainedPagesAreCurrent` | `Spec => []DrainedIsCurrent` |

`OneSocket` is not inductive: a page with a timer and no socket, and one with a
socket and a timer, look alike to it. `Spare` counts apart the live sockets that
are not the page's and a timer set beside the page's socket; each of these is
owed to a late `onclose`.

`ViewInv` carries `DrainedIsCurrent`. For each session and each id that is not
`stale` for it, what is still on its way of the id ends at its present row
(`EndsCurrent`); the snapshot is the first frame of a session and the only one of
its kind (`SnapshotFirst`); and an id of which some session has told the page,
while none that has told it anything owes it more, is shown as it is (`Told`).
The last is inductive only with the first two: a snapshot replaces the page's
whole map, and what another session has told of is then shown only if the
snapshot, or what follows it, has it too.

`AccountsProofs` proves, for any number of users, addresses and concurrent
requests and any thresholds, from `AccountsAssumption`:

| Theorem | States |
|---|---|
| `AccountsTyped` | `Spec => []TypeOK` |
| `SessionsAlwaysOwned` | `Spec => []SessionsHaveUsers` |
| `FailuresAlwaysBounded` | `Spec => []FailuresBounded` |
| `OneConsoleKeepsAdmin` | `Spec => []ActiveAdminRemains`, given that at most one request is of the team console |
| `OnlyOvertakenAlwaysStay` | `Spec => []OnlyOvertakenStay` |
| `TextsSortAsTimes` | `Below(Text(s), Text(t)) <=> s < t`, for all instants (`Lockout`) |
| `WaitingLetsThrough` | a login refused is not refused once `Retry-After` is over, for any table without later rows (`Lockout`) |
| `WindowsAlwaysHold` | `WindowsHold` and `WaitingHelps` in any course of logins, setups and purges (`Lockout`) |
| `RowsOutliveCookies` | `PurgedIsExpired` and `GhostsGo` in any course of a session's life (`SessionAge`) |
| `CoursesHold` | `Spec => []OverTime`, from these two |

`FailuresInv` says that the failures on record and those still to be recorded by
requests that have passed the check together fit under the threshold plus the
number of requests; the bound alone is not inductive, since it does not see the
requests under way. `AdminInv` says that a console request past its count has
still another admin to leave behind (`Spare`), and that one without a count can
do no harm (`Harmless`). `OvertakenInv` counts, for a deactivated user, the sessions
and the requests that have only the session left to open: together they are no
more than were overtaken. Opening one moves it from the second to the first, and
a login that looks at its user later adds to neither.

`WindowsAlwaysHold` rests on two things (`LockoutInv`). The table still has every
row of the last window, since the purge keeps rows longer than the window lasts
(`RowsLeft`), so that the query counts all there is to count. And from any attempt
on, a window holds no more failures than the threshold (`WindowsWithin`): the
attempt that would be one too many looks back over a window that ends with
itself, counts at least as many, and is refused without a row.

`TextsSortAsTimes` goes by the four lengths a fraction can have and the bytes at
the first place two texts differ. `RowsOutliveCookies` takes a life to be any
sequence of `NextAge` steps and excludes a first state that breaks the invariant,
as the naturals are well-founded.

`RetentionProofs` proves, for any projects, events, settings and instants, from
`RetentionAssumption` and `FpOfAssumption`:

| Theorem | States |
|---|---|
| `RetentionTyped` | `Spec => []TypeOK` |
| `PurgesKeepTablesSound` | `Spec => []TablesSound` |
| `LaterDatesAlwaysKept` | `Spec => LaterDatesKept` |
| `OldestAlwaysFirst` | `Spec => OldestGoFirst` |
| `SweepsMeetLimits` | `Spec => []SweepMeetsLimits` |

The inductive invariant is `TypeOK /\ TablesSound`; the statements' lemmas are
those of `IssueDbProofs`, with one more for the deletes of events. `TablesSound`
includes that issues count at least their stored events: a purge of events lowers
only the second, and a purge of issues takes an issue with its events.

The other two rest on what `ROW_NUMBER() OVER (... ORDER BY ...)` does with ties.
Issues differ by their id and stored events by their row number (`RowsDistinct`),
so that no two rows of a partition compare equal. The rank is then a strict order (`RanksGrow`) and deleting the rows
beyond a limit leaves that many, or all (`RankedDelete`). `SweepInv` says which
limits hold at each place of a sweep that nothing has disturbed: a later purge
only takes rows away, so it cannot undo an earlier one; and rows the age purge
keeps are younger than the cutoff though it compares dates (`LaterDay`).

`AlertsProofs` proves, for any names, URLs and capacity, from `AlertsAssumption`:

| Theorem | States |
|---|---|
| `AlertsTyped` | `Spec => []TypeOK` |
| `OnlyOvertakenEverFire` | `Spec => OnlyOvertakenFire` |
| `HealthAlwaysLast` | `Spec => []HealthIsLastOutcome` |

`OnlyOvertakenEverFire` rests on `WaitingInv`: of each silenced issue with a trigger
on its way, its last triage overtook that trigger: an event of such an issue offers
no trigger, and a triage with none waiting finds none later.

`HealthAlwaysLast` rests on `HealthInv`: no two projects share a row; while a call is out,
the row it went to is the one under the trigger's name and that name has no
other, or the rows concerned are marked; and what is to be recorded is what was
learnt. The property by itself says nothing of where `record_webhook_attempt`
will write.

Only model-checked, and why:

* everything under fairness (`AcceptedIsSettled`, `RequestsEnd`, `PageCatchesUp`,
  `LimitsTakeEffect`, `AlertsSettle`) and ENABLED, which the prover does not handle.

Every other property a passing run checks is proved, `ActiveAdminRemains` for one
console request at a time, as its run has it. The properties of the three runs
under Findings are false. Induction over a list is
done without the library's induction theorems, whose operator parameters no
installed prover can instantiate: as above, by the least number for which a claim
would fail.

## Not modelled

Left out for good: `crypto.rs` (argon2 and random tokens), `spa.rs` (files),
`config.rs` but for the project commands, `metrics.rs` but for two counters, the
stubs `mcp.rs` and `triage.rs`, rendering and query parsing in the SPA, the load
generator in `scripts/stress`, the text of webhook payloads and the validation of
their URLs, and the lists and details the API only reads.

What would come next: the SPA's status changes and their undo (`issueOps.ts`). A
change is not applied to the page: it goes to the server and comes back as a
frame. Its undo writes the status the page had shown when the change was asked
for, whatever a regression or another administrator has made of the issue since.
