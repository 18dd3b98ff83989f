----------------------------- MODULE LiveView -----------------------------
(***************************************************************************)
(* How a browser's list of issues follows the database: the broadcast      *)
(* channel the writers send to (main.rs, digest.rs, ingest.rs), one        *)
(* websocket session per socket (ws.rs), the frames on the socket, and the *)
(* page's sockets, reconnect timer and map (ws.ts, stores.svelte.ts).      *)
(*                                                                         *)
(* An issue's columns are one version number, raised by every change to    *)
(* the row: what matters here is only whether a page shows the committed   *)
(* row or an older one.  Pipeline says which steps change rows; here they  *)
(* are the writers' commits, each with the messages it sends.              *)
(*                                                                         *)
(* There is one page: sessions share the ring only, which none of them     *)
(* changes.  Whichever project a session is of, it is sent every issue.    *)
(***************************************************************************)
EXTENDS Naturals, Sequences, FiniteSets

CONSTANTS
  Sockets,    \* the page's sockets with handlers, at once
  NoSocket,   \* null
  Ids,        \* issue ids the database may hand out
  RingCap,    \* FANOUT_CHANNEL_CAPACITY
  BatchSize,  \* BATCH_SIZE
  WireCap,    \* frames a socket takes before write.send blocks
  Budget      \* bound: how often each kind of outside step happens, and all

Outside == {"change", "silent", "remove", "close", "restart", "connect", "leave",
            "any"}

ASSUME LiveViewAssumption ==
  /\ Sockets # {} /\ IsFiniteSet(Sockets) /\ NoSocket \notin Sockets
  /\ Ids \subseteq Nat
  /\ RingCap \in Nat \ {0}
  /\ BatchSize \in Nat \ {0}
  /\ WireCap \in Nat \ {0}
  /\ Budget \in [Outside -> Nat]

VARIABLES
  rows,     \* the committed version of each live issue
  born,     \* ids handed out: AUTOINCREMENT never hands one out again
  log,      \* messages sent since boot, of which the ring keeps the last RingCap
  session,  \* the websocket task of each socket
  wire,     \* frames written and not yet read by the browser
  page,     \* ws.ts: see Page
  view,     \* IssuesStore.byId
  stale,    \* ids whose committed version a session has no message for: lost
            \* to lag, or committed without one since it subscribed, or owed by
            \* another socket that broke
  spent     \* outside steps taken, against Budget

store == <<rows, born>>
vars == <<store, log, session, wire, page, view, stale, spent>>

----------------------------------------------------------------------------
NoRows == [i \in {} |-> i]

\* No socket.
Down == [pc |-> "down", cursor |-> 0, snapshot |-> NoRows]

\* new WebSocket: the daemon has not answered the request yet.
Opening == [pc |-> "opening", cursor |-> 0, snapshot |-> NoRows]

\* The variables of ws.ts: socket; whether pendingProject is set; whether
\* reconnectTimer is.  closing counts sockets that disconnect() closed and
\* whose onclose is still to fire.  History: late counts those that fired after
\* the next connect().
Page == [socket : Sockets \cup {NoSocket}, wanted : BOOLEAN, timer : BOOLEAN,
         closing : Nat, late : Nat]

Live == {k \in Sockets : session[k].pc # "down"}

Spend(kind) ==
  /\ spent[kind] < Budget[kind]
  /\ spent["any"] < Budget["any"]
  /\ spent' = [spent EXCEPT ![kind] = @ + 1, !["any"] = @ + 1]

Streaming(k) == session[k].pc = "streaming"

Message(i, v) == [id |-> i, version |-> v]

Put(f, i, v) == [j \in DOMAIN f \cup {i} |-> IF j = i THEN v ELSE f[j]]

\* A free slot for a new socket.
FreeSocket == CHOOSE k \in Sockets : session[k].pc = "down"

\* The page has called connect().
Init ==
  LET first == CHOOSE k \in Sockets : TRUE IN
  /\ rows = NoRows
  /\ born = {}
  /\ log = <<>>
  /\ session = [k \in Sockets |-> IF k = first THEN Opening ELSE Down]
  /\ wire = [k \in Sockets |-> <<>>]
  /\ page = [socket |-> first, wanted |-> TRUE, timer |-> FALSE,
             closing |-> 0, late |-> 0]
  /\ view = NoRows
  /\ stale = [k \in Sockets |-> {}]
  /\ spent = [kind \in Outside |-> 0]

----------------------------------------------------------------------------
(***************************************************************************)
(* The writers                                                             *)
(***************************************************************************)

\* Staleness of every session once a message about ids is sent.
Heal(ids) == stale' = [k \in Sockets |-> stale[k] \ ids]

NextVersion(i) == IF i \in DOMAIN rows THEN rows[i] + 1 ELSE 1

\* The digest task commits a batch of occurrences and sends one message per
\* result, each with the row as it was after that occurrence.
DigestCommit(ids) ==
  LET upTo(n) == Cardinality({m \in 1 .. n : ids[m] = ids[n]})
      version(n) == NextVersion(ids[n]) + upTo(n) - 1
      touched == {ids[n] : n \in DOMAIN ids}
      final(i) == NextVersion(i) + Cardinality({n \in DOMAIN ids : ids[n] = i}) - 1
  IN
  /\ Spend("change")
  /\ \A i \in touched : i \in DOMAIN rows \/ i \notin born
  /\ rows' = [i \in DOMAIN rows \cup touched |->
                IF i \in touched THEN final(i) ELSE rows[i]]
  /\ born' = born \cup touched
  /\ log' = log \o [n \in DOMAIN ids |-> Message(ids[n], version(n))]
  /\ Heal(touched)
  /\ UNCHANGED <<session, wire, page, view>>

\* PUT /api/issues/:id/status commits and sends the row.
PutStatus(i) ==
  /\ i \in DOMAIN rows
  /\ Spend("change")
  /\ rows' = [rows EXCEPT ![i] = @ + 1]
  /\ log' = Append(log, Message(i, rows'[i]))
  /\ Heal({i})
  /\ UNCHANGED <<born, session, wire, page, view>>

\* Commits no message is sent for: a status change whose request is dropped
\* while it commits, the project column under a rename.
SilentChange(i) ==
  /\ i \in DOMAIN rows
  /\ Spend("silent")
  /\ rows' = [rows EXCEPT ![i] = @ + 1]
  /\ stale' = [k \in Sockets |-> stale[k] \cup {i}]
  /\ UNCHANGED <<born, log, session, wire, page, view>>

\* A project delete or a retention purge; no message is sent for those either.
Remove(gone) ==
  /\ gone # {}
  /\ Spend("remove")
  /\ rows' = [i \in DOMAIN rows \ gone |-> rows[i]]
  /\ Heal(gone)
  /\ UNCHANGED <<born, log, session, wire, page, view>>

----------------------------------------------------------------------------
(***************************************************************************)
(* ws.rs                                                                   *)
(***************************************************************************)

\* The ids a session still has a message about.
Pending(k) == {log[n].id : n \in session[k].cursor + 1 .. Len(log)}

\* GET /ws/:project passes its checks and subscribes, before it upgrades.
Subscribe(k) ==
  /\ session[k].pc = "opening"
  /\ session' = [session EXCEPT ![k] =
       [pc |-> "subscribed", cursor |-> Len(log), snapshot |-> NoRows]]
  /\ stale' = [stale EXCEPT ![k] = {}]
  /\ UNCHANGED <<store, log, wire, page, view, spent>>

\* run: load_issues.  It makes up for a change no message was sent for, unless
\* an older message about that issue is still to come and will undo it.
LoadIssues(k) ==
  /\ session[k].pc = "subscribed"
  /\ session' = [session EXCEPT ![k] =
       [@ EXCEPT !.pc = "loaded", !.snapshot = rows]]
  /\ stale' = [stale EXCEPT ![k] = @ \cap Pending(k)]
  /\ UNCHANGED <<store, log, wire, page, view, spent>>

\* Variant: subscribes only once the snapshot is out.
SendSnapshotThenSubscribe(k) ==
  /\ session[k].pc = "loaded"
  /\ Len(wire[k]) < WireCap
  /\ wire' = [wire EXCEPT ![k] =
       Append(@, [type |-> "snapshot", rows |-> session[k].snapshot])]
  /\ session' = [session EXCEPT ![k] =
       [pc |-> "streaming", cursor |-> Len(log), snapshot |-> NoRows]]
  /\ UNCHANGED <<store, log, page, view, stale, spent>>

\* run: Hello and Snapshot go out before anything the session was sent.
SendSnapshot(k) ==
  /\ session[k].pc = "loaded"
  /\ Len(wire[k]) < WireCap
  /\ wire' = [wire EXCEPT ![k] =
       Append(@, [type |-> "snapshot", rows |-> session[k].snapshot])]
  /\ session' = [session EXCEPT ![k] =
       [@ EXCEPT !.pc = "streaming", !.snapshot = NoRows]]
  /\ UNCHANGED <<store, log, page, view, stale, spent>>

\* The oldest message the ring still holds is log[Oldest + 1].
Oldest == IF Len(log) > RingCap THEN Len(log) - RingCap ELSE 0

\* fanout.recv() returns the next message and the session writes it.
Forward(k) ==
  LET cursor == session[k].cursor IN
  /\ Streaming(k)
  /\ Oldest <= cursor
  /\ cursor < Len(log)
  /\ Len(wire[k]) < WireCap
  /\ wire' = [wire EXCEPT ![k] =
       Append(@, [type |-> "issue", issue |-> log[cursor + 1]])]
  /\ session' = [session EXCEPT ![k] = [@ EXCEPT !.cursor = cursor + 1]]
  /\ UNCHANGED <<store, log, page, view, stale, spent>>

\* The ids a session at cursor has lost for good when it goes on at next.
LostIds(cursor, next) ==
  {log[n].id : n \in cursor + 1 .. next} \ {log[n].id : n \in next + 1 .. Len(log)}

\* fanout.recv() returns Lagged(skipped): the session counts it, logs it and
\* goes on with the oldest message left.
Lagged(k) ==
  LET cursor == session[k].cursor IN
  /\ Streaming(k)
  /\ cursor < Oldest
  /\ session' = [session EXCEPT ![k] = [@ EXCEPT !.cursor = Oldest]]
  /\ stale' = [stale EXCEPT ![k] = @ \cup LostIds(cursor, Oldest)]
  /\ UNCHANGED <<store, log, wire, page, view, spent>>

----------------------------------------------------------------------------
(***************************************************************************)
(* ws.ts                                                                   *)
(***************************************************************************)

\* A snapshot replaces the map, an issue replaces its entry.
After(v, frame) ==
  IF frame.type = "snapshot" THEN frame.rows
                             ELSE Put(v, frame.issue.id, frame.issue.version)

\* onmessage: the browser handles the next frame of a socket.
Handle(k) ==
  /\ wire[k] # <<>>
  /\ view' = After(view, Head(wire[k]))
  /\ wire' = [wire EXCEPT ![k] = Tail(@)]
  /\ UNCHANGED <<store, log, session, page, stale, spent>>

\* The ids a socket has still to bring up to date: those it is behind in, or
\* has lost the message for.
Owed(k) ==
  Pending(k) \cup stale[k]
    \cup {wire[k][n].issue.id :
            n \in {m \in DOMAIN wire[k] : wire[k][m].type = "issue"}}

\* What becomes of the other sockets' stale ids when the sockets in gone end:
\* one that was behind may have put older rows on the page.
Abandon(gone) ==
  stale' = [k \in Sockets |-> IF k \in gone THEN {}
                              ELSE stale[k] \cup UNION {Owed(j) : j \in gone}]

\* The tables of the page's sockets after those in gone ended and the one in
\* new, if any, was made.
Sessions(gone, new) ==
  /\ session' = [k \in Sockets |-> IF k \in new THEN Opening
                                   ELSE IF k \in gone THEN Down ELSE session[k]]
  /\ wire' = [k \in Sockets |-> IF k \in gone THEN <<>> ELSE wire[k]]
  /\ Abandon(gone)

\* Variant: a pending reconnect is left to fire.
ConnectKeepingTimer(other) ==
  LET old == {page.socket} \ {NoSocket}
      new == IF old # {} THEN page.socket ELSE FreeSocket
  IN
  /\ other \/ page.socket = NoSocket
  /\ old # {} \/ Live # Sockets
  /\ Spend("connect")
  /\ Sessions(old, {new})
  /\ page' = [page EXCEPT !.socket = new, !.wanted = TRUE]
  /\ UNCHANGED <<store, log, view>>

\* connect(project), of the current project or another one: nothing to do when
\* there is a socket for it; else the socket loses its handlers and is closed,
\* the timer is cleared and a new socket opened.  A socket without handlers has
\* no further effect: its slot is used again.
Connect(other) ==
  LET old == {page.socket} \ {NoSocket}
      new == IF old # {} THEN page.socket ELSE FreeSocket
  IN
  /\ other \/ page.socket = NoSocket
  /\ old # {} \/ Live # Sockets
  /\ Spend("connect")
  /\ Sessions(old, {new})
  /\ page' = [page EXCEPT !.socket = new, !.wanted = TRUE, !.timer = FALSE]
  /\ UNCHANGED <<store, log, view>>

\* disconnect(): the socket is closed with its handlers on.  It delivers no more
\* messages, and its onclose is still to come.
Disconnect ==
  LET old == {page.socket} \ {NoSocket} IN
  /\ page.wanted
  /\ Spend("leave")
  /\ Sessions(old, {})
  /\ page' = [page EXCEPT !.socket = NoSocket, !.wanted = FALSE, !.timer = FALSE,
                          !.closing = @ + Cardinality(old)]
  /\ UNCHANGED <<store, log, view>>

\* onclose of a socket that disconnect() closed.
ClosedLate ==
  /\ page.closing > 0
  /\ page' = [page EXCEPT !.closing = @ - 1, !.timer = @ \/ page.wanted,
                          !.late = IF page.wanted THEN @ + 1 ELSE @]
  /\ UNCHANGED <<store, log, session, wire, view, stale, spent>>

\* The timer fires: open(), whatever socket there is.
Reconnect ==
  /\ page.timer
  /\ Live # Sockets
  /\ Sessions({}, {FreeSocket})
  /\ page' = [page EXCEPT !.timer = FALSE, !.socket = FreeSocket]
  /\ UNCHANGED <<store, log, view, spent>>

\* Variant: onclose does not reconnect.
OnCloseForGood(gone) ==
  page' = [page EXCEPT !.socket = IF @ \in gone THEN NoSocket ELSE @]

\* onclose of the sockets in gone, at least one.
OnClose(gone) ==
  page' = [page EXCEPT !.socket = IF @ \in gone THEN NoSocket ELSE @,
                       !.timer = @ \/ page.wanted]

\* A connection breaks or is refused: the session ends, onclose fires and the
\* map stays as it was.
Close(k) ==
  /\ k \in Live
  /\ Spend("close")
  /\ Sessions({k}, {})
  /\ OnClose({k})
  /\ UNCHANGED <<store, log, view>>

\* The daemon restarts: every session ends and the channel is new.
Restart ==
  /\ Spend("restart")
  /\ Sessions(Live, {})
  /\ IF Live = {} THEN UNCHANGED page ELSE OnClose(Live)
  /\ log' = <<>>
  /\ UNCHANGED <<store, view>>

----------------------------------------------------------------------------
Write ==
  \/ \E n \in 1 .. BatchSize : \E ids \in [1 .. n -> Ids] : DigestCommit(ids)
  \/ \E i \in Ids : PutStatus(i) \/ SilentChange(i)
  \/ \E gone \in SUBSET (DOMAIN rows) : Remove(gone)

Serve(k) ==
  \/ Subscribe(k)
  \/ LoadIssues(k)
  \/ SendSnapshot(k)
  \/ Forward(k)
  \/ Lagged(k)

Next ==
  \/ Write
  \/ \E k \in Sockets : Serve(k) \/ Handle(k) \/ Close(k)
  \/ \E other \in BOOLEAN : Connect(other)
  \/ Disconnect
  \/ ClosedLate
  \/ Reconnect
  \/ Restart

Spec == Init /\ [][Next]_vars

(***************************************************************************)
(* Fairness: the reconnect timer fires (ws.ts RECONNECT_MS), a session     *)
(* that can step is polled, a browser handles the frames and the events it *)
(* has.  Writers, failures and the user owe nothing.                       *)
(***************************************************************************)
Fairness ==
  /\ \A k \in Sockets : WF_vars(Serve(k)) /\ WF_vars(Handle(k))
  /\ WF_vars(ClosedLate)
  /\ WF_vars(Reconnect)

FairSpec == Spec /\ Fairness

----------------------------------------------------------------------------
(***************************************************************************)
(* Safety                                                                  *)
(***************************************************************************)

IsVersionMap(f) == DOMAIN f \subseteq Ids /\ f \in [DOMAIN f -> Nat \ {0}]

Messages == [id : Ids, version : Nat \ {0}]

Phases == {"down", "opening", "subscribed", "loaded", "streaming"}

IsSession(task) ==
  /\ DOMAIN task = {"pc", "cursor", "snapshot"}
  /\ task.pc \in Phases /\ task.cursor \in 0 .. Len(log)
  /\ IsVersionMap(task.snapshot)
  /\ task.pc = "down" => task = Down

IsFrame(frame) ==
  \/ frame.type = "snapshot" /\ IsVersionMap(frame.rows)
  \/ frame.type = "issue" /\ frame.issue \in Messages

\* Every variable holds a value of its kind; a cursor never passes the newest
\* message, also over a restart that makes the channel anew (main.rs:100), no
\* socket holds more than it can take, and the page's socket has a session.
TypeOK ==
  /\ IsVersionMap(rows) /\ IsVersionMap(view)
  /\ DOMAIN rows \subseteq born /\ born \subseteq Ids
  /\ log \in Seq(Messages)
  /\ \A k \in Sockets :
       /\ IsSession(session[k])
       /\ Len(wire[k]) <= WireCap
       /\ \A n \in 1 .. Len(wire[k]) : IsFrame(wire[k][n])
  /\ page \in Page
  /\ page.socket = NoSocket \/ page.socket \in Live
  /\ stale \in [Sockets -> SUBSET Ids]
  /\ spent \in [Outside -> Nat]

\* ws.ts:9-10, "connect(project) tears down any existing socket and brings up a
\* new one": the page has one socket, and no timer beside it, but for one more
\* from each socket that disconnect() closed and that told of it only after
\* the next connect() (ws.ts:102-119, 142-152).
OneSocket ==
  Cardinality(Live) + (IF page.timer THEN 1 ELSE 0) <= 1 + page.late

\* The session has nothing left to send and the browser nothing to handle.
Drained(k) == Streaming(k) /\ wire[k] = <<>> /\ session[k].cursor = Len(log)

\* The page has a socket and all it has are drained.
Settled == Live # {} /\ \A k \in Live : Drained(k)

Shows(i) == i \in DOMAIN view /\ view[i] = rows[i]

\* A page that has handled all it was sent shows the committed row of every
\* live issue, but for ids whose last change it lost to lag or to a second
\* socket, or that changed without a message, and a later change to the issue
\* heals those.  Subscribing before loading is what makes it so: a commit
\* between the two is in the snapshot and sent again, never in neither
\* (ws.rs:107-109).
DrainedIsCurrent ==
  Settled => \A i \in DOMAIN rows \ UNION {stale[k] : k \in Live} : Shows(i)

----------------------------------------------------------------------------
(***************************************************************************)
(* Liveness                                                                *)
(***************************************************************************)

\* A page that wants to be connected ends up so, with nothing left to send to
\* it or for it to handle, however its sockets came and went
\* (ws.ts:102-119, ws.rs:121-155).
PageCatchesUp == <>[](page.wanted => Settled)
============================================================================
