------------------------------- MODULE Alerts -------------------------------
(***************************************************************************)
(* Webhook alerts (webhook.rs): the digest task offers a trigger for each  *)
(* new or regressed issue to a bounded channel; one task takes them one by *)
(* one, looks up the URL of the project the issue was committed under,     *)
(* POSTs to it and notes the outcome on the project's row.  Meanwhile the  *)
(* issue may be triaged and the project renamed, deleted, made again or    *)
(* given another URL.                                                      *)
(*                                                                         *)
(* A lookup and the start of the POST are one step: the task goes on       *)
(* without awaiting once it has its row, and until then holds the one      *)
(* connection.  Likewise a console operation is its transaction.           *)
(***************************************************************************)
EXTENDS Naturals, Sequences

CONSTANTS
  Names,     \* project names
  Urls,      \* webhook URLs that pass validate_url
  QueueCap,  \* WEBHOOK_CHANNEL_CAPACITY
  MaxIssues, \* bound: issues ever created
  Budget     \* bound: how often each kind of outside step happens

Outside == {"event", "triage", "console", "error", "restart"}

ASSUME AlertsAssumption ==
  /\ QueueCap \in Nat \ {0}
  /\ MaxIssues \in Nat
  /\ Budget \in [Outside -> Nat]

VARIABLES
  projects,  \* the projects table, by name
  issues,    \* the issues table, by id; "gone" once deleted
  queue,     \* the webhook channel
  task,      \* where the webhook task is, and with what
  rows,      \* project rows ever made: the next one's identity
  outcomes,  \* history: the outcome of the last POST to each row's URL
  unsettled, \* history: rows whose name was touched while a call was out
  overtaken, \* history: issues last triaged while a trigger of theirs waited
  spent      \* outside steps taken, against Budget

tables == <<projects, issues>>
history == <<rows, outcomes, unsettled, overtaken>>
vars == <<tables, queue, task, history, spent>>

Statuses == {"unresolved", "resolved", "muted", "ignored"}

NoUrl == "no url"

\* Classes of last_webhook_status: NULL, 2xx, any other code, 0.
Outcomes == {"ok", "refused", "failed"}
Health == Outcomes \cup {"never"}

\* A row of projects; id tells it from others of the same name.
Row(id) == [id |-> id, url |-> NoUrl, health |-> "never"]

\* struct Trigger: the issue as read back in the transaction.
Trigger == [issue : 1 .. MaxIssues, project : Names, status : Statuses]

Idle == [pc |-> "recv"]

\* The task in a call for trigger t, made to row's URL.
Calling(t, row) == [pc |-> "sent", trigger |-> t, row |-> row.id]

Spend(kind) ==
  /\ spent[kind] < Budget[kind]
  /\ spent' = [spent EXCEPT ![kind] = @ + 1]

Init ==
  /\ projects = [n \in {} |-> Row(0)]
  /\ issues = <<>>
  /\ queue = <<>>
  /\ task = Idle
  /\ rows = 0
  /\ outcomes = <<>>
  /\ unsettled = {}
  /\ overtaken = {}
  /\ spent = [kind \in Outside |-> 0]

----------------------------------------------------------------------------
(***************************************************************************)
(* The digest task and the triage endpoint                                 *)
(***************************************************************************)

\* Variant: an unbounded channel.
OfferAlways(t) == queue' = Append(queue, t)

\* try_send: a full channel drops the trigger.
Offer(t) == queue' = IF Len(queue) < QueueCap THEN Append(queue, t) ELSE queue

\* An event of a fingerprint not seen in project n.  The commit and the offer are
\* one step: a triage that comes in between does as one after both.
Create(n) ==
  LET id == Len(issues) + 1 IN
  /\ id <= MaxIssues
  /\ Spend("event")
  /\ issues' = Append(issues, [project |-> n, status |-> "unresolved"])
  /\ Offer([issue |-> id, project |-> n, status |-> "unresolved"])
  /\ UNCHANGED <<projects, task, history>>

\* Variant: a muted issue alerts as a resolved one does, though its row stays.
RecurAlertingMuted(i) ==
  /\ issues[i].status # "gone"
  /\ Spend("event")
  /\ issues' = [issues EXCEPT ![i].status = IF @ = "resolved" THEN "unresolved" ELSE @]
  /\ IF issues[i].status \in {"resolved", "muted"}
       THEN Offer([issue |-> i, project |-> issues[i].project,
                   status |-> "unresolved"])
       ELSE UNCHANGED queue
  /\ UNCHANGED <<projects, task, history>>

\* An event of a known issue: a resolved one is reopened, which is alerted.
Recur(i) ==
  /\ issues[i].status # "gone"
  /\ Spend("event")
  /\ IF issues[i].status = "resolved"
       THEN /\ issues' = [issues EXCEPT ![i].status = "unresolved"]
            /\ Offer([issue |-> i, project |-> issues[i].project,
                      status |-> "unresolved"])
       ELSE UNCHANGED <<issues, queue>>
  /\ UNCHANGED <<projects, task, history>>

\* The triggers that have not led to a call yet.
Waiting ==
  {queue[k] : k \in 1 .. Len(queue)} \cup
  (IF task.pc = "lookup" THEN {task.trigger} ELSE {})

PutStatus(i, s) ==
  /\ issues[i].status # "gone"
  /\ Spend("triage")
  /\ issues' = [issues EXCEPT ![i].status = s]
  /\ overtaken' = IF \E t \in Waiting : t.issue = i THEN overtaken \cup {i}
                                                    ELSE overtaken \ {i}
  /\ UNCHANGED <<projects, queue, task, rows, outcomes, unsettled>>

----------------------------------------------------------------------------
(***************************************************************************)
(* The project console                                                     *)
(***************************************************************************)

\* A call has been made and its outcome is not on the row yet.
Out == task.pc \in {"sent", "body", "record"}

\* The rows that record will miss, or reach by mistake, once the rows named ns
\* have changed.
Touches(ns) ==
  IF Out /\ task.trigger.project \in ns
    THEN {task.row} \cup {projects[n].id : n \in ns \cap DOMAIN projects}
    ELSE {}

CreateProject(n) ==
  /\ n \notin DOMAIN projects
  /\ Spend("console")
  /\ rows' = rows + 1
  /\ projects' = [m \in DOMAIN projects \cup {n} |->
                    IF m = n THEN Row(rows') ELSE projects[m]]
  /\ outcomes' = Append(outcomes, "never")
  /\ unsettled' = IF Touches({n}) = {} THEN unsettled
                                       ELSE unsettled \cup Touches({n}) \cup {rows'}
  /\ UNCHANGED <<issues, queue, task, overtaken>>

SetWebhook(n, url) ==
  /\ n \in DOMAIN projects
  /\ Spend("console")
  /\ projects' = [projects EXCEPT ![n].url = url]
  /\ UNCHANGED <<issues, queue, task, history>>

RenameProject(n, m) ==
  /\ n \in DOMAIN projects
  /\ m \notin DOMAIN projects
  /\ Spend("console")
  /\ projects' = [k \in (DOMAIN projects \ {n}) \cup {m} |->
                    IF k = m THEN projects[n] ELSE projects[k]]
  /\ issues' = [i \in DOMAIN issues |->
                  IF issues[i].project = n THEN [issues[i] EXCEPT !.project = m]
                                           ELSE issues[i]]
  /\ unsettled' = unsettled \cup Touches({n, m})
  /\ UNCHANGED <<queue, task, rows, outcomes, overtaken>>

DeleteProject(n) ==
  /\ n \in DOMAIN projects
  /\ Spend("console")
  /\ projects' = [k \in DOMAIN projects \ {n} |-> projects[k]]
  /\ issues' = [i \in DOMAIN issues |->
                  IF issues[i].project = n THEN [issues[i] EXCEPT !.status = "gone"]
                                           ELSE issues[i]]
  /\ UNCHANGED <<queue, task, history>>

----------------------------------------------------------------------------
(***************************************************************************)
(* webhook::run                                                            *)
(***************************************************************************)

\* matches!(trigger.issue.status, Muted | Ignored): on the trigger's copy.
Suppressed(t) == t.status \in {"muted", "ignored"}

\* recv, and the check that needs no database.
Recv ==
  /\ task.pc = "recv"
  /\ queue # <<>>
  /\ queue' = Tail(queue)
  /\ task' = IF Suppressed(Head(queue))
               THEN Idle
               ELSE [pc |-> "lookup", trigger |-> Head(queue), row |-> 0]
  /\ UNCHANGED <<tables, history, spent>>

Addressed(n) == n \in DOMAIN projects /\ projects[n].url # NoUrl

\* Variant: a project without a URL holds the task up.
LookupWaiting ==
  /\ task.pc = "lookup"
  /\ Addressed(task.trigger.project)
  /\ task' = Calling(task.trigger, projects[task.trigger.project])
  /\ UNCHANGED <<tables, queue, history, spent>>

\* project_by_name, then the POST, unless there is no such project, it has no
\* URL, or the query fails.
Lookup ==
  /\ task.pc = "lookup"
  /\ LET n == task.trigger.project IN
     \/ Addressed(n) /\ task' = Calling(task.trigger, projects[n]) /\ UNCHANGED spent
     \/ ~Addressed(n) /\ task' = Idle /\ UNCHANGED spent
     \/ Spend("error") /\ task' = Idle
  /\ UNCHANGED <<tables, queue, history>>

Learn(outcome) ==
  /\ outcomes' = [outcomes EXCEPT ![task.row] = outcome]
  /\ task' = [pc |-> "record", trigger |-> task.trigger, row |-> task.row,
              outcome |-> outcome]

\* SEND_TIMEOUT runs out, or the call fails before its response.
NoResponse ==
  /\ task.pc = "sent"
  /\ Learn("failed")
  /\ UNCHANGED <<tables, queue, rows, unsettled, overtaken, spent>>

\* The response's head has come; its body is read next, whatever it takes.
Response ==
  /\ task.pc = "sent"
  /\ \E status \in {"ok", "refused"} :
       task' = [pc |-> "body", trigger |-> task.trigger, row |-> task.row,
                outcome |-> status]
  /\ UNCHANGED <<tables, queue, history, spent>>

\* The body ends, or breaks off: into_body().collect() returns.
BodyEnds ==
  /\ task.pc = "body"
  /\ Learn(task.outcome)
  /\ UNCHANGED <<tables, queue, rows, unsettled, overtaken, spent>>

\* Variant: only a delivery is recorded.
RecordDelivered ==
  /\ task.pc = "record"
  /\ projects' = IF task.outcome = "ok" /\ task.trigger.project \in DOMAIN projects
                   THEN [projects EXCEPT ![task.trigger.project].health = task.outcome]
                   ELSE projects
  /\ task' = Idle
  /\ UNCHANGED <<issues, queue, history, spent>>

\* record_webhook_attempt: UPDATE ... WHERE name = ?, which may find no row and
\* may fail; neither is reported.
Record ==
  /\ task.pc = "record"
  /\ LET n == task.trigger.project IN
     \/ /\ projects' = IF n \in DOMAIN projects
                         THEN [projects EXCEPT ![n].health = task.outcome]
                         ELSE projects
        /\ UNCHANGED <<unsettled, spent>>
     \/ /\ Spend("error")
        /\ unsettled' = unsettled \cup {task.row}
        /\ UNCHANGED projects
  /\ task' = Idle
  /\ UNCHANGED <<issues, queue, rows, outcomes, overtaken>>

\* The daemon goes down and comes up: what is in memory is gone.
Restart ==
  /\ Spend("restart")
  /\ queue' = <<>>
  /\ unsettled' = IF Out THEN unsettled \cup {task.row} ELSE unsettled
  /\ task' = Idle
  /\ UNCHANGED <<tables, rows, outcomes, overtaken>>

----------------------------------------------------------------------------
Console ==
  \E n \in Names :
    \/ CreateProject(n)
    \/ \E url \in Urls \cup {NoUrl} : SetWebhook(n, url)
    \/ \E m \in Names : RenameProject(n, m)
    \/ DeleteProject(n)

Write ==
  \/ \E n \in Names : Create(n)
  \/ \E i \in DOMAIN issues : Recur(i)
  \/ \E i \in DOMAIN issues, s \in Statuses : PutStatus(i, s)

Webhook == Recv \/ Lookup \/ NoResponse \/ Response \/ BodyEnds \/ Record

Next == Write \/ Console \/ Webhook \/ Restart

Spec == Init /\ [][Next]_vars

\* tokio polls the task when a trigger is there, the connection comes round to
\* it, and SEND_TIMEOUT ends a call that gets no response.  Nothing in the
\* daemon ends the reading of a body.
Fairness ==
  /\ WF_vars(Recv)
  /\ WF_vars(Lookup)
  /\ WF_vars(NoResponse \/ Response)
  /\ WF_vars(Record)

FairSpec == Spec /\ Fairness

----------------------------------------------------------------------------
(***************************************************************************)
(* Properties                                                              *)
(***************************************************************************)

\* The channel keeps to its capacity, and a call always has the row whose URL
\* it went to.
TypeOK ==
  /\ DOMAIN projects \subseteq Names
  /\ \A n \in DOMAIN projects :
       projects[n] \in [id : 1 .. rows, url : Urls \cup {NoUrl}, health : Health]
  /\ issues \in Seq([project : Names, status : Statuses \cup {"gone"}])
  /\ Len(issues) <= MaxIssues
  /\ queue \in Seq(Trigger)
  /\ Len(queue) <= QueueCap
  /\ \/ task = Idle
     \/ task \in [pc : {"lookup"}, trigger : Trigger, row : {0}]
     \/ task \in [pc : {"sent"}, trigger : Trigger, row : 1 .. rows]
     \/ task \in [pc : {"body", "record"}, trigger : Trigger, row : 1 .. rows,
                  outcome : Outcomes]
  /\ rows \in Nat
  /\ outcomes \in [1 .. rows -> Health]
  /\ unsettled \subseteq 1 .. rows
  /\ overtaken \subseteq Nat
  /\ spent \in [Outside -> Nat]

\* A call is made about a muted or ignored issue only where its trigger was
\* waiting already when the issue was triaged: no event of such an issue leads
\* to one, whatever it was before (digest.rs:204-214; webhook.rs:239 looks at the
\* trigger's copy of the status, which is from before).
Silenced(i) == issues[i].status \in {"muted", "ignored"}

OnlyOvertakenFire ==
  [][task.pc = "lookup" /\ task'.pc = "sent" /\ Silenced(task.trigger.issue)
       => task.trigger.issue \in overtaken]_vars

\* A project's row tells the outcome of the last call made to its URL, except
\* while that is being recorded, and unless a rename or a creation touched the
\* name while a call was out, or the record was lost (webhook.rs:263-275).
Recording(n) == task.pc = "record" /\ task.row = projects[n].id
HealthIsLastOutcome ==
  \A n \in DOMAIN projects :
    \/ projects[n].health = outcomes[projects[n].id]
    \/ Recording(n)
    \/ projects[n].id \in unsettled

\* Every alert the channel took is dealt with and the task comes to rest, or it
\* reads one response's body for ever.
AlertsSettle ==
  \/ <>[](task.pc = "body")
  \/ <>[](queue = <<>> /\ task.pc = "recv")
============================================================================
