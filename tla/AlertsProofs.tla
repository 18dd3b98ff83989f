---------------------------- MODULE AlertsProofs ----------------------------
(***************************************************************************)
(* What holds of Alerts for any names, URLs, capacity and bounds: types    *)
(* and the channel's capacity, that a trigger is never of a muted issue,   *)
(* and that a project's health is the outcome of the last call to it.      *)
(***************************************************************************)
EXTENDS Alerts, SequenceTheorems, TLAPS

----------------------------------------------------------------------------
(***************************************************************************)
(* The inductive invariant                                                 *)
(***************************************************************************)

\* No two projects share a row.
RowsDistinct ==
  \A n, m \in DOMAIN projects : projects[n].id = projects[m].id => n = m

\* While a call is out, the row it was made for is the one under the trigger's
\* name, and that name has no other row; or the rows concerned are marked.
CallOnItsRow ==
  Out =>
    /\ \A n \in DOMAIN projects :
         projects[n].id = task.row => n = task.trigger.project \/ task.row \in unsettled
    /\ task.trigger.project \in DOMAIN projects =>
         \/ projects[task.trigger.project].id = task.row
         \/ projects[task.trigger.project].id \in unsettled

\* What will be recorded is what was learnt.
OutcomeKept == task.pc = "record" => task.outcome = outcomes[task.row]

HealthInv == RowsDistinct /\ CallOnItsRow /\ OutcomeKept /\ HealthIsLastOutcome

----------------------------------------------------------------------------
(***************************************************************************)
(* Sequences                                                               *)
(***************************************************************************)

\* A function on 1 .. n is a sequence of length n.
LEMMA FunctionIsSeq ==
  ASSUME NEW S, NEW n \in Nat, NEW f \in [1 .. n -> S]
  PROVE  f \in Seq(S) /\ Len(f) = n
OBVIOUS

\* Appending to a history of r entries extends it by one and changes none
\* (CreateProject's outcomes).
LEMMA ExtendedHistory ==
  ASSUME NEW S, NEW r \in Nat, NEW h \in [1 .. r -> S], NEW x \in S
  PROVE  /\ Append(h, x) \in [1 .. (r + 1) -> S]
         /\ \A i \in 1 .. r : Append(h, x)[i] = h[i]
         /\ Append(h, x)[r + 1] = x
<1>1. h \in Seq(S) /\ Len(h) = r
  BY FunctionIsSeq
<1>2. /\ Append(h, x) \in Seq(S)
      /\ Len(Append(h, x)) = r + 1
      /\ \A i \in 1 .. r : Append(h, x)[i] = h[i]
      /\ Append(h, x)[r + 1] = x
  BY <1>1, AppendProperties
<1>3. Append(h, x) \in [1 .. (r + 1) -> S]
  BY <1>2, LenProperties
<1>. QED
  BY <1>2, <1>3

\* Offer keeps the channel typed and within its capacity, and adds the given
\* trigger or nothing (digest.rs, try_send).
LEMMA OfferKeepsQueue ==
  ASSUME NEW t \in Trigger, Offer(t),
         queue \in Seq(Trigger), Len(queue) <= QueueCap
  PROVE  /\ queue' \in Seq(Trigger)
         /\ Len(queue') <= QueueCap
         /\ \A k \in 1 .. Len(queue') :
              queue'[k] = t \/ (k \in 1 .. Len(queue) /\ queue'[k] = queue[k])
<1>1. CASE Len(queue) < QueueCap
  <2>1. queue' = Append(queue, t)
    BY <1>1 DEF Offer
  <2>2. /\ Append(queue, t) \in Seq(Trigger)
        /\ Len(Append(queue, t)) = Len(queue) + 1
        /\ \A k \in 1 .. Len(queue) : Append(queue, t)[k] = queue[k]
        /\ Append(queue, t)[Len(queue) + 1] = t
    BY AppendProperties
  <2>. QED
    BY <1>1, <2>1, <2>2, AlertsAssumption, LenProperties
<1>2. CASE ~(Len(queue) < QueueCap)
  BY <1>2, LenProperties DEF Offer
<1>. QED
  BY <1>1, <1>2

----------------------------------------------------------------------------
(***************************************************************************)
(* Types                                                                   *)
(***************************************************************************)

IssueRow == [project : Names, status : Statuses \cup {"gone"}]

TableTypes ==
  /\ DOMAIN projects \subseteq Names
  /\ \A n \in DOMAIN projects :
       projects[n] \in [id : 1 .. rows, url : Urls \cup {NoUrl}, health : Health]
  /\ issues \in Seq(IssueRow)
  /\ Len(issues) <= MaxIssues

QueueTypes == queue \in Seq(Trigger) /\ Len(queue) <= QueueCap

TaskTypes ==
  \/ task = Idle
  \/ task \in [pc : {"lookup"}, trigger : Trigger, row : {0}]
  \/ task \in [pc : {"sent"}, trigger : Trigger, row : 1 .. rows]
  \/ task \in [pc : {"body", "record"}, trigger : Trigger, row : 1 .. rows,
               outcome : Outcomes]

HistoryTypes ==
  /\ rows \in Nat
  /\ outcomes \in [1 .. rows -> Health]
  /\ unsettled \subseteq 1 .. rows
  /\ overtaken \subseteq Nat

\* TypeOK by its parts.
LEMMA TypeParts ==
  TypeOK <=> /\ TableTypes /\ QueueTypes /\ TaskTypes /\ HistoryTypes
             /\ spent \in [Outside -> Nat]
BY DEF TypeOK, IssueRow, TableTypes, QueueTypes, TaskTypes, HistoryTypes

\* Spending keeps the account typed (Spend).
LEMMA SpentTyped ==
  ASSUME spent \in [Outside -> Nat], NEW kind \in Outside, Spend(kind)
  PROVE  spent' \in [Outside -> Nat]
BY DEF Spend

\* The trigger of an event is well formed (digest.rs, process_batch).
LEMMA TriggerTyped ==
  ASSUME NEW i \in 1 .. MaxIssues, NEW n \in Names
  PROVE  [issue |-> i, project |-> n, status |-> "unresolved"] \in Trigger
BY DEF Trigger, Statuses

\* Every issue has a project and a status, and an id within the bound.
LEMMA IssuesTyped ==
  ASSUME TableTypes, NEW i \in DOMAIN issues
  PROVE  /\ i \in 1 .. Len(issues)
         /\ i \in 1 .. MaxIssues
         /\ issues[i] \in IssueRow
         /\ issues[i].project \in Names
<1>1. issues \in [1 .. Len(issues) -> IssueRow] /\ Len(issues) \in Nat
  BY LenProperties DEF TableTypes
<1>2. issues[i] \in IssueRow
  BY <1>1
<1>. QED
  BY <1>1, <1>2, AlertsAssumption DEF TableTypes, IssueRow

\* The digest task and the triage endpoint keep the types.
LEMMA WriteTyped ==
  ASSUME TypeOK, Write PROVE TypeOK'
<1>. USE TypeParts
<1>1. TableTypes /\ QueueTypes /\ TaskTypes /\ HistoryTypes /\ spent \in [Outside -> Nat]
  OBVIOUS
<1>2. UNCHANGED <<projects, task, rows, outcomes, unsettled>>
  BY DEF Write, Create, Recur, PutStatus, history
<1>3. TaskTypes' /\ HistoryTypes'
  <2>1. overtaken' \subseteq Nat
    <3>1. ASSUME NEW i \in DOMAIN issues, NEW s \in Statuses, PutStatus(i, s)
          PROVE  overtaken' \subseteq Nat
      <4>1. i \in Nat
        BY <1>1, IssuesTyped
      <4>. QED BY <1>1, <3>1, <4>1 DEF PutStatus, HistoryTypes
    <3>. QED BY <1>1, <3>1 DEF Write, Create, Recur, HistoryTypes, history
  <2>. QED BY <1>1, <1>2, <2>1 DEF TaskTypes, HistoryTypes, Idle
<1>4. spent' \in [Outside -> Nat]
  BY <1>1, SpentTyped DEF Write, Create, Recur, PutStatus, Outside
<1>5. \A i \in DOMAIN issues : i \in 1 .. MaxIssues /\ issues[i].project \in Names
  BY <1>1, IssuesTyped
<1>6. QueueTypes'
  <2>1. ASSUME NEW n \in Names, Create(n) PROVE QueueTypes'
    <3>1. Len(issues) + 1 \in 1 .. MaxIssues
      BY <1>1, <2>1, AlertsAssumption, LenProperties DEF Create, TableTypes
    <3>. QED
      BY <1>1, <2>1, <3>1, TriggerTyped, OfferKeepsQueue DEF Create, QueueTypes
  <2>2. ASSUME NEW i \in DOMAIN issues, Recur(i) PROVE QueueTypes'
    <3>1. CASE issues[i].status = "resolved"
      BY <1>1, <1>5, <2>2, <3>1, TriggerTyped, OfferKeepsQueue DEF Recur, QueueTypes
    <3>2. CASE issues[i].status # "resolved"
      BY <1>1, <2>2, <3>2 DEF Recur, QueueTypes
    <3>. QED
      BY <3>1, <3>2
  <2>3. ASSUME NEW i \in DOMAIN issues, NEW s \in Statuses, PutStatus(i, s)
        PROVE  QueueTypes'
    BY <1>1, <2>3 DEF PutStatus, QueueTypes
  <2>. QED
    BY <2>1, <2>2, <2>3 DEF Write
<1>7. TableTypes'
  <2>1. issues' \in Seq(IssueRow) /\ Len(issues') <= MaxIssues
    <3>1. ASSUME NEW n \in Names, Create(n)
          PROVE  issues' \in Seq(IssueRow) /\ Len(issues') <= MaxIssues
      <4>1. [project |-> n, status |-> "unresolved"] \in IssueRow
        BY DEF IssueRow, Statuses
      <4>2. issues' = Append(issues, [project |-> n, status |-> "unresolved"])
        BY <3>1 DEF Create
      <4>3. issues \in Seq(IssueRow) /\ Len(issues) + 1 <= MaxIssues
        BY <1>1, <3>1 DEF Create, TableTypes
      <4>. QED
        BY <4>1, <4>2, <4>3, AppendProperties
    <3>2. ASSUME NEW i \in DOMAIN issues, NEW s \in Statuses,
                 issues' = [issues EXCEPT ![i].status = s]
          PROVE  issues' \in Seq(IssueRow) /\ Len(issues') <= MaxIssues
      <4>1. [issues[i] EXCEPT !.status = s] \in IssueRow
        BY <1>1, IssuesTyped DEF IssueRow
      <4>2. issues' = [issues EXCEPT ![i] = [issues[i] EXCEPT !.status = s]]
        BY <3>2
      <4>3. issues \in Seq(IssueRow) /\ Len(issues) <= MaxIssues
        BY <1>1 DEF TableTypes
      <4>. QED
        BY <1>1, <4>1, <4>2, <4>3, IssuesTyped, ExceptSeq
    <3>. QED
      BY <1>1, <3>1, <3>2 DEF Write, Recur, PutStatus, TableTypes, Statuses
  <2>. QED
    BY <1>1, <1>2, <2>1 DEF TableTypes
<1>. QED
  BY <1>3, <1>4, <1>6, <1>7
     DEF TypeOK, IssueRow, TableTypes, QueueTypes, TaskTypes, HistoryTypes

\* The rows that Touches names are rows there are (CreateProject, RenameProject).
LEMMA TouchedRows ==
  ASSUME TypeOK, NEW ns
  PROVE  Touches(ns) \subseteq 1 .. rows
<1>1. \A n \in DOMAIN projects : projects[n].id \in 1 .. rows
  BY DEF TypeOK
<1>2. Out => task.row \in 1 .. rows
  BY DEF TypeOK, Out, Idle
<1>. QED
  BY <1>1, <1>2 DEF Touches

\* The project console keeps the types.
LEMMA ConsoleTyped ==
  ASSUME TypeOK, Console PROVE TypeOK'
<1>1. TableTypes /\ QueueTypes /\ TaskTypes /\ HistoryTypes /\ spent \in [Outside -> Nat]
  BY TypeParts
<1>2. UNCHANGED <<queue, task>>
  BY DEF Console, CreateProject, SetWebhook, RenameProject, DeleteProject
<1>3. QueueTypes'
  BY <1>1, <1>2 DEF QueueTypes
<1>4. spent' \in [Outside -> Nat]
  BY <1>1, SpentTyped
     DEF Console, CreateProject, SetWebhook, RenameProject, DeleteProject, Outside
<1>5. HistoryTypes' /\ rows <= rows'
  <2>1. ASSUME NEW n \in Names, CreateProject(n) PROVE HistoryTypes' /\ rows <= rows'
    <3>1. rows' = rows + 1 /\ rows \in Nat /\ rows' \in 1 .. rows'
      BY <1>1, <2>1 DEF CreateProject, HistoryTypes
    <3>2. outcomes' \in [1 .. rows' -> Health]
      BY <1>1, <2>1, <3>1, ExtendedHistory DEF CreateProject, HistoryTypes, Health
    <3>3. unsettled' \subseteq 1 .. rows'
      <4>1. Touches({n}) \subseteq 1 .. rows /\ unsettled \subseteq 1 .. rows
        BY <1>1, TouchedRows DEF HistoryTypes
      <4>2. 1 .. rows \subseteq 1 .. rows'
        BY <3>1
      <4>3. unsettled' \subseteq unsettled \cup Touches({n}) \cup {rows'}
        BY <2>1 DEF CreateProject
      <4>. QED
        BY <3>1, <4>1, <4>2, <4>3
    <3>4. overtaken' = overtaken
      BY <2>1 DEF CreateProject
    <3>. QED
      BY <1>1, <3>1, <3>2, <3>3, <3>4 DEF HistoryTypes
  <2>2. ASSUME NEW n \in Names, NEW m \in Names, RenameProject(n, m)
        PROVE  HistoryTypes' /\ rows <= rows'
    BY <1>1, <2>2, TouchedRows DEF RenameProject, HistoryTypes
  <2>3. ASSUME UNCHANGED history PROVE HistoryTypes' /\ rows <= rows'
    BY <1>1, <2>3 DEF HistoryTypes, history
  <2>. QED
    BY <2>1, <2>2, <2>3 DEF Console, SetWebhook, DeleteProject
<1>6. TaskTypes'
  BY <1>1, <1>2, <1>5 DEF TaskTypes, HistoryTypes, Idle
<1>7. TableTypes'
  <2>. DEFINE PRow(r) == [id : 1 .. r, url : Urls \cup {NoUrl}, health : Health]
  <2>1. \A n \in DOMAIN projects : projects[n] \in PRow(rows) /\ projects[n] \in PRow(rows')
    BY <1>1, <1>5 DEF TableTypes, HistoryTypes
  <2>2. ASSUME NEW n \in Names, CreateProject(n) PROVE TableTypes'
    <3>1. rows' \in 1 .. rows'
      BY <1>1, <2>2 DEF CreateProject, HistoryTypes
    <3>2. Row(rows') \in PRow(rows')
      BY <3>1 DEF Row, Health
    <3>. HIDE DEF PRow
    <3>3. \A k \in DOMAIN projects' : projects'[k] \in PRow(rows')
      BY <2>1, <2>2, <3>2 DEF CreateProject
    <3>4. DOMAIN projects' \subseteq Names /\ issues' = issues
      BY <1>1, <2>2 DEF CreateProject, TableTypes
    <3>. QED
      BY <1>1, <3>3, <3>4 DEF TableTypes, PRow
  <2>3. ASSUME NEW n \in Names, NEW url \in Urls \cup {NoUrl}, SetWebhook(n, url)
        PROVE  TableTypes'
    <3>1. \A k \in DOMAIN projects' : projects'[k] \in PRow(rows')
      BY <2>1, <2>3 DEF SetWebhook
    <3>2. DOMAIN projects' = DOMAIN projects /\ issues' = issues
      BY <2>3 DEF SetWebhook
    <3>. QED
      BY <1>1, <3>1, <3>2 DEF TableTypes
  <2>4. ASSUME NEW n \in Names, NEW m \in Names, RenameProject(n, m)
        PROVE  TableTypes'
    <3>. HIDE DEF PRow
    <3>1. \A k \in DOMAIN projects' : projects'[k] \in PRow(rows')
      BY <2>1, <2>4 DEF RenameProject
    <3>2. DOMAIN projects' \subseteq Names
      BY <1>1, <2>4 DEF RenameProject, TableTypes
    <3>3. ASSUME NEW i \in DOMAIN issues
          PROVE  (IF issues[i].project = n THEN [issues[i] EXCEPT !.project = m]
                                           ELSE issues[i]) \in IssueRow
      BY <1>1, IssuesTyped DEF IssueRow
    <3>4. issues' \in [1 .. Len(issues) -> IssueRow] /\ Len(issues) \in Nat
      <4>1. DOMAIN issues = 1 .. Len(issues) /\ Len(issues) \in Nat
        BY <1>1, LenProperties DEF TableTypes
      <4>2. issues' \in [DOMAIN issues -> IssueRow]
        BY <2>4, <3>3 DEF RenameProject
      <4>. QED
        BY <4>1, <4>2
    <3>5. issues' \in Seq(IssueRow) /\ Len(issues') = Len(issues)
      BY <3>4, FunctionIsSeq
    <3>. QED
      BY <1>1, <3>1, <3>2, <3>5 DEF TableTypes, PRow
  <2>5. ASSUME NEW n \in Names, DeleteProject(n) PROVE TableTypes'
    <3>. HIDE DEF PRow
    <3>1. \A k \in DOMAIN projects' : projects'[k] \in PRow(rows')
      BY <2>1, <2>5 DEF DeleteProject
    <3>2. DOMAIN projects' \subseteq Names
      BY <1>1, <2>5 DEF DeleteProject, TableTypes
    <3>3. ASSUME NEW i \in DOMAIN issues
          PROVE  (IF issues[i].project = n THEN [issues[i] EXCEPT !.status = "gone"]
                                           ELSE issues[i]) \in IssueRow
      BY <1>1, IssuesTyped DEF IssueRow
    <3>4. issues' \in [1 .. Len(issues) -> IssueRow] /\ Len(issues) \in Nat
      <4>1. DOMAIN issues = 1 .. Len(issues) /\ Len(issues) \in Nat
        BY <1>1, LenProperties DEF TableTypes
      <4>2. issues' \in [DOMAIN issues -> IssueRow]
        BY <2>5, <3>3 DEF DeleteProject
      <4>. QED
        BY <4>1, <4>2
    <3>5. issues' \in Seq(IssueRow) /\ Len(issues') = Len(issues)
      BY <3>4, FunctionIsSeq
    <3>. QED
      BY <1>1, <3>1, <3>2, <3>5 DEF TableTypes, PRow
  <2>. QED
    BY <2>2, <2>3, <2>4, <2>5 DEF Console
<1>. QED
  BY <1>3, <1>4, <1>5, <1>6, <1>7
     DEF TypeOK, IssueRow, TableTypes, QueueTypes, TaskTypes, HistoryTypes

\* The webhook task keeps the types.
LEMMA WebhookTyped ==
  ASSUME TypeOK, Webhook PROVE TypeOK'
<1>1. TableTypes /\ QueueTypes /\ TaskTypes /\ HistoryTypes /\ spent \in [Outside -> Nat]
  BY TypeParts
<1>2. UNCHANGED <<issues, rows>>
  BY DEF Webhook, Recv, Lookup, NoResponse, Response, BodyEnds, Record, tables, history
<1>3. spent' \in [Outside -> Nat]
  BY <1>1, SpentTyped
     DEF Webhook, Recv, Lookup, NoResponse, Response, BodyEnds, Record, Outside
<1>4. CASE Recv
  <2>1. Head(queue) \in Trigger /\ Tail(queue) \in Seq(Trigger)
        /\ Len(Tail(queue)) <= QueueCap
    BY <1>1, <1>4, HeadTailProperties, AlertsAssumption, LenProperties DEF Recv, QueueTypes
  <2>2. QueueTypes'
    BY <1>4, <2>1 DEF Recv, QueueTypes
  <2>3. TaskTypes'
    BY <1>4, <2>1 DEF Recv, TaskTypes
  <2>. QED
    BY <1>1, <1>3, <1>4, <2>2, <2>3
       DEF Recv, tables, history, TypeOK, IssueRow, TableTypes, QueueTypes, TaskTypes,
           HistoryTypes
<1>5. CASE Lookup
  <2>1. task.trigger \in Trigger
    BY <1>1, <1>5 DEF Lookup, TaskTypes, Idle
  <2>2. \A n \in DOMAIN projects : projects[n].id \in 1 .. rows
    BY <1>1 DEF TableTypes
  <2>3. task' = Idle \/ \E r \in 1 .. rows : task' = [pc |-> "sent", trigger |-> task.trigger, row |-> r]
    BY <1>5, <2>2 DEF Lookup, Addressed, Calling
  <2>4. TaskTypes'
    BY <1>2, <2>1, <2>3 DEF TaskTypes
  <2>. QED
    BY <1>1, <1>3, <1>5, <2>4
       DEF Lookup, tables, history, TypeOK, IssueRow, TableTypes, QueueTypes, TaskTypes,
           HistoryTypes
<1>6. CASE NoResponse \/ Response \/ BodyEnds
  <2>1. /\ task.trigger \in Trigger
        /\ task.row \in 1 .. rows
        /\ task.pc = "body" => task.outcome \in Outcomes
    BY <1>1, <1>6 DEF NoResponse, Response, BodyEnds, TaskTypes, Idle
  <2>2. \E o \in Outcomes, pc \in {"body", "record"} :
          task' = [pc |-> pc, trigger |-> task.trigger, row |-> task.row, outcome |-> o]
    BY <1>6, <2>1 DEF NoResponse, Response, BodyEnds, Learn, Outcomes
  <2>3. TaskTypes'
    BY <1>2, <2>1, <2>2 DEF TaskTypes
  <2>4. outcomes' = outcomes \/ \E o \in Outcomes : outcomes' = [outcomes EXCEPT ![task.row] = o]
    BY <1>6, <2>1 DEF NoResponse, Response, BodyEnds, Learn, Outcomes, history
  <2>5. outcomes' \in [1 .. rows -> Health]
    BY <1>1, <2>1, <2>4 DEF HistoryTypes, Health
  <2>6. UNCHANGED <<projects, queue, unsettled, overtaken>>
    BY <1>6 DEF NoResponse, Response, BodyEnds, tables, history
  <2>. QED
    BY <1>1, <1>2, <1>3, <2>3, <2>5, <2>6
       DEF TypeOK, IssueRow, TableTypes, QueueTypes, TaskTypes, HistoryTypes
<1>7. CASE Record
  <2>1. /\ task.row \in 1 .. rows
        /\ task.outcome \in Health
    BY <1>1, <1>7 DEF Record, TaskTypes, Idle, Health
  <2>2. TaskTypes' /\ unsettled' \subseteq 1 .. rows
    BY <1>1, <1>7, <2>1 DEF Record, TaskTypes, HistoryTypes
  <2>3. TableTypes'
    <3>1. projects' = projects \/ projects' = [projects EXCEPT ![task.trigger.project].health = task.outcome]
      BY <1>7 DEF Record
    <3>. QED
      BY ZenonT(40), <1>1, <1>2, <2>1, <3>1 DEF TableTypes
  <2>. QED
    BY <1>1, <1>2, <1>3, <1>7, <2>2, <2>3
       DEF Record, TypeOK, IssueRow, TableTypes, QueueTypes, TaskTypes, HistoryTypes
<1>. QED
  BY <1>4, <1>5, <1>6, <1>7 DEF Webhook

\* A restart keeps the types.
LEMMA RestartTyped ==
  ASSUME TypeOK, Restart PROVE TypeOK'
<1>1. Out => task.row \in 1 .. rows
  BY DEF TypeOK, Out, Idle
<1>2. unsettled' \subseteq 1 .. rows
  BY <1>1 DEF Restart, TypeOK
<1>3. spent' \in [Outside -> Nat]
  BY SpentTyped DEF Restart, TypeOK, Outside
<1>4. queue' \in Seq(Trigger) /\ Len(queue') <= QueueCap
  BY AlertsAssumption DEF Restart
<1>. QED
  BY <1>2, <1>3, <1>4 DEF Restart, TypeOK, tables

\* The channel keeps to its capacity and every call to its row, for any names,
\* URLs, capacity and bounds (main.rs, webhook.rs).
THEOREM AlertsTyped == Spec => []TypeOK
<1>1. Init => TypeOK
  <2>. SUFFICES ASSUME Init PROVE TypeOK
    OBVIOUS
  <2>1. issues \in Seq(IssueRow) /\ Len(issues) <= MaxIssues
    BY AlertsAssumption DEF Init
  <2>2. queue \in Seq(Trigger) /\ Len(queue) <= QueueCap
    BY AlertsAssumption DEF Init
  <2>3. rows = 0 /\ outcomes \in [1 .. rows -> Health] /\ unsettled \subseteq 1 .. rows
    BY DEF Init
  <2>. QED
    BY <2>1, <2>2, <2>3 DEF Init, TypeOK, IssueRow
<1>2. TypeOK /\ [Next]_vars => TypeOK'
  <2>. SUFFICES ASSUME TypeOK, [Next]_vars PROVE TypeOK'
    OBVIOUS
  <2>1. CASE Next
    BY <2>1, WriteTyped, ConsoleTyped, WebhookTyped, RestartTyped DEF Next
  <2>2. CASE UNCHANGED vars
    BY <2>2 DEF vars, tables, history, TypeOK
  <2>. QED
    BY <2>1, <2>2
<1>. QED
  BY <1>1, <1>2, PTL DEF Spec

----------------------------------------------------------------------------
(***************************************************************************)
(* Muted and ignored issues                                                *)
(***************************************************************************)

\* A waiting trigger is of an issue there is, and of a silenced one only if that
\* was triaged meanwhile.
Excused(t) ==
  /\ t.issue \in 1 .. Len(issues)
  /\ Silenced(t.issue) => t.issue \in overtaken

WaitingInv == \A t \in Waiting : Excused(t)

\* Where issues and triage stay, so does the excuse of what waits still.
LEMMA FewerWait ==
  ASSUME WaitingInv, UNCHANGED <<issues, overtaken>>, Waiting' \subseteq Waiting
  PROVE  WaitingInv'
BY DEF WaitingInv, Excused, Silenced

\* An offer adds the trigger to those that wait, or nothing.
LEMMA OfferWaits ==
  ASSUME TypeOK, NEW t \in Trigger, Offer(t), UNCHANGED task
  PROVE  Waiting' \subseteq Waiting \cup {t}
<1>1. queue \in Seq(Trigger) /\ Len(queue) <= QueueCap
  BY DEF TypeOK
<1>2. \A k \in 1 .. Len(queue') :
        queue'[k] = t \/ (k \in 1 .. Len(queue) /\ queue'[k] = queue[k])
  BY <1>1, OfferKeepsQueue
<1>. QED BY <1>2 DEF Waiting

\* What the digest task and the triage endpoint do keeps the excuses.
LEMMA WriteExcused ==
  ASSUME TypeOK, WaitingInv, Write PROVE WaitingInv'
<1>0. issues \in Seq(IssueRow) /\ Len(issues) \in Nat
  BY LenProperties, TypeParts DEF TableTypes
<1>1. ASSUME NEW n \in Names, Create(n) PROVE WaitingInv'
  <2> DEFINE row == [project |-> n, status |-> "unresolved"]
  <2>0. [issue |-> Len(issues) + 1, project |-> n, status |-> "unresolved"] \in Trigger
    <3>1. Len(issues) + 1 \in 1 .. MaxIssues
      BY <1>0, <1>1, AlertsAssumption DEF Create
    <3>. QED BY <3>1, TriggerTyped
  <2>. PICK t \in Trigger :
         t = [issue |-> Len(issues) + 1, project |-> n, status |-> "unresolved"]
    BY <2>0
  <2>1. row \in IssueRow
    BY DEF IssueRow, Statuses
  <2>2. issues' = Append(issues, row) /\ Offer(t) /\ UNCHANGED <<task, overtaken>>
    BY <1>1 DEF Create, history
  <2>3. /\ Len(issues') = Len(issues) + 1
        /\ \A i \in 1 .. Len(issues) : issues'[i] = issues[i]
        /\ issues'[Len(issues) + 1].status = "unresolved"
    BY <1>0, <2>1, <2>2, AppendProperties
  <2>4. t.issue = Len(issues) + 1
    OBVIOUS
  <2>. HIDE DEF row
  <2>5. Waiting' \subseteq Waiting \cup {t}
    BY <2>1, <2>2, OfferWaits
  <2>6. Excused(t)'
    BY <1>0, <2>3, <2>4 DEF Excused, Silenced
  <2>7. \A w \in Waiting : Excused(w)'
    BY <1>0, <2>2, <2>3 DEF WaitingInv, Excused, Silenced
  <2>. QED BY <2>5, <2>6, <2>7 DEF WaitingInv
<1>2. ASSUME NEW i \in DOMAIN issues, Recur(i) PROVE WaitingInv'
  <2>1. CASE issues[i].status = "resolved"
    <3>1. /\ i \in 1 .. Len(issues) /\ issues[i] \in IssueRow
          /\ [issue |-> i, project |-> issues[i].project, status |-> "unresolved"] \in Trigger
      BY TypeParts, IssuesTyped, TriggerTyped
    <3>. PICK t \in Trigger :
           t = [issue |-> i, project |-> issues[i].project, status |-> "unresolved"]
      BY <3>1
    <3>2. /\ issues' = [issues EXCEPT ![i].status = "unresolved"]
          /\ Offer(t) /\ UNCHANGED <<task, overtaken>>
      BY <1>2, <2>1 DEF Recur, history
    <3>3. /\ Len(issues') = Len(issues) /\ issues'[i].status = "unresolved"
          /\ \A j \in 1 .. Len(issues) : j # i => issues'[j] = issues[j]
      BY <1>0, <3>1, <3>2 DEF IssueRow
    <3>4. t.issue = i
      OBVIOUS
    <3>5. Waiting' \subseteq Waiting \cup {t}
      BY <3>1, <3>2, OfferWaits
    <3>6. Excused(t)'
      BY <3>1, <3>3, <3>4 DEF Excused, Silenced
    <3>7. \A w \in Waiting : Excused(w)'
      BY <3>1, <3>2, <3>3 DEF WaitingInv, Excused, Silenced
    <3>. QED BY <3>5, <3>6, <3>7 DEF WaitingInv
  <2>2. CASE issues[i].status # "resolved"
    <3>1. UNCHANGED <<issues, queue, task, overtaken>>
      BY <1>2, <2>2 DEF Recur, history
    <3>. QED BY <3>1, FewerWait DEF Waiting
  <2>. QED BY <2>1, <2>2
<1>3. ASSUME NEW i \in DOMAIN issues, NEW s \in Statuses, PutStatus(i, s)
      PROVE  WaitingInv'
  <2>1. /\ issues' = [issues EXCEPT ![i].status = s] /\ UNCHANGED <<queue, task>>
        /\ overtaken' = IF \E t \in Waiting : t.issue = i THEN overtaken \cup {i}
                                                         ELSE overtaken \ {i}
    BY <1>3 DEF PutStatus
  <2>2. Waiting' = Waiting
    BY <2>1 DEF Waiting
  <2>3. Len(issues') = Len(issues) /\ \A j \in 1 .. Len(issues) : j # i => issues'[j] = issues[j]
    BY <1>0, <2>1
  <2>4. \A w \in Waiting : Excused(w)'
    BY <2>1, <2>3 DEF WaitingInv, Excused, Silenced
  <2>. QED BY <2>2, <2>4 DEF WaitingInv
<1>. QED BY <1>1, <1>2, <1>3 DEF Write

\* The console's steps: a rename leaves the statuses, a delete has none left.
LEMMA ConsoleExcused ==
  ASSUME TypeOK, WaitingInv, Console PROVE WaitingInv'
<1>0. issues \in Seq(IssueRow) /\ Len(issues) \in Nat
  BY LenProperties, TypeParts DEF TableTypes
<1>1. UNCHANGED <<queue, task, overtaken>>
  BY DEF Console, CreateProject, SetWebhook, RenameProject, DeleteProject, history
<1>2. Waiting' = Waiting
  BY <1>1 DEF Waiting
<1>3. /\ Len(issues') = Len(issues)
      /\ \A i \in 1 .. Len(issues) :
           issues'[i].status = issues[i].status \/ issues'[i].status = "gone"
  <2>1. ASSUME NEW n \in Names, NEW m \in Names, RenameProject(n, m)
        PROVE  /\ Len(issues') = Len(issues)
               /\ \A i \in 1 .. Len(issues) : issues'[i].status = issues[i].status
    <3>1. issues' = [i \in DOMAIN issues |->
                       IF issues[i].project = n THEN [issues[i] EXCEPT !.project = m]
                                                ELSE issues[i]]
      BY <2>1 DEF RenameProject
    <3>2. \A i \in 1 .. Len(issues) : issues[i] \in IssueRow
      BY <1>0
    <3>. QED BY <1>0, <3>1, <3>2 DEF IssueRow
  <2>2. ASSUME NEW n \in Names, DeleteProject(n)
        PROVE  /\ Len(issues') = Len(issues)
               /\ \A i \in 1 .. Len(issues) :
                    issues'[i].status = issues[i].status \/ issues'[i].status = "gone"
    <3>1. issues' = [i \in DOMAIN issues |->
                       IF issues[i].project = n THEN [issues[i] EXCEPT !.status = "gone"]
                                                ELSE issues[i]]
      BY <2>2 DEF DeleteProject
    <3>2. \A i \in 1 .. Len(issues) : issues[i] \in IssueRow
      BY <1>0
    <3>. QED BY <1>0, <3>1, <3>2 DEF IssueRow
  <2>. QED BY <2>1, <2>2 DEF Console, CreateProject, SetWebhook
<1>. QED BY <1>1, <1>2, <1>3 DEF WaitingInv, Excused, Silenced

\* The webhook task and a restart only take triggers away.
LEMMA TaskExcused ==
  ASSUME TypeOK, WaitingInv, Webhook \/ Restart PROVE WaitingInv'
<1>1. UNCHANGED <<issues, overtaken>>
  BY DEF Webhook, Recv, Lookup, NoResponse, Response, BodyEnds, Record, Restart, tables,
     history
<1>2. Waiting' \subseteq Waiting
  <2>1. CASE Recv
    <3>1. queue \in Seq(Trigger) /\ queue # <<>>
      BY <2>1 DEF Recv, TypeOK
    <3>2. /\ queue' = Tail(queue)
          /\ task'.pc = "lookup" => task'.trigger = Head(queue)
      BY <2>1 DEF Recv, Idle
    <3>3. \A k \in 1 .. Len(queue') : k + 1 \in 1 .. Len(queue) /\ queue'[k] = queue[k + 1]
      BY <3>1, <3>2, HeadTailProperties, LenProperties
    <3>4. Head(queue) = queue[1] /\ 1 \in 1 .. Len(queue)
      BY <3>1, LenProperties
    <3>. QED BY <3>2, <3>3, <3>4 DEF Waiting
  <2>2. CASE Restart
    BY <2>2 DEF Restart, Waiting, Idle
  <2>3. CASE Lookup \/ NoResponse \/ Response \/ BodyEnds \/ Record
    <3>1. queue' = queue /\ task'.pc # "lookup"
      BY <2>3 DEF Lookup, NoResponse, Response, BodyEnds, Record, Learn, Calling, Idle
    <3>. QED BY <3>1 DEF Waiting
  <2>. QED BY <2>1, <2>2, <2>3 DEF Webhook
<1>. QED BY <1>1, <1>2, FewerWait

\* CONFIGURATION.md:201, "Muted and ignored issues never fire webhooks", as it
\* holds for any names, capacity and bounds: no event of such an issue leads to a
\* call, but a trigger that waited when the issue was triaged does.  The
\* invariant says so of every trigger that waits.
THEOREM OnlyOvertakenEverFire == Spec => OnlyOvertakenFire
<1>1. Init => WaitingInv
  BY DEF Init, Idle, WaitingInv, Waiting
<1>2. TypeOK /\ WaitingInv /\ [Next]_vars => WaitingInv'
  <2> SUFFICES ASSUME TypeOK, WaitingInv, [Next]_vars PROVE WaitingInv'
    OBVIOUS
  <2>1. CASE UNCHANGED vars
    BY <2>1, FewerWait DEF vars, tables, history, Waiting
  <2>. QED BY <2>1, WriteExcused, ConsoleExcused, TaskExcused DEF Next
<1>3. WaitingInv =>
        (task.pc = "lookup" /\ task'.pc = "sent" /\ Silenced(task.trigger.issue)
           => task.trigger.issue \in overtaken)
  BY DEF WaitingInv, Waiting, Excused
<1>. QED
  BY <1>1, <1>2, <1>3, AlertsTyped, PTL DEF Spec, OnlyOvertakenFire

----------------------------------------------------------------------------
(***************************************************************************)
(* Delivery health                                                         *)
(***************************************************************************)

\* Steps that leave projects, the call and its histories alone (Write).
LEMMA HealthUnmoved ==
  ASSUME HealthInv, UNCHANGED <<projects, task, outcomes, unsettled>>
  PROVE  HealthInv'
BY DEF HealthInv, RowsDistinct, CallOnItsRow, OutcomeKept, HealthIsLastOutcome, Out,
       Recording

\* A console operation marks the rows of the names it changes under a call.
LEMMA ConsoleKeepsHealth ==
  ASSUME TypeOK, HealthInv, Console PROVE HealthInv'
<1>. USE DEF HealthInv
<1>1. \A n \in DOMAIN projects : projects[n].id \in 1 .. rows
  BY DEF TypeOK
<1>2. task' = task /\ (Out => task.row \in 1 .. rows)
  <2>1. task' = task
    BY DEF Console, CreateProject, SetWebhook, RenameProject, DeleteProject
  <2>2. Out => task.row \in 1 .. rows
    BY DEF TypeOK, Out, Idle
  <2>. QED
    BY <2>1, <2>2
<1>3. rows \in Nat /\ outcomes \in [1 .. rows -> Health]
  BY DEF TypeOK
<1>4. ASSUME NEW n \in Names, CreateProject(n) PROVE HealthInv'
  <2>1. rows + 1 \notin 1 .. rows
    BY <1>3
  <2>2. /\ DOMAIN projects' = DOMAIN projects \cup {n}
        /\ \A k \in DOMAIN projects : projects'[k] = projects[k]
        /\ projects'[n] = Row(rows + 1)
        /\ n \notin DOMAIN projects
    BY <1>4 DEF CreateProject
  <2>3. /\ \A i \in 1 .. rows : outcomes'[i] = outcomes[i]
        /\ outcomes'[rows + 1] = "never"
    BY <1>3, <1>4, ExtendedHistory DEF CreateProject, Health
  <2>4. unsettled \subseteq unsettled'
    BY <1>4 DEF CreateProject
  <2>5. RowsDistinct'
    BY <1>1, <2>1, <2>2 DEF RowsDistinct, Row
  <2>6. HealthIsLastOutcome'
    BY <1>1, <1>2, <2>2, <2>3, <2>4 DEF HealthIsLastOutcome, Row, Recording
  <2>7. OutcomeKept'
    BY <1>2, <2>3 DEF OutcomeKept, Out
  <2>8. CallOnItsRow'
    <3>. SUFFICES ASSUME Out PROVE CallOnItsRow'
      BY <1>2 DEF CallOnItsRow, Out
    <3>1. CASE task.trigger.project = n
      <4>1. task.row \in unsettled' /\ rows + 1 \in unsettled'
        BY <1>4, <3>1 DEF CreateProject, Touches
      <4>. QED
        BY <1>2, <2>2, <3>1, <4>1 DEF CallOnItsRow, Row
    <3>2. CASE task.trigger.project # n
      BY <1>2, <2>1, <2>2, <2>4, <3>2 DEF CallOnItsRow, Row
    <3>. QED
      BY <3>1, <3>2
  <2>. QED
    BY <2>5, <2>6, <2>7, <2>8
<1>5. ASSUME NEW n \in Names, NEW url \in Urls \cup {NoUrl}, SetWebhook(n, url)
      PROVE  HealthInv'
  <2>1. /\ DOMAIN projects' = DOMAIN projects
        /\ \A k \in DOMAIN projects : /\ projects'[k].id = projects[k].id
                                      /\ projects'[k].health = projects[k].health
        /\ UNCHANGED <<outcomes, unsettled>>
    BY <1>5 DEF SetWebhook, history, TypeOK
  <2>. QED
    BY <1>2, <2>1
       DEF RowsDistinct, CallOnItsRow, OutcomeKept, HealthIsLastOutcome, Out, Recording
<1>6. ASSUME NEW n \in Names, NEW m \in Names, RenameProject(n, m) PROVE HealthInv'
  <2>1. /\ n \in DOMAIN projects /\ m \notin DOMAIN projects
        /\ DOMAIN projects' = (DOMAIN projects \ {n}) \cup {m}
        /\ projects'[m] = projects[n]
        /\ \A k \in DOMAIN projects \ {n} : projects'[k] = projects[k]
        /\ outcomes' = outcomes
        /\ unsettled' = unsettled \cup Touches({n, m})
    BY <1>6 DEF RenameProject
  <2>2. RowsDistinct'
    BY <2>1 DEF RowsDistinct
  <2>3. HealthIsLastOutcome'
    BY <1>2, <2>1 DEF HealthIsLastOutcome, Recording
  <2>4. OutcomeKept'
    BY <1>2, <2>1 DEF OutcomeKept
  <2>5. CallOnItsRow'
    <3>. SUFFICES ASSUME Out PROVE CallOnItsRow'
      BY <1>2 DEF CallOnItsRow, Out
    <3>1. CASE task.trigger.project \in {n, m}
      <4>1. task.row \in unsettled' /\ projects[n].id \in unsettled'
        BY <2>1, <3>1 DEF Touches
      <4>. QED
        BY <1>2, <2>1, <3>1, <4>1 DEF CallOnItsRow
    <3>2. CASE task.trigger.project \notin {n, m}
      BY <1>2, <2>1, <3>2 DEF CallOnItsRow
    <3>. QED
      BY <3>1, <3>2
  <2>. QED
    BY <2>2, <2>3, <2>4, <2>5
<1>7. ASSUME NEW n \in Names, DeleteProject(n) PROVE HealthInv'
  <2>1. /\ DOMAIN projects' = DOMAIN projects \ {n}
        /\ \A k \in DOMAIN projects' : projects'[k] = projects[k]
        /\ UNCHANGED <<outcomes, unsettled>>
    BY <1>7 DEF DeleteProject, history
  <2>. QED
    BY <1>2, <2>1
       DEF RowsDistinct, CallOnItsRow, OutcomeKept, HealthIsLastOutcome, Out, Recording
<1>. QED
  BY <1>4, <1>5, <1>6, <1>7 DEF Console

\* The webhook task notes what it learnt on the row it called, or on a marked one.
LEMMA WebhookKeepsHealth ==
  ASSUME TypeOK, HealthInv, Webhook PROVE HealthInv'
<1>. USE DEF HealthInv
<1>1. outcomes \in [1 .. rows -> Health]
  BY DEF TypeOK
<1>2. CASE Recv
  <2>1. UNCHANGED <<projects, outcomes, unsettled>> /\ task'.pc \in {"recv", "lookup"}
        /\ task.pc = "recv"
    BY <1>2 DEF Recv, tables, history, Idle
  <2>. QED
    BY <2>1 DEF RowsDistinct, CallOnItsRow, OutcomeKept, HealthIsLastOutcome, Out,
                Recording
<1>3. CASE Lookup
  <2>1. UNCHANGED <<projects, outcomes, unsettled>> /\ task.pc = "lookup"
    BY <1>3 DEF Lookup, tables, history
  <2>2. CASE task' = Idle
    BY <2>1, <2>2 DEF RowsDistinct, CallOnItsRow, OutcomeKept, HealthIsLastOutcome, Out,
                      Recording, Idle
  <2>3. CASE /\ task.trigger.project \in DOMAIN projects
             /\ task' = Calling(task.trigger, projects[task.trigger.project])
    BY <2>1, <2>3 DEF RowsDistinct, CallOnItsRow, OutcomeKept, HealthIsLastOutcome, Out,
                      Recording, Calling
  <2>. QED
    BY <1>3, <2>2, <2>3 DEF Lookup, Addressed
<1>4. CASE Response
  <2>1. /\ UNCHANGED <<projects, outcomes, unsettled>>
        /\ task.pc = "sent" /\ task'.pc = "body"
        /\ task'.trigger = task.trigger /\ task'.row = task.row
    BY <1>4 DEF Response, tables, history
  <2>. QED
    BY <2>1 DEF RowsDistinct, CallOnItsRow, OutcomeKept, HealthIsLastOutcome, Out,
                Recording
<1>5. CASE NoResponse \/ BodyEnds
  <2>1. task.row \in 1 .. rows
    BY <1>5 DEF NoResponse, BodyEnds, TypeOK, Idle
  <2>2. /\ UNCHANGED <<projects, unsettled>>
        /\ Out /\ task.pc # "record" /\ task'.pc = "record"
        /\ task'.trigger = task.trigger /\ task'.row = task.row
        /\ outcomes' = [outcomes EXCEPT ![task.row] = task'.outcome]
    BY <1>5 DEF NoResponse, BodyEnds, Learn, tables, Out
  <2>3. CallOnItsRow' /\ RowsDistinct' /\ OutcomeKept'
    BY <1>1, <2>1, <2>2 DEF RowsDistinct, CallOnItsRow, OutcomeKept, Out
  <2>4. ASSUME NEW n \in DOMAIN projects, projects[n].id # task.row
        PROVE  outcomes'[projects[n].id] = outcomes[projects[n].id]
    BY <1>1, <2>2, <2>4 DEF TypeOK
  <2>5. HealthIsLastOutcome'
    BY <2>2, <2>4 DEF HealthIsLastOutcome, Recording
  <2>. QED
    BY <2>3, <2>5
<1>6. CASE Record
  <2>. DEFINE n == task.trigger.project
  <2>1. /\ Out /\ task.pc = "record" /\ task' = Idle
        /\ outcomes' = outcomes
        /\ unsettled \subseteq unsettled'
    BY <1>6 DEF Record, Out
  <2>2. CallOnItsRow' /\ OutcomeKept'
    BY <2>1 DEF CallOnItsRow, OutcomeKept, Out, Idle
  <2>3. CASE projects' = projects /\ task.row \in unsettled'
    BY <2>1, <2>2, <2>3 DEF RowsDistinct, HealthIsLastOutcome, Recording
  <2>4. CASE n \notin DOMAIN projects /\ projects' = projects
    BY <2>1, <2>2, <2>4 DEF RowsDistinct, HealthIsLastOutcome, Recording, CallOnItsRow
  <2>5. CASE n \in DOMAIN projects /\ projects' = [projects EXCEPT ![n].health = task.outcome]
    <3>1. /\ DOMAIN projects' = DOMAIN projects
          /\ \A k \in DOMAIN projects : projects'[k].id = projects[k].id
          /\ \A k \in DOMAIN projects : k # n => projects'[k].health = projects[k].health
          /\ projects'[n].health = task.outcome
      BY <2>5 DEF TypeOK
    <3>2. RowsDistinct'
      BY <3>1 DEF RowsDistinct
    <3>3. HealthIsLastOutcome'
      BY <2>1, <2>5, <3>1
         DEF RowsDistinct, HealthIsLastOutcome, Recording, CallOnItsRow, OutcomeKept
    <3>. QED
      BY <2>2, <3>2, <3>3
  <2>. QED
    BY <1>6, <2>3, <2>4, <2>5 DEF Record
<1>. QED
  BY <1>2, <1>3, <1>4, <1>5, <1>6 DEF Webhook

\* A call a restart cuts off is marked.
LEMMA RestartKeepsHealth ==
  ASSUME HealthInv, Restart PROVE HealthInv'
<1>1. /\ UNCHANGED <<projects, outcomes>> /\ task' = Idle
      /\ unsettled \subseteq unsettled'
      /\ Out => task.row \in unsettled'
  BY DEF Restart, tables
<1>2. RowsDistinct' /\ CallOnItsRow' /\ OutcomeKept'
  BY <1>1 DEF HealthInv, RowsDistinct, CallOnItsRow, OutcomeKept, Out, Idle
<1>3. HealthIsLastOutcome'
  BY <1>1 DEF HealthInv, HealthIsLastOutcome, Recording, Out
<1>. QED
  BY <1>2, <1>3 DEF HealthInv

\* A project's row tells the outcome of the last call to its URL, or that call
\* is being recorded, or it is one of the rows the code loses track of: a rename
\* or a creation during the call, a failed record, a restart (store.rs:951).
THEOREM HealthAlwaysLast == Spec => []HealthIsLastOutcome
<1>1. Init => HealthInv
  BY DEF Init, HealthInv, RowsDistinct, CallOnItsRow, OutcomeKept, HealthIsLastOutcome,
         Out, Idle
<1>2. TypeOK /\ HealthInv /\ [Next]_vars => HealthInv'
  <2>. SUFFICES ASSUME TypeOK, HealthInv, [Next]_vars PROVE HealthInv'
    OBVIOUS
  <2>1. CASE Write \/ UNCHANGED vars
    BY <2>1, HealthUnmoved
       DEF Write, Create, Recur, PutStatus, vars, tables, history
  <2>. QED
    BY <2>1, ConsoleKeepsHealth, WebhookKeepsHealth, RestartKeepsHealth DEF Next
<1>3. HealthInv => HealthIsLastOutcome
  BY DEF HealthInv
<1>. QED
  BY <1>1, <1>2, <1>3, AlertsTyped, PTL DEF Spec
=============================================================================
