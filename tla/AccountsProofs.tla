--------------------------- MODULE AccountsProofs ---------------------------
(***************************************************************************)
(* Safety of Accounts for every value of its constants; and of the lockout *)
(* and of sessions over time, for any times.                               *)
(***************************************************************************)
EXTENDS MCAccounts, FiniteSetTheorems, SequenceTheorems, NaturalsInduction,
        WellFoundedInduction, TLAPS

----------------------------------------------------------------------------
(***************************************************************************)
(* Types                                                                   *)
(***************************************************************************)

Request == {Free, Panicked} \cup SignInRequest \cup TeamRequest

\* The pcs a running operation may go to.
PcsAfter ==
  [setup  |-> {"create", "record", "session"},
   login  |-> {"verify", "active", "record", "session", "reread"},
   patch  |-> {"second", "count", "password", "role", "active", "reply"},
   delete |-> {"count", "delete"},
   revoke |-> {"second"}]

\* The initial values are of their types.
LEMMA InitType == ASSUME Init PROVE TypeOK
BY DEF Init, TypeOK, NoUsers

\* A request spent is one more.
LEMMA SpendType ==
  ASSUME TypeOK, NEW kind \in Outside, Spend(kind)
  PROVE  spent' \in [Outside -> Nat]
BY DEF TypeOK, Spend

\* A handler that begins a well-formed request.
LEMMA BeginType ==
  ASSUME TypeOK, NEW r \in Requests, NEW kind \in Outside, NEW q \in Request,
         Begin(r, kind, q)
  PROVE  requests' \in [Requests -> Request] /\ spent' \in [Outside -> Nat]
<1>1. spent' \in [Outside -> Nat]
  BY SpendType DEF Begin
<1>2. requests' = [requests EXCEPT ![r] = q] /\ requests \in [Requests -> Request]
  BY DEF Begin, TypeOK, Request
<1>. QED BY <1>1, <1>2

\* A handler that ends.
LEMMA EndType ==
  ASSUME TypeOK, NEW r \in Requests, End(r) \/ Panic(r)
  PROVE  requests' \in [Requests -> Request]
<1>1. requests \in [Requests -> Request] /\ Free \in Request /\ Panicked \in Request
  BY DEF TypeOK, Request
<1>. QED BY <1>1 DEF End, Panic

\* The request of a handler that is not idle is of its operation's kind.
LEMMA RequestKinds ==
  ASSUME TypeOK, NEW r \in Requests
  PROVE  /\ requests[r].op \in {"setup", "login"} => requests[r] \in SignInRequest
         /\ requests[r].op \in {"create", "patch", "delete", "revoke"} =>
              requests[r] \in TeamRequest
         /\ requests[r].op \in {"none", "panicked", "setup", "login", "create",
                                "patch", "delete", "revoke"}
BY DEF TypeOK, SignInRequest, TeamRequest, Free, Panicked

\* A new pc that the operation has keeps the request's kind.
LEMMA MovedSignIn ==
  ASSUME NEW q \in SignInRequest, NEW pc \in PcsAfter[q.op]
  PROVE  [q EXCEPT !.pc = pc] \in SignInRequest
BY DEF SignInRequest, PcsAfter

\* The same of the team console, whose PATCH goes only to fields it has.
LEMMA MovedTeam ==
  ASSUME NEW q \in TeamRequest, q.op # "create", NEW pc \in PcsAfter[q.op],
         pc = "password" => q.password = "strong",
         pc = "role" => q.role # "absent",
         pc = "active" /\ q.op = "patch" => q.active # "absent"
  PROVE  [q EXCEPT !.pc = pc] \in TeamRequest
<1>1. CASE q.op = "patch"
  <2>1. /\ q = [op |-> "patch", pc |-> q.pc, user |-> q.user, role |-> q.role,
                active |-> q.active, password |-> q.password]
        /\ q.user \in Users /\ q.role \in Roles \cup {"absent"}
        /\ q.active \in Flags /\ q.password \in Passwords
    BY <1>1 DEF TeamRequest, Flags, Passwords
  <2>2. pc \in {"second", "count", "password", "role", "active", "reply"}
    BY <1>1 DEF PcsAfter
  <2>3. [q EXCEPT !.pc = pc]
          = [op |-> "patch", pc |-> pc, user |-> q.user, role |-> q.role,
             active |-> q.active, password |-> q.password]
    BY <2>1
  <2>. QED BY <1>1, <2>1, <2>2, <2>3 DEF TeamRequest, Flags
<1>2. CASE q.op \in {"delete", "revoke"}
  <2>1. /\ q = [op |-> q.op, pc |-> q.pc, user |-> q.user, role |-> "absent",
                active |-> "absent", password |-> "absent"]
        /\ q.user \in Users
    BY <1>2 DEF TeamRequest
  <2>2. [q EXCEPT !.pc = pc]
          = [op |-> q.op, pc |-> pc, user |-> q.user, role |-> "absent",
             active |-> "absent", password |-> "absent"]
    BY <2>1
  <2>. QED BY <1>2, <2>1, <2>2 DEF TeamRequest, PcsAfter
<1>. QED BY <1>1, <1>2 DEF TeamRequest

\* So a step from pc to pc keeps the type of requests.
LEMMA GotoType ==
  ASSUME TypeOK, NEW r \in Requests, NEW pc, Goto(r, pc),
         requests[r].op \in DOMAIN PcsAfter, pc \in PcsAfter[requests[r].op],
         pc = "password" => requests[r].password = "strong",
         pc = "role" => requests[r].role # "absent",
         pc = "active" /\ requests[r].op = "patch" => requests[r].active # "absent"
  PROVE  requests' \in [Requests -> Request]
<1> DEFINE q == [requests[r] EXCEPT !.pc = pc]
<1>1. requests' = [requests EXCEPT ![r] = q] /\ requests \in [Requests -> Request]
  BY DEF Goto, TypeOK, Request
<1>2. requests[r].op \in {"setup", "login", "patch", "delete", "revoke"}
  BY DEF PcsAfter
<1>3. q \in SignInRequest \/ q \in TeamRequest
  BY <1>2, RequestKinds, MovedSignIn, MovedTeam
<1>4. q \in Request
  BY <1>3 DEF Request
<1>. QED BY <1>1, <1>4

\* The parts of TypeOK that few actions write.
UsersTyped ==
  /\ DOMAIN users \subseteq Users
  /\ users \in [DOMAIN users -> [role : Roles, active : BOOLEAN]]

CountsTyped ==
  /\ sessions \in [Users -> Nat]
  /\ userFails \in [Users -> Nat]
  /\ ipFails \in [Ips -> Nat]
  /\ overtaken \in [Users -> Nat]
  /\ spent \in [Outside -> Nat]

\* TypeOK is its parts.
LEMMA TypeParts ==
  TypeOK <=> UsersTyped /\ CountsTyped /\ requests \in [Requests -> Request]
BY DEF TypeOK, UsersTyped, CountsTyped, Request

\* And so in the next state.
LEMMA TypePartsNext ==
  TypeOK' <=> UsersTyped' /\ CountsTyped' /\ (requests \in [Requests -> Request])'
BY DEF TypeOK, UsersTyped, CountsTyped, Request

\* An action that only moves or ends a handler.
Quiet == UNCHANGED <<users, sessions, attempts, overtaken, spent>>

\* A quiet action only has to keep the requests' type.
LEMMA QuietType ==
  ASSUME TypeOK, Quiet, requests' \in [Requests -> Request]
  PROVE  TypeOK'
BY TypeParts, TypePartsNext DEF Quiet, UsersTyped, CountsTyped, attempts, Request,
   SignInRequest, TeamRequest, Free, Panicked

\* A new row keeps the table's type.
LEMMA AddedRow ==
  ASSUME UsersTyped, NEW u \in Users, NEW role \in Roles,
         users' = [v \in DOMAIN users \cup {u} |->
                     IF v = u THEN Row(role, TRUE) ELSE users[v]]
  PROVE  UsersTyped'
BY DEF UsersTyped, Row

\* One more in a function to Nat.
LEMMA BumpType ==
  ASSUME NEW S, NEW f \in [S -> Nat], NEW x \in S
  PROVE  [f EXCEPT ![x] = @ + 1] \in [S -> Nat]
OBVIOUS

\* Every action keeps TypeOK.
LEMMA TypeStep == ASSUME TypeOK, [Next]_vars PROVE TypeOK'
<1>1. UsersTyped /\ CountsTyped /\ requests \in [Requests -> Request]
  BY TypeParts
<1>2. CASE UNCHANGED vars
  BY <1>1, <1>2, QuietType DEF vars, Quiet
<1>3. ASSUME NEW u \in Users, EndSession(u) PROVE TypeOK'
  <2>1. spent' \in [Outside -> Nat]
    BY <1>3, SpendType DEF EndSession, Outside
  <2>2. sessions' \in [Users -> Nat]
    BY <1>1, <1>3 DEF EndSession, CountsTyped
  <2>. QED BY <1>1, <1>3, <2>1, <2>2, TypePartsNext
           DEF EndSession, attempts, UsersTyped, CountsTyped
<1>4. ASSUME NEW r \in Requests, SignIn(r) PROVE TypeOK'
  <2>1. ASSUME NEW u \in Users, NEW right \in BOOLEAN, NEW ip \in Ips,
               BeginSetup(r, u, right, ip) \/ BeginLogin(r, u, right, ip)
        PROVE  TypeOK'
    <3>1. CASE BeginSetup(r, u, right, ip)
      <4> DEFINE q == [op |-> "setup", pc |-> "lockout", user |-> u, right |-> right, ip |-> ip]
      <4>1. q \in Request
        BY DEF Request, SignInRequest
      <4>2. requests' \in [Requests -> Request] /\ spent' \in [Outside -> Nat]
        BY <3>1, <4>1, BeginType DEF BeginSetup, Outside
      <4>. QED BY <1>1, <3>1, <4>2, TypePartsNext
               DEF BeginSetup, attempts, UsersTyped, CountsTyped
    <3>2. CASE BeginLogin(r, u, right, ip)
      <4> DEFINE q == [op |-> "login", pc |-> "lockout", user |-> u, right |-> right,
                       ip |-> ip, failures |-> userFails[u]]
      <4>1. q \in Request
        BY <1>1 DEF CountsTyped, Request, SignInRequest
      <4>2. requests' \in [Requests -> Request] /\ spent' \in [Outside -> Nat]
        BY <3>2, <4>1, BeginType DEF BeginLogin, Outside
      <4>. QED BY <1>1, <3>2, <4>2, TypePartsNext
               DEF BeginLogin, attempts, UsersTyped, CountsTyped
    <3>. QED BY <2>1, <3>1, <3>2
  <2>2. CASE SetupLockout(r)
    BY <2>2, GotoType, EndType, QuietType DEF SetupLockout, At, PcsAfter, Quiet
  <2>3. CASE SetupCreate(r)
    <3>1. requests[r].user \in Users
      BY <2>3, RequestKinds DEF SetupCreate, At, SignInRequest
    <3>2. UsersTyped'
      BY <1>1, <2>3, <3>1, AddedRow DEF SetupCreate, UsersTyped, Roles
    <3>3. At(r, "setup", "create") /\ (End(r) \/ Goto(r, "session"))
      BY <2>3 DEF SetupCreate
    <3>4. requests' \in [Requests -> Request]
      BY <3>3, GotoType, EndType DEF At, PcsAfter
    <3>. QED BY <1>1, <2>3, <3>2, <3>4, TypePartsNext DEF SetupCreate, attempts, CountsTyped
  <2>4. CASE LoginLockout(r)
    BY <2>4, GotoType, EndType, QuietType DEF LoginLockout, At, PcsAfter, Quiet
  <2>5. CASE Verify(r)
    <3> DEFINE q == [requests[r] EXCEPT !.pc = "active",
                                        !.right = @ /\ Known(requests[r].user)]
    <3>1. requests' = [requests EXCEPT ![r] = q]
      BY <1>1, <2>5 DEF Verify
    <3>2. requests[r] \in SignInRequest /\ requests[r].op = "login"
      BY <2>5, RequestKinds DEF Verify, At
    <3>3. q \in SignInRequest
      BY <3>2 DEF SignInRequest
    <3>4. q \in Request
      BY <3>3 DEF Request
    <3>. QED BY <1>1, <2>5, <3>1, <3>4, QuietType DEF Verify, Quiet
  <2>6. CASE CheckActive(r)
    BY <2>6, GotoType, EndType, QuietType DEF CheckActive, At, PcsAfter, Quiet
  <2>7. CASE RereadUser(r)
    BY <2>7, EndType, QuietType DEF RereadUser, Quiet
  <2>8. CASE RecordFailure(r)
    <3>1. requests' \in [Requests -> Request]
      BY <2>8, EndType DEF RecordFailure
    <3>. requests[r].user \in Users /\ requests[r].ip \in Ips
      BY <2>8, RequestKinds DEF RecordFailure, At, SignInRequest
    <3>2. userFails' \in [Users -> Nat]
      BY <1>1, <2>8, BumpType DEF RecordFailure, CountsTyped
    <3>3. ipFails' \in [Ips -> Nat]
      BY <1>1, <2>8, BumpType DEF RecordFailure, CountsTyped
    <3>. QED BY <1>1, <2>8, <3>1, <3>2, <3>3, TypePartsNext
             DEF RecordFailure, UsersTyped, CountsTyped
  <2>9. CASE OpenSession(r)
    <3>1. requests' \in [Requests -> Request]
      BY <2>9, GotoType, EndType DEF OpenSession, At, PcsAfter
    <3>2. sessions' \in [Users -> Nat]
      BY <1>1, <2>9 DEF OpenSession, CountsTyped
    <3>. QED BY <1>1, <2>9, <3>1, <3>2, TypePartsNext
             DEF OpenSession, attempts, UsersTyped, CountsTyped
  <2>. QED BY <1>4, <2>1, <2>2, <2>3, <2>4, <2>5, <2>6, <2>7, <2>8, <2>9 DEF SignIn
<1>5. ASSUME NEW r \in Requests, Team(r) PROVE TypeOK'
  <2>1. CASE BeginTeam(r)
    <3>1. PICK u \in Users, op \in {"create", "patch", "delete", "revoke"},
               role \in Roles \cup {"absent"}, active \in Flags, password \in Passwords :
            /\ BeginAdmin(r, u, op, role, active, password)
            /\ [op |-> op, pc |-> "first", user |-> u, role |-> role, active |-> active,
                password |-> password] \in TeamRequest
      BY <2>1 DEF BeginTeam, TeamRequest, Flags, Passwords
    <3>2. requests' \in [Requests -> Request] /\ spent' \in [Outside -> Nat]
      BY <3>1, BeginType DEF BeginAdmin, Request, Outside
    <3>. QED BY <1>1, <3>1, <3>2, TypePartsNext
             DEF BeginAdmin, attempts, UsersTyped, CountsTyped
  <2>2. CASE CreateUser(r)
    <3>1. requests[r].user \in Users /\ requests[r].role \in Roles
      BY <2>2, RequestKinds DEF CreateUser, At, TeamRequest
    <3>2. UsersTyped'
      BY <1>1, <2>2, <3>1, AddedRow DEF CreateUser, UsersTyped
    <3>3. requests' \in [Requests -> Request]
      BY <2>2, EndType DEF CreateUser
    <3>. QED BY <1>1, <2>2, <3>2, <3>3, TypePartsNext DEF CreateUser, attempts, CountsTyped
  <2>3. CASE CheckExists(r)
    BY <2>3, GotoType, EndType, QuietType DEF CheckExists, At, PcsAfter, Quiet
  <2>4. CASE RevokeSessions(r)
    <3>1. requests' \in [Requests -> Request]
      BY <2>4, EndType DEF RevokeSessions
    <3>. QED BY <1>1, <2>4, <3>1, TypePartsNext
             DEF RevokeSessions, attempts, UsersTyped, CountsTyped
  <2>5. CASE ReadCurrent(r)
    <3>1. \/ Panic(r)
          \/ \E pc \in {"count", "password", "role", "active", "reply"} :
               /\ Goto(r, pc)
               /\ pc = "password" => requests[r].password = "strong"
               /\ pc = "role" => requests[r].role # "absent"
               /\ pc = "active" => requests[r].active # "absent"
      BY <2>5 DEF ReadCurrent, PatchStep, AfterPassword
    <3>2. requests' \in [Requests -> Request]
      BY <2>5, <3>1, GotoType, EndType DEF ReadCurrent, At, PcsAfter
    <3>. QED BY <2>5, <3>2, QuietType DEF ReadCurrent, Quiet
  <2>6. CASE ReadTarget(r)
    BY <2>6, GotoType, EndType, QuietType DEF ReadTarget, At, PcsAfter, Quiet
  <2>7. CASE CountAdmins(r)
    BY <2>7, GotoType, EndType, QuietType DEF CountAdmins, PatchStep, AfterPassword, At, PcsAfter, Quiet
  <2>8. CASE SetRole(r)
    <3>1. requests[r].role \in Roles
      BY <2>8, RequestKinds DEF SetRole, At, TeamRequest
    <3>2. /\ At(r, "patch", "role")
          /\ \/ End(r) \/ Goto(r, "reply")
             \/ Goto(r, "active") /\ requests[r].active # "absent"
      BY <2>8 DEF SetRole
    <3>3. requests' \in [Requests -> Request]
      BY <3>2, GotoType, EndType DEF At, PcsAfter
    <3>4. UsersTyped'
      BY <1>1, <2>8, <3>1 DEF SetRole, UsersTyped, Known
    <3>. QED BY <1>1, <2>8, <3>3, <3>4, TypePartsNext DEF SetRole, attempts, CountsTyped
  <2>9. CASE SetActive(r)
    <3>1. requests' \in [Requests -> Request]
      BY <2>9, GotoType, EndType DEF SetActive, At, PcsAfter
    <3>2. UsersTyped'
      <4> DEFINE u == requests[r].user
                 row == [users[u] EXCEPT !.active = (requests[r].active = "yes")]
      <4>1. CASE ~Known(u)
        BY <1>1, <2>9, <4>1 DEF SetActive, UsersTyped
      <4>2. CASE Known(u)
        <5>1. users' = [users EXCEPT ![u] = row]
          BY <2>9, <4>2 DEF SetActive
        <5>2. row \in [role : Roles, active : BOOLEAN]
          BY <1>1, <4>2 DEF UsersTyped, Known
        <5>. QED BY <1>1, <5>1, <5>2 DEF UsersTyped
      <4>. QED BY <4>1, <4>2
    <3>3. CountsTyped'
      <4>1. sessions' \in [Users -> Nat] /\ UNCHANGED <<attempts, spent>>
        BY <1>1, <2>9 DEF SetActive, CountsTyped
      <4>2. overtaken' \in [Users -> Nat]
        <5>1. \A u : Cardinality(Opening(u)) \in Nat
          BY AccountsAssumption, FS_Subset, FS_CardinalityType DEF Opening
        <5> DEFINE counted == Cardinality(Opening(requests[r].user))
        <5>2. counted \in Nat
          BY <5>1
        <5>3. \/ overtaken' = overtaken
              \/ overtaken' = [overtaken EXCEPT ![requests[r].user] = counted]
          BY <2>9 DEF SetActive
        <5>. HIDE DEF counted
        <5>. QED BY <1>1, <5>2, <5>3 DEF CountsTyped
      <4>. QED BY <1>1, <4>1, <4>2 DEF CountsTyped, attempts
    <3>. QED BY <3>1, <3>2, <3>3, TypePartsNext
  <2>10. CASE Reply(r)
    BY <2>10, EndType, QuietType DEF Reply, Quiet
  <2>11. CASE DeleteUser(r)
    <3>1. requests' \in [Requests -> Request]
      BY <2>11, EndType DEF DeleteUser
    <3>2. UsersTyped'
      BY <1>1, <2>11 DEF DeleteUser, UsersTyped
    <3>3. CountsTyped'
      BY <1>1, <2>11 DEF DeleteUser, CountsTyped, attempts
    <3>. QED BY <3>1, <3>2, <3>3, TypePartsNext
  <2>12. CASE SetPassword(r)
    BY <2>12, GotoType, EndType, QuietType
       DEF SetPassword, AfterPassword, At, PcsAfter, Quiet
  <2>. QED BY <1>5, <2>1, <2>2, <2>3, <2>4, <2>5, <2>6, <2>7, <2>8, <2>9, <2>10, <2>11,
              <2>12
           DEF Team
<1>6. ASSUME NEW r \in Requests, Abort(r) PROVE TypeOK'
  <2>1. requests' \in [Requests -> Request] /\ spent' \in [Outside -> Nat]
    BY <1>6, EndType, SpendType DEF Abort, Outside
  <2>. QED BY <1>1, <1>6, <2>1, TypePartsNext DEF Abort, attempts, UsersTyped, CountsTyped
<1>. QED BY <1>2, <1>3, <1>4, <1>5, <1>6 DEF Next

----------------------------------------------------------------------------
(***************************************************************************)
(* Sessions                                                                *)
(***************************************************************************)

\* The actions that write neither table.
Reading(r) ==
  \/ \E u \in Users, right \in BOOLEAN, ip \in Ips :
       BeginSetup(r, u, right, ip) \/ BeginLogin(r, u, right, ip)
  \/ SetupLockout(r) \/ LoginLockout(r) \/ Verify(r) \/ CheckActive(r)
  \/ RereadUser(r) \/ RecordFailure(r) \/ BeginTeam(r) \/ CheckExists(r)
  \/ ReadCurrent(r) \/ ReadTarget(r) \/ CountAdmins(r) \/ SetPassword(r) \/ Reply(r)
  \/ Abort(r)

\* The actions that write one.
Writing(r) ==
  \/ SetupCreate(r) \/ OpenSession(r) \/ CreateUser(r) \/ RevokeSessions(r)
  \/ SetRole(r) \/ SetActive(r) \/ DeleteUser(r)

\* A step stutters, reads, writes or ends a session.
LEMMA NextSplit ==
  ASSUME [Next]_vars
  PROVE  \/ UNCHANGED vars
         \/ \E r \in Requests : Reading(r) \/ Writing(r)
         \/ \E u \in Users : EndSession(u)
BY DEF Next, SignIn, Team, Reading, Writing

\* What only reads leaves both tables alone.
LEMMA ReadingFrame ==
  ASSUME NEW r, Reading(r)
  PROVE  UNCHANGED <<users, sessions>>
BY DEF Reading, BeginSetup, BeginLogin, SetupLockout, LoginLockout, Verify, CheckActive,
   RereadUser, RecordFailure, BeginTeam, BeginAdmin, CheckExists, ReadCurrent,
   ReadTarget, CountAdmins, SetPassword, Reply, Abort

\* Every action keeps sessions with users who exist.
LEMMA SessionsStep ==
  ASSUME TypeOK, SessionsHaveUsers, [Next]_vars
  PROVE  SessionsHaveUsers'
<1>. DEFINE Kept == UNCHANGED <<users, sessions>>
<1>1. ASSUME Kept PROVE SessionsHaveUsers'
  BY <1>1 DEF SessionsHaveUsers, Known
<1>2. ASSUME NEW r \in Requests, Writing(r) PROVE SessionsHaveUsers'
  <2>. sessions \in [Users -> Nat]
    BY DEF TypeOK
  <2>1. CASE SetupCreate(r)
    BY <2>1 DEF SetupCreate, SessionsHaveUsers, Known
  <2>2. CASE OpenSession(r)
    BY <2>2 DEF OpenSession, SessionsHaveUsers, Known
  <2>3. CASE CreateUser(r)
    BY <2>3 DEF CreateUser, SessionsHaveUsers, Known
  <2>4. CASE RevokeSessions(r)
    BY <2>4 DEF RevokeSessions, SessionsHaveUsers, Known
  <2>5. CASE SetRole(r)
    BY <2>5 DEF SetRole, SessionsHaveUsers, Known
  <2>6. CASE SetActive(r)
    BY <2>6 DEF SetActive, SessionsHaveUsers, Known
  <2>7. CASE DeleteUser(r)
    BY <2>7 DEF DeleteUser, SessionsHaveUsers, Known
  <2>. QED BY <1>2, <2>1, <2>2, <2>3, <2>4, <2>5, <2>6, <2>7 DEF Writing
<1>3. ASSUME NEW u \in Users, EndSession(u) PROVE SessionsHaveUsers'
  BY <1>3 DEF EndSession, SessionsHaveUsers, Known, TypeOK
<1>. QED BY <1>1, <1>2, <1>3, NextSplit, ReadingFrame DEF vars

\* Every variable is of its type in every reachable state.
THEOREM AccountsTyped == Spec => []TypeOK
<1>1. Init => TypeOK
  BY InitType
<1>2. TypeOK /\ [Next]_vars => TypeOK'
  BY TypeStep
<1>. QED BY <1>1, <1>2, PTL DEF Spec

\* A session never outlives its user, however setups, logins and deletions
\* interleave: create_session's foreign key and ON DELETE CASCADE.
THEOREM SessionsAlwaysOwned == Spec => []SessionsHaveUsers
<1>1. Init => SessionsHaveUsers
  BY DEF Init, SessionsHaveUsers
<1>2. TypeOK /\ SessionsHaveUsers /\ [Next]_vars => SessionsHaveUsers'
  BY SessionsStep
<1>. QED BY <1>1, <1>2, AccountsTyped, PTL DEF Spec

----------------------------------------------------------------------------
(***************************************************************************)
(* Failed attempts                                                         *)
(***************************************************************************)

\* The requests that may still record a failure of u's or ip's.
LoginsOf(u) ==
  {r \in Requests : /\ requests[r].op = "login"
                    /\ requests[r].user = u
                    /\ requests[r].failures < UserThreshold}

AttemptsFrom(ip) ==
  {r \in Requests : /\ requests[r].op \in {"setup", "login"}
                    /\ requests[r].pc # "lockout"
                    /\ requests[r].ip = ip}

\* Those who were admitted below the threshold still fit.
Fits(fails, S, threshold) ==
  fails < threshold \/ fails + Cardinality(S) < threshold + Cardinality(Requests)

LoginsAdmitted ==
  \A r \in Requests :
    requests[r].op = "login" /\ requests[r].pc # "lockout" =>
      requests[r].failures < UserThreshold

FailuresInv ==
  /\ LoginsAdmitted
  /\ \A u \in Users : Fits(userFails[u], LoginsOf(u), UserThreshold)
  /\ \A ip \in Ips : Fits(ipFails[ip], AttemptsFrom(ip), IpThreshold)

\* Counting sets of requests.
LEMMA SubsetCount ==
  ASSUME NEW S \in SUBSET Requests
  PROVE  /\ IsFiniteSet(S)
         /\ Cardinality(S) \in Nat
         /\ Cardinality(Requests) \in Nat
         /\ Cardinality(S) <= Cardinality(Requests)
         /\ \A R \in SUBSET S : Cardinality(R) <= Cardinality(S)
         /\ \A r \in S : Cardinality(S \ {r}) = Cardinality(S) - 1
BY AccountsAssumption, FS_Subset, FS_CardinalityType, FS_RemoveElement

\* Fewer requests still fit.
LEMMA FitsFewer ==
  ASSUME NEW n \in Nat, NEW threshold \in Nat, NEW S \in SUBSET Requests,
         NEW R \in SUBSET S, Fits(n, S, threshold)
  PROVE  Fits(n, R, threshold)
<1>1. Cardinality(R) \in Nat /\ Cardinality(S) \in Nat /\ Cardinality(Requests) \in Nat
  BY SubsetCount
<1>2. Cardinality(R) <= Cardinality(S)
  BY SubsetCount
<1>. QED BY <1>1, <1>2 DEF Fits

\* A request that records its failure is one fewer.
LEMMA FitsRecorded ==
  ASSUME NEW n \in Nat, NEW threshold \in Nat, NEW S \in SUBSET Requests,
         NEW r \in S, NEW R \in SUBSET (S \ {r}), Fits(n, S, threshold)
  PROVE  Fits(n + 1, R, threshold)
<1>1. /\ Cardinality(R) \in Nat /\ Cardinality(S) \in Nat /\ Cardinality(Requests) \in Nat
      /\ Cardinality(S) <= Cardinality(Requests)
      /\ Cardinality(S \ {r}) = Cardinality(S) - 1
  BY SubsetCount
<1>2. Cardinality(R) <= Cardinality(S \ {r})
  BY SubsetCount
<1>. QED BY <1>1, <1>2 DEF Fits

\* The invariant bounds the failures.
LEMMA FailuresFollow ==
  ASSUME TypeOK, FailuresInv
  PROVE  FailuresBounded
<1>1. ASSUME NEW n \in Nat, NEW S \in SUBSET Requests, NEW threshold \in Nat,
             Fits(n, S, threshold)
      PROVE  n < threshold + Cardinality(Requests)
  BY <1>1, SubsetCount DEF Fits
<1>2. \A u \in Users : LoginsOf(u) \in SUBSET Requests /\ userFails[u] \in Nat
  BY DEF LoginsOf, TypeOK
<1>3. \A ip \in Ips : AttemptsFrom(ip) \in SUBSET Requests /\ ipFails[ip] \in Nat
  BY DEF AttemptsFrom, TypeOK
<1>. QED BY <1>1, <1>2, <1>3, AccountsAssumption DEF FailuresInv, FailuresBounded

\* q takes p's place as a request that may record a failure, or neither may.
Continues(p, q) ==
  /\ q.op = "login" => /\ p.op = "login"
                       /\ q.user = p.user
                       /\ q.failures = p.failures
  /\ q.op \in {"setup", "login"} /\ q.pc # "lockout" =>
       p.op \in {"setup", "login"} /\ p.pc # "lockout" /\ q.ip = p.ip

\* Who may still record a failure of u's after a step of r.
LEMMA LoginsMove ==
  ASSUME TypeOK, NEW r \in Requests, NEW q, requests' = [requests EXCEPT ![r] = q],
         NEW u,
         q.op = "login" /\ q.user = u /\ q.failures < UserThreshold => r \in LoginsOf(u)
  PROVE  LoginsOf(u)' \in SUBSET LoginsOf(u)
<1>1. r \in DOMAIN requests
  BY DEF TypeOK
<1>. QED BY <1>1 DEF LoginsOf, TypeOK

\* And of ip's.
LEMMA AttemptsMove ==
  ASSUME TypeOK, NEW r \in Requests, NEW q, requests' = [requests EXCEPT ![r] = q],
         NEW ip,
         q.op \in {"setup", "login"} /\ q.pc # "lockout" /\ q.ip = ip =>
           r \in AttemptsFrom(ip)
  PROVE  AttemptsFrom(ip)' \in SUBSET AttemptsFrom(ip)
<1>1. r \in DOMAIN requests
  BY DEF TypeOK
<1>. QED BY <1>1 DEF AttemptsFrom, TypeOK

\* A step that records nothing and admits no one.
LEMMA FailuresContinue ==
  ASSUME TypeOK, FailuresInv, UNCHANGED attempts,
         NEW r \in Requests, NEW q, requests' = [requests EXCEPT ![r] = q],
         Continues(requests[r], q)
  PROVE  FailuresInv'
<1>1. LoginsAdmitted'
  BY DEF FailuresInv, LoginsAdmitted, Continues, TypeOK
<1>2. ASSUME NEW u \in Users PROVE Fits(userFails[u], LoginsOf(u), UserThreshold)'
  <2>1. LoginsOf(u)' \in SUBSET LoginsOf(u) /\ LoginsOf(u) \in SUBSET Requests
    BY LoginsMove DEF Continues, LoginsOf
  <2>2. userFails[u] \in Nat /\ userFails' = userFails
    BY DEF TypeOK, attempts
  <2>. QED BY <2>1, <2>2, FitsFewer, AccountsAssumption DEF FailuresInv, Fits
<1>3. ASSUME NEW ip \in Ips PROVE Fits(ipFails[ip], AttemptsFrom(ip), IpThreshold)'
  <2>1. AttemptsFrom(ip)' \in SUBSET AttemptsFrom(ip) /\ AttemptsFrom(ip) \in SUBSET Requests
    BY AttemptsMove DEF Continues, AttemptsFrom
  <2>2. ipFails[ip] \in Nat /\ ipFails' = ipFails
    BY DEF TypeOK, attempts
  <2>. QED BY <2>1, <2>2, FitsFewer, AccountsAssumption DEF FailuresInv, Fits
<1>. QED BY <1>1, <1>2, <1>3 DEF FailuresInv

\* A handler that ends, or goes on past the lockout check.
LEMMA FailuresGoOn ==
  ASSUME TypeOK, FailuresInv, UNCHANGED attempts, NEW r \in Requests,
         \/ End(r) \/ Panic(r)
         \/ /\ requests[r].op \notin {"none", "panicked"}
            /\ requests[r].pc # "lockout"
            /\ \E pc : Goto(r, pc)
  PROVE  FailuresInv'
<1>1. requests \in [Requests -> Request]
  BY TypeParts
<1>2. CASE End(r)
  BY <1>2, FailuresContinue DEF End, Free, Continues
<1>3. CASE Panic(r)
  BY <1>3, FailuresContinue DEF Panic, Panicked, Continues
<1>4. ASSUME requests[r].op \notin {"none", "panicked"}, requests[r].pc # "lockout",
             NEW pc, Goto(r, pc)
      PROVE  FailuresInv'
  <2> DEFINE q == [requests[r] EXCEPT !.pc = pc]
  <2>1. requests' = [requests EXCEPT ![r] = q]
    BY <1>4 DEF Goto
  <2>2. Continues(requests[r], q)
    BY <1>4, RequestKinds DEF Continues, SignInRequest, TeamRequest
  <2>. QED BY <2>1, <2>2, FailuresContinue
<1>. QED BY <1>2, <1>3, <1>4

\* A new login has read a count that may be at the threshold.
LEMMA FailuresBeginLogin ==
  ASSUME TypeOK, FailuresInv, NEW r \in Requests, NEW u \in Users,
         NEW right \in BOOLEAN, NEW ip \in Ips, BeginLogin(r, u, right, ip)
  PROVE  FailuresInv'
<1> DEFINE q == [op |-> "login", pc |-> "lockout", user |-> u, right |-> right,
                 ip |-> ip, failures |-> userFails[u]]
<1>1. requests' = [requests EXCEPT ![r] = q] /\ UNCHANGED attempts
  BY DEF BeginLogin, Begin
<1>2. LoginsAdmitted'
  BY <1>1 DEF FailuresInv, LoginsAdmitted, TypeOK
<1>3. ASSUME NEW v \in Users PROVE Fits(userFails[v], LoginsOf(v), UserThreshold)'
  <2>1. userFails[v] \in Nat /\ userFails' = userFails
    BY <1>1 DEF TypeOK, attempts
  <2>2. CASE userFails[v] < UserThreshold
    BY <2>1, <2>2 DEF Fits
  <2>3. CASE ~(userFails[v] < UserThreshold)
    <3>1. LoginsOf(v)' \in SUBSET LoginsOf(v) /\ LoginsOf(v) \in SUBSET Requests
      BY <1>1, <2>3, LoginsMove DEF LoginsOf
    <3>. QED BY <2>1, <3>1, FitsFewer, AccountsAssumption DEF FailuresInv, Fits
  <2>. QED BY <2>2, <2>3
<1>4. ASSUME NEW i \in Ips PROVE Fits(ipFails[i], AttemptsFrom(i), IpThreshold)'
  <2>1. AttemptsFrom(i)' \in SUBSET AttemptsFrom(i) /\ AttemptsFrom(i) \in SUBSET Requests
    BY <1>1, AttemptsMove DEF AttemptsFrom
  <2>2. ipFails[i] \in Nat /\ ipFails' = ipFails
    BY <1>1 DEF TypeOK, attempts
  <2>. QED BY <2>1, <2>2, FitsFewer, AccountsAssumption DEF FailuresInv, Fits
<1>. QED BY <1>2, <1>3, <1>4 DEF FailuresInv

\* The check admits a request only while its address is below the threshold,
\* and a login only if the count it read was.
LEMMA FailuresAdmit ==
  ASSUME TypeOK, FailuresInv, UNCHANGED attempts, NEW r \in Requests, NEW pc, Goto(r, pc),
         requests[r].op \in {"setup", "login"},
         ipFails[requests[r].ip] < IpThreshold,
         requests[r].op = "login" => requests[r].failures < UserThreshold
  PROVE  FailuresInv'
<1> DEFINE q == [requests[r] EXCEPT !.pc = pc]
<1>1. requests' = [requests EXCEPT ![r] = q] /\ requests[r] \in SignInRequest
  BY RequestKinds DEF Goto
<1>2. /\ q.op = requests[r].op /\ q.ip = requests[r].ip
      /\ q.op = "login" => q.user = requests[r].user /\ q.failures = requests[r].failures
  BY <1>1 DEF SignInRequest
<1>3. LoginsAdmitted'
  BY <1>1, <1>2 DEF FailuresInv, LoginsAdmitted, TypeOK
<1>4. ASSUME NEW u \in Users PROVE Fits(userFails[u], LoginsOf(u), UserThreshold)'
  <2>1. LoginsOf(u)' \in SUBSET LoginsOf(u) /\ LoginsOf(u) \in SUBSET Requests
    BY <1>1, <1>2, LoginsMove DEF LoginsOf
  <2>2. userFails[u] \in Nat /\ userFails' = userFails
    BY DEF TypeOK, attempts
  <2>. QED BY <2>1, <2>2, FitsFewer, AccountsAssumption DEF FailuresInv, Fits
<1>5. ASSUME NEW ip \in Ips PROVE Fits(ipFails[ip], AttemptsFrom(ip), IpThreshold)'
  <2>1. ipFails[ip] \in Nat /\ ipFails' = ipFails
    BY DEF TypeOK, attempts
  <2>2. CASE ip = requests[r].ip
    BY <2>1, <2>2 DEF Fits
  <2>3. CASE ip # requests[r].ip
    <3>1. AttemptsFrom(ip)' \in SUBSET AttemptsFrom(ip) /\ AttemptsFrom(ip) \in SUBSET Requests
      BY <1>1, <1>2, <2>3, AttemptsMove DEF AttemptsFrom
    <3>. QED BY <2>1, <3>1, FitsFewer, AccountsAssumption DEF FailuresInv, Fits
  <2>. QED BY <2>2, <2>3
<1>. QED BY <1>3, <1>4, <1>5 DEF FailuresInv

\* A recorded failure was one of those that fitted.
LEMMA FailuresRecord ==
  ASSUME TypeOK, FailuresInv, NEW r \in Requests, RecordFailure(r)
  PROVE  FailuresInv'
<1>1. requests' = [requests EXCEPT ![r] = Free] /\ requests[r] \in SignInRequest
  BY RequestKinds DEF RecordFailure, End, At
<1>2. requests[r].op \in {"setup", "login"} /\ requests[r].pc = "record"
  BY DEF RecordFailure, At
<1>3. requests[r].user \in Users /\ requests[r].ip \in Ips
  BY <1>1 DEF SignInRequest
<1>4. LoginsAdmitted'
  BY <1>1 DEF FailuresInv, LoginsAdmitted, TypeOK, Free
<1>5. ASSUME NEW u \in Users PROVE Fits(userFails[u], LoginsOf(u), UserThreshold)'
  <2>1. userFails[u] \in Nat /\ LoginsOf(u) \in SUBSET Requests
    BY DEF TypeOK, LoginsOf
  <2>2. LoginsOf(u)' \in SUBSET (LoginsOf(u) \ {r})
    BY <1>1 DEF LoginsOf, TypeOK, Free
  <2>3. CASE requests[r].op = "login" /\ requests[r].user = u
    <3>1. r \in LoginsOf(u)
      BY <1>2, <2>3 DEF FailuresInv, LoginsAdmitted, LoginsOf
    <3>2. userFails'[u] = userFails[u] + 1
      BY <2>3 DEF RecordFailure, TypeOK
    <3>. QED BY <2>1, <2>2, <3>1, <3>2, FitsRecorded, AccountsAssumption DEF FailuresInv, Fits
  <2>4. CASE ~(requests[r].op = "login" /\ requests[r].user = u)
    <3>1. userFails'[u] = userFails[u]
      BY <2>4 DEF RecordFailure, TypeOK
    <3>2. LoginsOf(u)' \in SUBSET LoginsOf(u)
      BY <2>2
    <3>. QED BY <2>1, <3>1, <3>2, FitsFewer, AccountsAssumption DEF FailuresInv, Fits
  <2>. QED BY <2>3, <2>4
<1>6. ASSUME NEW ip \in Ips PROVE Fits(ipFails[ip], AttemptsFrom(ip), IpThreshold)'
  <2>1. ipFails[ip] \in Nat /\ AttemptsFrom(ip) \in SUBSET Requests
    BY DEF TypeOK, AttemptsFrom
  <2>2. AttemptsFrom(ip)' \in SUBSET (AttemptsFrom(ip) \ {r})
    BY <1>1 DEF AttemptsFrom, TypeOK, Free
  <2>3. CASE requests[r].ip = ip
    <3>1. r \in AttemptsFrom(ip)
      BY <1>2, <2>3 DEF AttemptsFrom
    <3>2. ipFails'[ip] = ipFails[ip] + 1
      BY <2>3 DEF RecordFailure, TypeOK
    <3>. QED BY <2>1, <2>2, <3>1, <3>2, FitsRecorded, AccountsAssumption DEF FailuresInv, Fits
  <2>4. CASE requests[r].ip # ip
    <3>1. ipFails'[ip] = ipFails[ip]
      BY <2>4 DEF RecordFailure, TypeOK
    <3>2. AttemptsFrom(ip)' \in SUBSET AttemptsFrom(ip)
      BY <2>2
    <3>. QED BY <2>1, <3>1, <3>2, FitsFewer, AccountsAssumption DEF FailuresInv, Fits
  <2>. QED BY <2>3, <2>4
<1>. QED BY <1>4, <1>5, <1>6 DEF FailuresInv

\* Every action keeps FailuresInv.
LEMMA FailuresStep == ASSUME TypeOK, FailuresInv, [Next]_vars PROVE FailuresInv'
<1>1. ASSUME UNCHANGED <<attempts, requests>> PROVE FailuresInv'
  BY <1>1 DEF FailuresInv, LoginsAdmitted, LoginsOf, AttemptsFrom, Fits, attempts
<1>2. CASE UNCHANGED vars
  BY <1>1, <1>2 DEF vars
<1>3. ASSUME NEW u \in Users, EndSession(u) PROVE FailuresInv'
  BY <1>1, <1>3 DEF EndSession
<1>4. ASSUME NEW r \in Requests, Writing(r) PROVE FailuresInv'
  <2>1. UNCHANGED attempts
    BY <1>4 DEF Writing, SetupCreate, OpenSession, CreateUser, RevokeSessions, SetRole,
       SetActive, DeleteUser
  <2>2. \/ End(r)
        \/ /\ requests[r].op \notin {"none", "panicked"} /\ requests[r].pc # "lockout"
           /\ \E pc : Goto(r, pc)
    BY <1>4 DEF Writing, SetupCreate, OpenSession, CreateUser, RevokeSessions, SetRole,
       SetActive, DeleteUser, At
  <2>. QED BY <2>1, <2>2, FailuresGoOn
<1>5. ASSUME NEW r \in Requests, Reading(r) PROVE FailuresInv'
  <2>1. ASSUME NEW u \in Users, NEW right \in BOOLEAN, NEW ip \in Ips,
               BeginSetup(r, u, right, ip) \/ BeginLogin(r, u, right, ip)
        PROVE  FailuresInv'
    <3>1. CASE BeginSetup(r, u, right, ip)
      BY <3>1, FailuresContinue DEF BeginSetup, Begin, Continues
    <3>2. CASE BeginLogin(r, u, right, ip)
      BY <3>2, FailuresBeginLogin
    <3>. QED BY <2>1, <3>1, <3>2
  <2>2. CASE SetupLockout(r)
    <3>1. CASE End(r)
      BY <2>2, <3>1, FailuresGoOn DEF SetupLockout
    <3>2. CASE ~End(r)
      <4>1. requests[r].op = "setup" /\ UNCHANGED attempts
        BY <2>2 DEF SetupLockout, At
      <4>2. requests[r].ip \in Ips
        BY <4>1, RequestKinds DEF SignInRequest
      <4>3. ipFails[requests[r].ip] < IpThreshold /\ \E pc : Goto(r, pc)
        BY <2>2, <3>2, <4>2, AccountsAssumption DEF SetupLockout, Blocked, TypeOK
      <4>. QED BY <4>1, <4>3, FailuresAdmit
    <3>. QED BY <3>1, <3>2
  <2>3. CASE LoginLockout(r)
    <3>1. CASE End(r)
      BY <2>3, <3>1, FailuresGoOn DEF LoginLockout
    <3>2. CASE ~End(r)
      <4>1. requests[r].op = "login" /\ UNCHANGED attempts
        BY <2>3 DEF LoginLockout, At
      <4>2. requests[r].ip \in Ips /\ requests[r].failures \in Nat
        BY <4>1, RequestKinds DEF SignInRequest
      <4>3. /\ ipFails[requests[r].ip] < IpThreshold /\ requests[r].failures < UserThreshold
            /\ \E pc : Goto(r, pc)
        BY <2>3, <3>2, <4>2, AccountsAssumption DEF LoginLockout, Blocked, TypeOK
      <4>. QED BY <4>1, <4>3, FailuresAdmit
    <3>. QED BY <3>1, <3>2
  <2>4. CASE Verify(r)
    <3> DEFINE q == [requests[r] EXCEPT !.pc = "active",
                                        !.right = @ /\ Known(requests[r].user)]
    <3>1. requests' = [requests EXCEPT ![r] = q] /\ UNCHANGED attempts
      BY <2>4, TypeParts DEF Verify
    <3>2. requests[r] \in SignInRequest /\ requests[r].op = "login" /\ requests[r].pc = "verify"
      BY <2>4, RequestKinds DEF Verify, At
    <3>3. Continues(requests[r], q)
      BY <3>2 DEF Continues, SignInRequest
    <3>. QED BY <3>1, <3>3, FailuresContinue
  <2>5. CASE RecordFailure(r)
    BY <2>5, FailuresRecord
  <2>6. CASE BeginTeam(r)
    <3>1. PICK u \in Users, op \in {"create", "patch", "delete", "revoke"},
               role \in Roles \cup {"absent"}, active \in Flags, password \in Passwords :
            BeginAdmin(r, u, op, role, active, password)
      BY <2>6 DEF BeginTeam, Flags, Passwords
    <3>. QED BY <3>1, FailuresContinue DEF BeginAdmin, Begin, Continues
  <2>7. CASE CheckActive(r) \/ RereadUser(r) \/ CheckExists(r) \/ ReadCurrent(r)
             \/ ReadTarget(r) \/ CountAdmins(r) \/ SetPassword(r) \/ Reply(r) \/ Abort(r)
    <3>1. UNCHANGED attempts
      BY <2>7 DEF CheckActive, RereadUser, CheckExists, ReadCurrent, ReadTarget,
         CountAdmins, SetPassword, Reply, Abort
    <3>2. \/ End(r) \/ Panic(r)
          \/ /\ requests[r].op \notin {"none", "panicked"} /\ requests[r].pc # "lockout"
             /\ \E pc : Goto(r, pc)
      BY <2>7 DEF CheckActive, RereadUser, CheckExists, ReadCurrent, ReadTarget,
         CountAdmins, SetPassword, Reply, Abort, At
    <3>. QED BY <3>1, <3>2, FailuresGoOn
  <2>. QED BY <1>5, <2>1, <2>2, <2>3, <2>4, <2>5, <2>6, <2>7 DEF Reading
<1>. QED BY <1>2, <1>3, <1>4, <1>5, NextSplit

\* The failures recorded in one window are fewer than the threshold plus the
\* number of concurrent requests: a check and its record are separate calls.
THEOREM FailuresAlwaysBounded == Spec => []FailuresBounded
<1>1. Init => FailuresInv
  BY AccountsAssumption
  DEF Init, Free, FailuresInv, LoginsAdmitted, LoginsOf, AttemptsFrom, Fits
<1>2. TypeOK /\ FailuresInv /\ [Next]_vars => FailuresInv'
  BY FailuresStep
<1>3. TypeOK /\ FailuresInv => FailuresBounded
  BY FailuresFollow
<1>. QED BY <1>1, <1>2, <1>3, AccountsTyped, PTL DEF Spec

----------------------------------------------------------------------------
(***************************************************************************)
(* The last active admin                                                   *)
(***************************************************************************)

TeamOps == {"create", "patch", "delete", "revoke"}

\* A request past the guard that is about to write to its user's row.
Removing(r) ==
  \/ requests[r].op = "patch" /\ requests[r].pc \in {"password", "role", "active"}
  \/ requests[r].op = "delete" /\ requests[r].pc = "delete"

\* There is an active admin besides the user it writes to.
Spare(r) == \E v \in ActiveAdmins : v # requests[r].user

\* It takes nothing from an active admin.
Harmless(r) ==
  /\ requests[r].op = "patch"
  /\ requests[r].role # "viewer"
  /\ requests[r].active # "no"

TeamHasAdmin ==
  \A r \in Requests :
    requests[r].op \in TeamOps => r \in AdminSlots /\ ActiveAdmins # {}

Guarded == \A r \in Requests : Removing(r) => Spare(r) \/ Harmless(r)

AdminInv == ActiveAdminRemains /\ TeamHasAdmin /\ Guarded

\* Requests that are no team requests, and those not yet past the guard, may
\* change while the active admins do not get fewer.
LEMMA AdminFrame ==
  ASSUME TypeOK, AdminInv, NEW r \in Requests, NEW q,
         requests' = [requests EXCEPT ![r] = q],
         ActiveAdmins \subseteq ActiveAdmins',
         users' # NoUsers => ActiveAdmins' # {},
         q.op \in TeamOps => r \in AdminSlots /\ ActiveAdmins' # {},
         \/ ~Removing(r)'
         \/ Spare(r)'
         \/ Harmless(r)'
  PROVE  AdminInv'
<1>1. ActiveAdminRemains'
  BY DEF ActiveAdminRemains
<1>2. \A s \in Requests \ {r} : requests'[s] = requests[s]
  BY DEF TypeOK
<1>3. requests'[r] = q
  BY DEF TypeOK
<1>4. TeamHasAdmin'
  BY <1>2, <1>3 DEF AdminInv, TeamHasAdmin
<1>5. ASSUME NEW s \in Requests, Removing(s)' PROVE (Spare(s) \/ Harmless(s))'
  <2>1. CASE s = r
    BY <1>5, <2>1
  <2>2. CASE s # r
    <3>1. Removing(s) /\ requests'[s] = requests[s]
      BY <1>2, <1>5, <2>2 DEF Removing
    <3>. QED BY <3>1 DEF AdminInv, Guarded, Spare, Harmless
  <2>. QED BY <2>1, <2>2
<1>. QED BY <1>1, <1>4, <1>5 DEF AdminInv, Guarded

\* The one team request there can be writes to its user's row.
LEMMA AdminWrite ==
  ASSUME \A r, s \in AdminSlots : r = s,
         TypeOK, AdminInv, NEW r \in Requests, Removing(r),
         NEW q, requests' = [requests EXCEPT ![r] = q],
         \/ q.op = "none"
         \/ /\ q.op = requests[r].op /\ q.user = requests[r].user
            /\ q.role = requests[r].role /\ q.active = requests[r].active,
         ActiveAdmins \ {requests[r].user} \subseteq ActiveAdmins',
         Harmless(r) => ActiveAdmins \subseteq ActiveAdmins'
  PROVE  AdminInv'
<1>1. requests[r].op \in TeamOps
  BY DEF Removing, TeamOps
<1>2. r \in AdminSlots /\ ActiveAdmins # {} /\ (Spare(r) \/ Harmless(r))
  BY <1>1 DEF AdminInv, TeamHasAdmin, Guarded
<1>3. ActiveAdmins' # {}
  BY <1>2 DEF Spare
<1>4. /\ requests'[r] = q
      /\ \A s \in Requests \ {r} : requests'[s] = requests[s] /\ requests[s].op \notin TeamOps
  BY <1>2 DEF TypeOK, AdminInv, TeamHasAdmin
<1>5. ActiveAdminRemains'
  BY <1>3 DEF ActiveAdminRemains
<1>6. TeamHasAdmin'
  BY <1>2, <1>3, <1>4 DEF TeamHasAdmin
<1>7. ASSUME NEW s \in Requests, Removing(s)' PROVE (Spare(s) \/ Harmless(s))'
  <2>1. s = r
    BY <1>4, <1>7 DEF Removing, TeamOps
  <2>2. q.op # "none"
    BY <1>4, <1>7, <2>1 DEF Removing
  <2>. QED BY <1>2, <1>4, <2>1, <2>2 DEF Spare, Harmless
<1>. QED BY <1>5, <1>6, <1>7 DEF AdminInv, Guarded

\* More than one active admin: one of them is another.
LEMMA SomeOther ==
  ASSUME NEW u, ~(Cardinality(ActiveAdmins) <= 1)
  PROVE  \E v \in ActiveAdmins : v # u
<1>1. SUFFICES ASSUME ActiveAdmins \subseteq {u} PROVE FALSE
  OBVIOUS
<1>2. IsFiniteSet({u}) /\ Cardinality({u}) = 1
  BY FS_Singleton
<1>3. Cardinality(ActiveAdmins) <= 1
  BY <1>1, <1>2, FS_Subset
<1>. QED BY <1>3

\* A handler that moves or ends without writing.
LEMMA AdminMove ==
  ASSUME TypeOK, AdminInv, NEW r \in Requests, UNCHANGED users,
         \/ End(r) \/ Panic(r)
         \/ \E pc : /\ Goto(r, pc)
                    /\ requests[r].op \in DOMAIN PcsAfter
                    /\ \/ requests[r].op \in {"setup", "login"}
                       \/ pc \notin {"password", "role", "active", "delete"}
                       \/ Spare(r) \/ Harmless(r)
  PROVE  AdminInv'
<1>. ActiveAdmins' = ActiveAdmins
  BY DEF ActiveAdmins
<1>. users # NoUsers => ActiveAdmins # {}
  BY DEF AdminInv, ActiveAdminRemains
<1>1. CASE End(r)
  BY <1>1, AdminFrame DEF End, Free, TeamOps, Removing, TypeOK
<1>2. CASE Panic(r)
  BY <1>2, AdminFrame DEF Panic, Panicked, TeamOps, Removing, TypeOK
<1>3. ASSUME NEW pc, Goto(r, pc), requests[r].op \in DOMAIN PcsAfter,
             \/ requests[r].op \in {"setup", "login"}
             \/ pc \notin {"password", "role", "active", "delete"}
             \/ Spare(r) \/ Harmless(r)
      PROVE  AdminInv'
  <2> DEFINE q == [requests[r] EXCEPT !.pc = pc]
  <2>1. requests' = [requests EXCEPT ![r] = q] /\ requests'[r] = q
    BY <1>3 DEF Goto, TypeOK
  <2>2. requests[r].op \in {"setup", "login", "patch", "delete", "revoke"}
    BY <1>3 DEF PcsAfter
  <2>3. /\ q.op = requests[r].op /\ q.user = requests[r].user /\ q.pc = pc
        /\ requests[r].op \in TeamOps => q.role = requests[r].role /\ q.active = requests[r].active
    BY <2>2, RequestKinds DEF SignInRequest, TeamRequest, TeamOps
  <2>4. q.op \in TeamOps => r \in AdminSlots /\ ActiveAdmins' # {}
    BY <2>3 DEF AdminInv, TeamHasAdmin
  <2>5. ~Removing(r)' \/ Spare(r)' \/ Harmless(r)'
    BY <1>3, <2>1, <2>3 DEF Removing, Spare, Harmless, TeamOps
  <2>. QED BY <2>1, <2>4, <2>5, AdminFrame
<1>. QED BY <1>1, <1>2, <1>3

\* Reading, and moving past the guard, keeps AdminInv.
LEMMA AdminReadingStep ==
  ASSUME TypeOK, AdminInv, NEW r \in Requests, Reading(r)
  PROVE  AdminInv'
<1>. UNCHANGED users
  BY ReadingFrame
<1>. ActiveAdmins' = ActiveAdmins
  BY DEF ActiveAdmins
<1>1. ASSUME NEW u \in Users, NEW right \in BOOLEAN, NEW ip \in Ips,
             BeginSetup(r, u, right, ip) \/ BeginLogin(r, u, right, ip)
      PROVE  AdminInv'
  <2>1. ASSUME NEW q, requests' = [requests EXCEPT ![r] = q], q.op \in {"setup", "login"}
        PROVE  AdminInv'
    <3>1. q.op \notin TeamOps /\ ~Removing(r)'
      BY <2>1 DEF TypeOK, TeamOps, Removing
    <3>2. users # NoUsers => ActiveAdmins # {}
      BY DEF AdminInv, ActiveAdminRemains
    <3>. QED BY <2>1, <3>1, <3>2, AdminFrame
  <2>. QED BY <1>1, <2>1 DEF BeginSetup, BeginLogin, Begin
<1>2. CASE SetupLockout(r)
  BY <1>2, AdminMove DEF SetupLockout, At, PcsAfter
<1>3. CASE LoginLockout(r)
  BY <1>3, AdminMove DEF LoginLockout, At, PcsAfter
<1>4. CASE Verify(r)
  <2> DEFINE q == [requests[r] EXCEPT !.pc = "active",
                                      !.right = @ /\ Known(requests[r].user)]
  <2>1. requests' = [requests EXCEPT ![r] = q] /\ requests'[r] = q
    BY <1>4, TypeParts DEF Verify
  <2>2. q.op = "login"
    BY <1>4, RequestKinds DEF Verify, At, SignInRequest
  <2>. QED BY <2>1, <2>2, AdminFrame DEF TeamOps, Removing, AdminInv, ActiveAdminRemains
<1>5. CASE CheckActive(r)
  BY <1>5, AdminMove DEF CheckActive, At, PcsAfter
<1>6. CASE RereadUser(r) \/ RecordFailure(r) \/ Reply(r) \/ Abort(r)
  BY <1>6, AdminMove DEF RereadUser, RecordFailure, Reply, Abort
<1>7. CASE BeginTeam(r)
  <2>1. PICK u \in Users, op \in TeamOps,
             role \in Roles \cup {"absent"}, active \in Flags, password \in Passwords :
          BeginAdmin(r, u, op, role, active, password)
    BY <1>7 DEF BeginTeam, TeamOps, Flags, Passwords
  <2> DEFINE q == [op |-> op, pc |-> "first", user |-> u, role |-> role, active |-> active,
                   password |-> password]
  <2>2. requests' = [requests EXCEPT ![r] = q] /\ requests'[r] = q
    BY <2>1 DEF BeginAdmin, Begin, TypeOK
  <2>3. r \in AdminSlots /\ users # NoUsers
    BY <2>1 DEF BeginAdmin, NoUsers
  <2>4. ActiveAdmins # {} /\ ~Removing(r)'
    BY <2>2, <2>3 DEF AdminInv, ActiveAdminRemains, Removing
  <2>. QED BY <2>2, <2>3, <2>4, AdminFrame
<1>8. CASE CheckExists(r)
  BY <1>8, AdminMove DEF CheckExists, At, PcsAfter
<1>9. CASE ReadCurrent(r)
  <2> DEFINE u == requests[r].user
  <2>1. /\ At(r, "patch", "second") /\ requests[r] \in TeamRequest
        /\ ActiveAdmins # {}
    BY <1>9, RequestKinds DEF ReadCurrent, At, AdminInv, TeamHasAdmin, TeamOps
  <2>2. CASE Panic(r)
    BY <2>2, AdminMove
  <2>3. CASE ~Panic(r)
    <3>1. Known(u) /\ \E pc : Goto(r, pc)
      BY <1>9, <2>3 DEF ReadCurrent
    <3>2. CASE Goto(r, "count")
      BY <2>1, <3>2, AdminMove DEF At, PcsAfter
    <3>3. CASE ~Goto(r, "count")
      <4>1. /\ ~(requests[r].role = "viewer" /\ users[u].role = "admin")
            /\ ~(requests[r].active = "no" /\ users[u] = Row("admin", TRUE))
        BY <1>9, <2>3, <3>3 DEF ReadCurrent
      <4>2. CASE u \in ActiveAdmins
        <5>1. Harmless(r)
          BY <2>1, <4>1, <4>2 DEF ActiveAdmins, Row, Harmless, At
        <5>. QED BY <2>1, <3>1, <5>1, AdminMove DEF At, PcsAfter
      <4>3. CASE u \notin ActiveAdmins
        <5>1. Spare(r)
          BY <2>1, <4>3 DEF Spare
        <5>. QED BY <2>1, <3>1, <5>1, AdminMove DEF At, PcsAfter
      <4>. QED BY <4>2, <4>3
    <3>. QED BY <3>2, <3>3
  <2>. QED BY <2>2, <2>3
<1>10. CASE ReadTarget(r)
  <2>1. At(r, "delete", "first") /\ ActiveAdmins # {}
    BY <1>10 DEF ReadTarget, At, AdminInv, TeamHasAdmin, TeamOps
  <2>2. End(r) \/ Goto(r, "count") \/ (Goto(r, "delete") /\ Spare(r))
    BY <1>10, <2>1 DEF ReadTarget, Spare
  <2>. QED BY <2>1, <2>2, AdminMove DEF At, PcsAfter
<1>11. CASE CountAdmins(r)
  <2>1. End(r) \/ (Spare(r) /\ \E pc : Goto(r, pc))
    BY <1>11, SomeOther DEF CountAdmins, Spare
  <2>2. requests[r].op \in {"patch", "delete"}
    BY <1>11 DEF CountAdmins, At
  <2>. QED BY <2>1, <2>2, AdminMove DEF PcsAfter
<1>12. CASE SetPassword(r)
  <2>1. At(r, "patch", "password") /\ (Spare(r) \/ Harmless(r))
    BY <1>12 DEF SetPassword, At, AdminInv, Guarded, Removing
  <2>. QED BY <1>12, <2>1, AdminMove DEF SetPassword, At, PcsAfter
<1>. QED BY <1>1, <1>2, <1>3, <1>4, <1>5, <1>6, <1>7, <1>8, <1>9, <1>10, <1>11, <1>12
         DEF Reading

\* Activating an active user changes nothing.
LEMMA SameActive ==
  ASSUME NEW row \in [role : Roles, active : BOOLEAN], row.active = TRUE
  PROVE  [row EXCEPT !.active = TRUE] = row
OBVIOUS

\* So does writing, if the console serves one request at a time.
LEMMA AdminWritingStep ==
  ASSUME \A r, s \in AdminSlots : r = s,
         TypeOK, AdminInv, NEW r \in Requests, Writing(r)
  PROVE  AdminInv'
<1> DEFINE u == requests[r].user
<1>. UsersTyped
  BY TypeParts
<1>1. CASE SetupCreate(r)
  <2>1. CASE Known(u)
    BY <1>1, <2>1, AdminMove DEF SetupCreate
  <2>2. CASE ~Known(u)
    <3>1. users' = [v \in DOMAIN users \cup {u} |-> IF v = u THEN Row("admin", TRUE) ELSE users[v]]
      BY <1>1, <2>2 DEF SetupCreate
    <3>2. ActiveAdmins \subseteq ActiveAdmins' /\ ActiveAdmins' # {}
      BY <2>2, <3>1 DEF ActiveAdmins, Known
    <3> DEFINE q == [requests[r] EXCEPT !.pc = "session"]
    <3>3. requests' = [requests EXCEPT ![r] = q] /\ requests'[r] = q
      BY <1>1, <2>2 DEF SetupCreate, Goto, TypeOK
    <3>4. q.op = "setup"
      BY <1>1, RequestKinds DEF SetupCreate, At, SignInRequest
    <3>. QED BY <3>2, <3>3, <3>4, AdminFrame DEF TeamOps, Removing
  <2>. QED BY <2>1, <2>2
<1>2. CASE OpenSession(r)
  <2>1. /\ UNCHANGED users /\ requests[r].op \in {"setup", "login"}
        /\ End(r) \/ Goto(r, "reread")
    BY <1>2 DEF OpenSession, At
  <2>. QED BY <2>1, AdminMove DEF PcsAfter
<1>3. CASE CreateUser(r)
  <2>1. ActiveAdmins # {}
    BY <1>3 DEF CreateUser, At, AdminInv, TeamHasAdmin, TeamOps
  <2>2. ActiveAdmins \subseteq ActiveAdmins'
    BY <1>3 DEF CreateUser, ActiveAdmins, Known
  <2>3. requests' = [requests EXCEPT ![r] = Free] /\ requests'[r] = Free
    BY <1>3 DEF CreateUser, End, TypeOK
  <2>4. Free.op \notin TeamOps /\ ~Removing(r)' /\ ActiveAdmins' # {}
    BY <2>1, <2>2, <2>3 DEF Free, TeamOps, Removing
  <2>. QED BY <2>2, <2>3, <2>4, AdminFrame
<1>4. CASE RevokeSessions(r)
  BY <1>4, AdminMove DEF RevokeSessions
<1>5. CASE SetRole(r)
  <2>1. At(r, "patch", "role") /\ requests[r] \in TeamRequest /\ requests[r].role \in Roles
    BY <1>5, RequestKinds DEF SetRole, At, TeamRequest
  <2>2. CASE ~Known(u)
    BY <1>5, <2>2, AdminMove DEF SetRole
  <2>3. CASE Known(u)
    <3>1. PICK pc \in {"reply", "active"} : Goto(r, pc)
      BY <1>5, <2>3 DEF SetRole
    <3> DEFINE q == [requests[r] EXCEPT !.pc = pc]
               row == [users[u] EXCEPT !.role = requests[r].role]
    <3>2. requests' = [requests EXCEPT ![r] = q]
      BY <3>1 DEF Goto
    <3>3. /\ q.op = requests[r].op /\ q.user = requests[r].user
          /\ q.role = requests[r].role /\ q.active = requests[r].active
      BY <2>1 DEF TeamRequest
    <3>4. users' = [users EXCEPT ![u] = row] /\ users \in [DOMAIN users -> [role : Roles, active : BOOLEAN]]
      BY <1>5, <2>3 DEF SetRole, UsersTyped
    <3>5. ActiveAdmins \ {u} \subseteq ActiveAdmins'
      BY <3>4 DEF ActiveAdmins
    <3>6. ASSUME Harmless(r), u \in ActiveAdmins PROVE u \in ActiveAdmins'
      <4>1. requests[r].role = "admin" /\ users[u] = Row("admin", TRUE)
        BY <2>1, <3>6 DEF Harmless, Roles, ActiveAdmins
      <4>2. row = Row("admin", TRUE)
        BY <4>1 DEF Row
      <4>. QED BY <2>3, <3>4, <4>2 DEF ActiveAdmins, Known
    <3>7. Harmless(r) => ActiveAdmins \subseteq ActiveAdmins'
      BY <3>5, <3>6
    <3>8. Removing(r)
      BY <2>1 DEF Removing, At
    <3>. QED BY <3>2, <3>3, <3>5, <3>7, <3>8, AdminWrite
  <2>. QED BY <2>2, <2>3
<1>6. CASE SetActive(r)
  <2>1. At(r, "patch", "active") /\ requests[r] \in TeamRequest
    BY <1>6, RequestKinds DEF SetActive, At
  <2>2. CASE ~Known(u)
    BY <1>6, <2>2, AdminMove DEF SetActive
  <2>3. CASE Known(u)
    <3> DEFINE q == [requests[r] EXCEPT !.pc = "reply"]
    <3>1. requests' = [requests EXCEPT ![r] = q]
      BY <1>6, <2>3 DEF SetActive, Goto
    <3>2. /\ q.op = requests[r].op /\ q.user = requests[r].user
          /\ q.role = requests[r].role /\ q.active = requests[r].active
      BY <2>1 DEF TeamRequest
    <3>3. \A v \in DOMAIN users : v # u => users'[v] = users[v]
      BY <1>6, <2>3 DEF SetActive
    <3>4. DOMAIN users' = DOMAIN users
      BY <1>6, <2>3 DEF SetActive
    <3>5. ActiveAdmins \ {u} \subseteq ActiveAdmins'
      BY <3>3, <3>4 DEF ActiveAdmins
    <3>6. ASSUME Harmless(r), u \in ActiveAdmins PROVE u \in ActiveAdmins'
      <4>1. requests[r].active # "no" /\ users[u] = Row("admin", TRUE)
        BY <3>6 DEF Harmless, ActiveAdmins
      <4>2. requests[r].active = "yes"
        BY <2>1, <4>1 DEF TeamRequest, At
      <4>3. users'[u] = [users[u] EXCEPT !.active = TRUE]
        BY <1>6, <2>3, <4>2 DEF SetActive, Known
      <4>4. [users[u] EXCEPT !.active = TRUE] = users[u]
        <5>1. users[u] \in [role : Roles, active : BOOLEAN]
          BY <2>3 DEF UsersTyped, Known
        <5>2. users[u].active = TRUE
          BY <4>1 DEF Row
        <5>. QED BY <5>1, <5>2, SameActive
      <4>5. u \in DOMAIN users' /\ users'[u] = Row("admin", TRUE)
        BY <2>3, <3>4, <4>1, <4>3, <4>4 DEF Known
      <4>. QED BY <4>5 DEF ActiveAdmins
    <3>7. Harmless(r) => ActiveAdmins \subseteq ActiveAdmins'
      BY <3>5, <3>6
    <3>8. Removing(r)
      BY <2>1 DEF Removing, At
    <3>. QED BY <3>1, <3>2, <3>5, <3>7, <3>8, AdminWrite
  <2>. QED BY <2>2, <2>3
<1>7. CASE DeleteUser(r)
  <2>1. ActiveAdmins \ {u} \subseteq ActiveAdmins'
    BY <1>7 DEF DeleteUser, ActiveAdmins
  <2>2. Removing(r) /\ ~Harmless(r)
    BY <1>7 DEF DeleteUser, At, Removing, Harmless
  <2>3. requests' = [requests EXCEPT ![r] = Free]
    BY <1>7 DEF DeleteUser, End
  <2>. QED BY <2>1, <2>2, <2>3, AdminWrite DEF Free
<1>. QED BY <1>1, <1>2, <1>3, <1>4, <1>5, <1>6, <1>7 DEF Writing

\* ingest.rs:863-865: where the console serves one request at a time, no request
\* leaves the daemon without an active admin.
THEOREM OneConsoleKeepsAdmin ==
  ASSUME \A r, s \in AdminSlots : r = s
  PROVE  Spec => []ActiveAdminRemains
<1>1. Init => AdminInv
  BY DEF Init, Free, AdminInv, ActiveAdminRemains, TeamHasAdmin, TeamOps, Guarded, Removing
<1>2. ASSUME TypeOK, AdminInv, [Next]_vars PROVE AdminInv'
  <2>1. ASSUME UNCHANGED <<users, requests>> PROVE AdminInv'
    BY <1>2, <2>1 DEF AdminInv, ActiveAdminRemains, TeamHasAdmin, Guarded, Removing, Spare,
       Harmless, ActiveAdmins
  <2>. QED BY <1>2, <2>1, NextSplit, AdminReadingStep, AdminWritingStep DEF vars, EndSession
<1>3. AdminInv => ActiveAdminRemains
  BY DEF AdminInv
<1>. QED BY <1>1, <1>2, <1>3, AccountsTyped, PTL DEF Spec

----------------------------------------------------------------------------
(***************************************************************************)
(* Deactivated users                                                       *)
(***************************************************************************)

\* A handler about to open a session.
IsOpening(r) == requests[r].op \in {"setup", "login"} /\ requests[r].pc = "session"

\* What it read of its user when it decided to is still so.
StillActive(r) ==
  LET u == requests[r].user IN
  u \in DOMAIN users /\ users[u].active

\* A deactivated user, and the bound on its sessions: those there are and those
\* that requests may still open.
Inactive(u) == u \in DOMAIN users /\ ~users[u].active

OvertakenInv ==
  \A u \in Users :
    Inactive(u) => sessions[u] + Cardinality(Opening(u)) <= overtaken[u]

\* Of the steps that write neither table, only the login's second look at its
\* user leads to a session.
LEMMA ReadingOpens ==
  ASSUME TypeOK, NEW r \in Requests, Reading(r), IsOpening(r)'
  PROVE  CheckActive(r) /\ StillActive(r)'
<1>1. requests \in [Requests -> Request]
  BY DEF TypeOK, Request
<1>2. ASSUME NEW q, requests' = [requests EXCEPT ![r] = q] PROVE requests'[r] = q
  BY <1>1, <1>2
<1>3. ASSUME NEW u \in Users, NEW right \in BOOLEAN, NEW ip \in Ips,
             BeginSetup(r, u, right, ip) \/ BeginLogin(r, u, right, ip)
      PROVE  FALSE
  <2>1. requests'[r].pc = "lockout"
    BY <1>1, <1>3 DEF BeginSetup, BeginLogin, Begin
  <2>. QED BY <2>1 DEF IsOpening
<1>4. ASSUME BeginTeam(r) PROVE FALSE
  <2>1. requests'[r].op \in {"create", "patch", "delete", "revoke"}
    BY <1>1, <1>4 DEF BeginTeam, BeginAdmin, Begin
  <2>. QED BY <2>1 DEF IsOpening
<1>5. ASSUME End(r) \/ Panic(r) PROVE FALSE
  BY <1>1, <1>5 DEF End, Panic, Free, Panicked, IsOpening
<1>6. ASSUME NEW pc, Goto(r, pc)
      PROVE  /\ requests[r].op \in {"setup", "login"} /\ pc = "session"
             /\ requests'[r].user = requests[r].user
  <2> DEFINE q == [requests[r] EXCEPT !.pc = pc]
  <2>1. requests'[r] = q
    BY <1>2, <1>6 DEF Goto
  <2>2. CASE requests[r] \in {Free, Panicked}
    <3>1. q = requests[r]
      BY <2>2 DEF Free, Panicked
    <3>2. requests[r].op \notin {"setup", "login"}
      BY <2>2 DEF Free, Panicked
    <3>. QED BY <2>1, <3>1, <3>2 DEF IsOpening
  <2>3. CASE requests[r] \in SignInRequest \cup TeamRequest
    <3>1. q.op = requests[r].op /\ q.pc = pc /\ q.user = requests[r].user
      BY <2>3 DEF SignInRequest, TeamRequest
    <3>. HIDE DEF q
    <3>. QED BY <2>1, <3>1 DEF IsOpening
  <2>. QED BY <1>1, <2>2, <2>3 DEF Request
<1>7. ASSUME Verify(r) PROVE FALSE
  <2>1. requests[r].op = "login" /\ requests[r] \in SignInRequest
    BY <1>7, RequestKinds DEF Verify, At
  <2>2. requests'[r].pc = "active"
    <3>1. requests'[r] = [requests[r] EXCEPT !.pc = "active",
                            !.right = @ /\ Known(requests[r].user)]
      BY <1>1, <1>7 DEF Verify
    <3>. QED BY <2>1, <3>1 DEF SignInRequest
  <2>. QED BY <2>2 DEF IsOpening
<1>8. ~SetupLockout(r) /\ ~LoginLockout(r)
  BY <1>5, <1>6 DEF SetupLockout, LoginLockout
<1>9. ~RereadUser(r) /\ ~RecordFailure(r) /\ ~Reply(r) /\ ~Abort(r)
  BY <1>5 DEF RereadUser, RecordFailure, Reply, Abort
<1>10. ~CheckExists(r) /\ ~ReadCurrent(r) /\ ~ReadTarget(r) /\ ~CountAdmins(r)
       /\ ~SetPassword(r)
  BY <1>5, <1>6 DEF CheckExists, ReadCurrent, ReadTarget, CountAdmins, SetPassword, At
<1>11. CheckActive(r)
  BY <1>3, <1>4, <1>7, <1>8, <1>9, <1>10 DEF Reading
<1>12. StillActive(r)'
  BY <1>6, <1>11 DEF CheckActive, StillActive, Known
<1>. QED BY <1>11, <1>12

\* A step of one handler leaves the others' requests alone.
LEMMA OthersStay ==
  ASSUME TypeOK, NEW r \in Requests, Reading(r) \/ Writing(r)
  PROVE  \A q \in Requests : q # r => requests'[q] = requests[q]
<1>0. requests \in [Requests -> Request]
  BY DEF TypeOK, Request
<1>1. ASSUME \/ End(r) \/ Panic(r) \/ \E pc : Goto(r, pc)
             \/ \E q : requests' = [requests EXCEPT ![r] = q]
      PROVE  \A q \in Requests : q # r => requests'[q] = requests[q]
  BY <1>0, <1>1 DEF End, Panic, Goto
<1>2. ASSUME Reading(r) PROVE \A q \in Requests : q # r => requests'[q] = requests[q]
  <2>1. CASE \/ \E u \in Users, right \in BOOLEAN, ip \in Ips :
                  BeginSetup(r, u, right, ip) \/ BeginLogin(r, u, right, ip)
             \/ BeginTeam(r)
    BY <1>1, <2>1 DEF BeginSetup, BeginLogin, BeginTeam, BeginAdmin, Begin
  <2>2. CASE \/ SetupLockout(r) \/ LoginLockout(r) \/ CheckActive(r) \/ RereadUser(r)
             \/ RecordFailure(r) \/ Abort(r)
    BY <1>1, <2>2 DEF SetupLockout, LoginLockout, CheckActive, RereadUser,
       RecordFailure, Abort
  <2>3. CASE Verify(r)
    BY <1>0, <2>3 DEF Verify
  <2>4. CASE \/ CheckExists(r) \/ ReadCurrent(r) \/ ReadTarget(r) \/ CountAdmins(r)
             \/ SetPassword(r) \/ Reply(r)
    BY <1>1, <2>4 DEF CheckExists, ReadCurrent, ReadTarget, CountAdmins, SetPassword,
       Reply
  <2>. QED BY <1>2, <2>1, <2>2, <2>3, <2>4 DEF Reading
<1>3. ASSUME Writing(r) PROVE \A q \in Requests : q # r => requests'[q] = requests[q]
  BY <1>1, <1>3 DEF Writing, SetupCreate, OpenSession, CreateUser, RevokeSessions,
     SetRole, SetActive, DeleteUser
<1>. QED BY <1>2, <1>3

\* A handler that opens a session next, by its request.
LEMMA OpeningHas ==
  ASSUME NEW r \in Requests, NEW u
  PROVE  /\ r \in Opening(u) <=> IsOpening(r) /\ requests[r].user = u
         /\ r \in Opening(u)' <=> IsOpening(r)' /\ requests'[r].user = u
BY DEF Opening, IsOpening, At

\* So its step takes itself away from u's, or changes nothing there.
LEMMA OpeningShrinks ==
  ASSUME TypeOK, NEW r \in Requests, Reading(r) \/ Writing(r), NEW u,
         r \in Opening(u)' => r \in Opening(u)
  PROVE  Opening(u)' \subseteq Opening(u)
<1>1. ASSUME NEW q \in Opening(u)', q # r PROVE q \in Opening(u)
  <2>1. q \in Requests
    BY DEF Opening
  <2>2. requests'[q] = requests[q]
    BY <1>1, <2>1, OthersStay
  <2>. QED BY <1>1, <2>1, <2>2, OpeningHas DEF IsOpening
<1>. QED BY <1>1

\* Fewer sessions and fewer openings, of users who were deactivated before.
LEMMA OvertakenFrame ==
  ASSUME TypeOK, TypeOK', OvertakenInv,
         \A u \in Users : Inactive(u)' =>
           /\ Inactive(u) /\ sessions'[u] <= sessions[u]
           /\ overtaken'[u] = overtaken[u] /\ Opening(u)' \subseteq Opening(u)
  PROVE  OvertakenInv'
<1> SUFFICES ASSUME NEW u \in Users, Inactive(u)'
             PROVE  sessions'[u] + Cardinality(Opening(u)') <= overtaken'[u]
  BY DEF OvertakenInv
<1>1. /\ sessions[u] + Cardinality(Opening(u)) <= overtaken[u]
      /\ sessions'[u] <= sessions[u] /\ overtaken'[u] = overtaken[u]
      /\ Opening(u)' \subseteq Opening(u)
  BY DEF OvertakenInv
<1>2. Opening(u) \in SUBSET Requests
  BY DEF Opening
<1>3. /\ Cardinality(Opening(u)) \in Nat /\ Cardinality(Opening(u)') \in Nat
      /\ Cardinality(Opening(u)') <= Cardinality(Opening(u))
  <2>1. Opening(u)' \in SUBSET Requests
    BY <1>1, <1>2
  <2>. QED BY <1>1, <1>2, <2>1, SubsetCount
<1>4. sessions[u] \in Nat /\ sessions'[u] \in Nat /\ overtaken[u] \in Nat
  BY DEF TypeOK
<1>. QED BY ONLY <1>1, <1>3, <1>4

\* What only reads opens no session, and a login that is let through is of an
\* active user.
LEMMA ReadingOvertakes ==
  ASSUME TypeOK, TypeOK', OvertakenInv, NEW r \in Requests, Reading(r)
  PROVE  OvertakenInv'
<1>1. UNCHANGED <<users, sessions, overtaken>>
  BY ReadingFrame DEF Reading, BeginSetup, BeginLogin, SetupLockout, LoginLockout, Verify,
     CheckActive, RereadUser, RecordFailure, BeginTeam, BeginAdmin, CheckExists,
     ReadCurrent, ReadTarget, CountAdmins, SetPassword, Reply, Abort
<1>2. ASSUME NEW u \in Users, Inactive(u)' PROVE Opening(u)' \subseteq Opening(u)
  <2>1. r \notin Opening(u)'
    BY <1>2, ReadingOpens, OpeningHas DEF StillActive, Inactive
  <2>. QED BY <2>1, OpeningShrinks
<1>3. \A u \in Users : sessions[u] \in Nat
  BY DEF TypeOK
<1>. QED BY <1>1, <1>2, <1>3, OvertakenFrame DEF Inactive

\* Each write: a session opened was one of those that might be, a deactivation
\* counts them anew, and a user set up is active.
LEMMA WritingOvertakes ==
  ASSUME TypeOK, TypeOK', OvertakenInv, NEW r \in Requests, Writing(r)
  PROVE  OvertakenInv'
<1> DEFINE u == requests[r].user
<1>0. /\ sessions \in [Users -> Nat] /\ requests \in [Requests -> Request]
      /\ overtaken \in [Users -> Nat]
      /\ DOMAIN users \subseteq Users
      /\ users \in [DOMAIN users -> [role : Roles, active : BOOLEAN]]
  BY DEF TypeOK, Request
<1>a. \A v \in Users : sessions[v] \in Nat /\ sessions[v] <= sessions[v]
  BY <1>0
<1>1. ASSUME End(r) PROVE ~IsOpening(r)'
  BY <1>0, <1>1 DEF End, Free, IsOpening
<1>2. ASSUME NEW pc, Goto(r, pc), requests[r] \in SignInRequest \cup TeamRequest
      PROVE  /\ requests'[r].op = requests[r].op /\ requests'[r].pc = pc
             /\ requests'[r].user = u
  BY <1>0, <1>2 DEF Goto, SignInRequest, TeamRequest
<1>b. ASSUME ~IsOpening(r)' PROVE \A v \in Users : Opening(v)' \subseteq Opening(v)
  BY <1>b, OpeningHas, OpeningShrinks
<1>3. CASE SetupCreate(r)
  <2>1. requests[r] \in SignInRequest /\ u \in Users
    BY <1>3, RequestKinds DEF SetupCreate, At, SignInRequest
  <2>2. CASE Known(u)
    <3>1. UNCHANGED <<users, sessions, overtaken>> /\ ~IsOpening(r)'
      BY <1>1, <1>3, <2>2 DEF SetupCreate
    <3>. QED BY <1>a, <1>b, <3>1, OvertakenFrame DEF Inactive
  <2>3. CASE ~Known(u)
    <3>1. /\ users' = [v \in DOMAIN users \cup {u} |->
                        IF v = u THEN Row("admin", TRUE) ELSE users[v]]
          /\ Goto(r, "session") /\ UNCHANGED <<sessions, overtaken>>
      BY <1>3, <2>3 DEF SetupCreate
    <3>2. requests'[r].user = u /\ ~Inactive(u)'
      BY <1>2, <2>1, <3>1 DEF Inactive, Row
    <3>3. ASSUME NEW v \in Users, Inactive(v)'
          PROVE  Inactive(v) /\ Opening(v)' \subseteq Opening(v)
      <4>1. v # u
        BY <3>2, <3>3
      <4>2. Inactive(v)
        BY <3>1, <3>3, <4>1 DEF Inactive
      <4>3. r \notin Opening(v)'
        BY <3>2, <4>1, OpeningHas
      <4>. QED BY <4>2, <4>3, OpeningShrinks
    <3>. QED BY <1>a, <3>1, <3>3, OvertakenFrame
  <2>. QED BY <2>2, <2>3
<1>4. CASE OpenSession(r)
  <2>1. requests[r] \in SignInRequest /\ IsOpening(r) /\ u \in Users
    BY <1>4, RequestKinds DEF OpenSession, At, IsOpening, SignInRequest
  <2>2. UNCHANGED <<users, overtaken>> /\ ~IsOpening(r)'
    BY <1>1, <1>2, <1>4, <2>1 DEF OpenSession, IsOpening
  <2>3. CASE Known(u)
    <3>1. sessions' = [sessions EXCEPT ![u] = @ + 1]
      BY <1>4, <2>3 DEF OpenSession
    <3>2. ASSUME NEW v \in Users, Inactive(v)'
          PROVE  sessions'[v] + Cardinality(Opening(v)') <= overtaken'[v]
      <4>1. /\ sessions[v] + Cardinality(Opening(v)) <= overtaken[v]
            /\ overtaken'[v] = overtaken[v]
        BY <2>2, <3>2 DEF OvertakenInv, Inactive
      <4>2. /\ Opening(v) \in SUBSET Requests /\ Opening(v)' \subseteq Opening(v)
            /\ r \notin Opening(v)'
        BY <1>b, <2>2, OpeningHas DEF Opening
      <4>3. CASE v = u
        <5>1. r \in Opening(v)
          BY <2>1, <4>3, OpeningHas
        <5>2. Opening(v)' \in SUBSET (Opening(v) \ {r})
          BY <4>2
        <5>3. /\ Cardinality(Opening(v)) \in Nat /\ Cardinality(Opening(v)') \in Nat
              /\ Cardinality(Opening(v)') <= Cardinality(Opening(v)) - 1
          <6>1. /\ Cardinality(Opening(v)) \in Nat
                /\ Cardinality(Opening(v) \ {r}) = Cardinality(Opening(v)) - 1
            BY <4>2, <5>1, SubsetCount
          <6>2. Opening(v) \ {r} \in SUBSET Requests /\ Opening(v)' \in SUBSET Requests
            BY <4>2
          <6>3. /\ Cardinality(Opening(v)') \in Nat
                /\ Cardinality(Opening(v)') <= Cardinality(Opening(v) \ {r})
            BY <5>2, <6>2, SubsetCount
          <6>. QED BY <6>1, <6>3
        <5>4. sessions'[v] = sessions[v] + 1
          BY <1>0, <2>1, <3>1, <4>3
        <5>5. sessions[v] \in Nat /\ overtaken[v] \in Nat
          BY <1>0
        <5>. QED BY ONLY <4>1, <5>3, <5>4, <5>5
      <4>4. CASE v # u
        <5>1. sessions'[v] = sessions[v] /\ sessions[v] \in Nat /\ overtaken[v] \in Nat
          BY <1>0, <3>1, <4>4
        <5>2. /\ Cardinality(Opening(v)) \in Nat /\ Cardinality(Opening(v)') \in Nat
              /\ Cardinality(Opening(v)') <= Cardinality(Opening(v))
          <6>1. Opening(v)' \in SUBSET Requests
            BY <4>2
          <6>. QED BY <4>2, <6>1, SubsetCount
        <5>. QED BY ONLY <4>1, <5>1, <5>2
      <4>. QED BY <4>3, <4>4
    <3>. QED BY <3>2 DEF OvertakenInv
  <2>4. CASE ~Known(u)
    <3>1. UNCHANGED sessions
      BY <1>4, <2>4 DEF OpenSession
    <3>. QED BY <1>a, <1>b, <2>2, <3>1, OvertakenFrame DEF Inactive
  <2>. QED BY <2>3, <2>4
<1>5. CASE CreateUser(r)
  <2>1. ~IsOpening(r)' /\ UNCHANGED <<sessions, overtaken>>
    BY <1>1, <1>5 DEF CreateUser
  <2>2. \A v \in Users : Inactive(v)' => Inactive(v)
    BY <1>5 DEF CreateUser, Known, Row, Inactive
  <2>. QED BY <1>a, <1>b, <2>1, <2>2, OvertakenFrame
<1>6. CASE RevokeSessions(r)
  <2>1. ~IsOpening(r)' /\ UNCHANGED <<users, overtaken>>
    BY <1>1, <1>6 DEF RevokeSessions
  <2>2. \A v \in Users : sessions'[v] <= sessions[v]
    BY <1>0, <1>6 DEF RevokeSessions
  <2>. QED BY <1>b, <2>1, <2>2, OvertakenFrame DEF Inactive
<1>7. CASE SetRole(r)
  <2>1. requests[r].op = "patch" /\ requests[r] \in TeamRequest
        /\ UNCHANGED <<sessions, overtaken>>
    BY <1>7, RequestKinds DEF SetRole, At
  <2>2. ~IsOpening(r)'
    BY <1>1, <1>2, <1>7, <2>1 DEF SetRole, IsOpening
  <2>3. DOMAIN users' = DOMAIN users /\ \A v \in DOMAIN users : users'[v].active = users[v].active
    <3>1. CASE Known(u)
      <4>1. users' = [users EXCEPT ![u].role = requests[r].role]
        BY <1>7, <3>1 DEF SetRole
      <4>. QED BY <1>0, <4>1
    <3>2. CASE ~Known(u)
      BY <1>7, <3>2 DEF SetRole
    <3>. QED BY <3>1, <3>2
  <2>. QED BY <1>a, <1>b, <2>1, <2>2, <2>3, OvertakenFrame DEF Inactive
<1>8. CASE SetActive(r)
  <2>1. requests[r].op = "patch" /\ requests[r] \in TeamRequest
    BY <1>8, RequestKinds DEF SetActive, At
  <2>2. ~IsOpening(r)'
    BY <1>1, <1>2, <1>8, <2>1 DEF SetActive, IsOpening
  <2>3. CASE Known(u)
    <3> DEFINE active == requests[r].active = "yes"
               counted == Cardinality(Opening(u))
    <3>1. /\ users' = [users EXCEPT ![u].active = active]
          /\ sessions' = IF active THEN sessions ELSE [sessions EXCEPT ![u] = 0]
          /\ overtaken' = IF active THEN overtaken
                          ELSE [overtaken EXCEPT ![u] = counted]
      BY <1>8, <2>3 DEF SetActive
    <3>2. u \in DOMAIN users /\ u \in Users
      BY <1>0, <2>3 DEF Known
    <3>3. active \in BOOLEAN
      OBVIOUS
    <3>. HIDE DEF active, counted
    <3>4. DOMAIN users' = DOMAIN users /\ users'[u].active = active
      BY <1>0, <3>1, <3>2, <3>3
    <3>5. \A v \in Users : v # u =>
            /\ users'[v] = users[v] /\ sessions'[v] = sessions[v]
            /\ overtaken'[v] = overtaken[v]
      BY <1>0, <3>1
    <3>6. ASSUME NEW v \in Users, Inactive(v)'
          PROVE  sessions'[v] + Cardinality(Opening(v)') <= overtaken'[v]
      <4>1. CASE v = u
        <5>1. ~active
          BY <3>4, <3>6, <4>1 DEF Inactive
        <5>2. sessions'[v] = 0 /\ overtaken'[v] = counted
          BY <1>0, <3>1, <3>2, <4>1, <5>1
        <5>3. counted = Cardinality(Opening(v))
          BY <4>1 DEF counted
        <5>4. /\ Cardinality(Opening(v)) \in Nat /\ Cardinality(Opening(v)') \in Nat
              /\ Cardinality(Opening(v)') <= Cardinality(Opening(v))
          <6>1. Opening(v) \in SUBSET Requests /\ Opening(v)' \in SUBSET Opening(v)
            BY <1>b, <2>2 DEF Opening
          <6>2. Opening(v)' \in SUBSET Requests
            BY <6>1
          <6>. QED BY <6>1, <6>2, SubsetCount
        <5>. QED BY ONLY <5>2, <5>3, <5>4
      <4>2. CASE v # u
        <5>1. /\ sessions[v] + Cardinality(Opening(v)) <= overtaken[v]
              /\ sessions'[v] = sessions[v] /\ overtaken'[v] = overtaken[v]
          BY <3>4, <3>5, <3>6, <4>2 DEF OvertakenInv, Inactive
        <5>2. /\ Cardinality(Opening(v)) \in Nat /\ Cardinality(Opening(v)') \in Nat
              /\ Cardinality(Opening(v)') <= Cardinality(Opening(v))
          <6>1. Opening(v) \in SUBSET Requests /\ Opening(v)' \in SUBSET Opening(v)
            BY <1>b, <2>2 DEF Opening
          <6>2. Opening(v)' \in SUBSET Requests
            BY <6>1
          <6>. QED BY <6>1, <6>2, SubsetCount
        <5>3. sessions[v] \in Nat /\ overtaken[v] \in Nat
          BY <1>0
        <5>. QED BY ONLY <5>1, <5>2, <5>3
      <4>. QED BY <4>1, <4>2
    <3>. QED BY <3>6 DEF OvertakenInv
  <2>4. CASE ~Known(u)
    <3>1. UNCHANGED <<users, sessions, overtaken>>
      BY <1>8, <2>4 DEF SetActive
    <3>. QED BY <1>a, <1>b, <2>2, <3>1, OvertakenFrame DEF Inactive
  <2>. QED BY <2>3, <2>4
<1>9. CASE DeleteUser(r)
  <2>1. ~IsOpening(r)' /\ UNCHANGED overtaken
    BY <1>1, <1>9 DEF DeleteUser
  <2>2. \A v \in Users : Inactive(v)' => Inactive(v)
    BY <1>9 DEF DeleteUser, Inactive
  <2>3. \A v \in Users : sessions'[v] <= sessions[v]
    BY <1>0, <1>9 DEF DeleteUser
  <2>. QED BY <1>b, <2>1, <2>2, <2>3, OvertakenFrame
<1>. QED BY <1>3, <1>4, <1>5, <1>6, <1>7, <1>8, <1>9 DEF Writing

\* store.rs:1157-1159 as it holds, for any number of requests at once: a
\* deactivated user has no more sessions than there were requests past their
\* check of the user, with the session still to open, when the deactivation
\* committed (auth.rs handle_login, handle_setup).  The sum of the sessions and
\* of those still to be opened is the invariant: opening one moves it from the
\* second to the first, and a login that checks later adds to neither.
THEOREM OnlyOvertakenAlwaysStay == Spec => []OnlyOvertakenStay
<1>1. Init => OvertakenInv
  BY DEF Init, NoUsers, OvertakenInv, Inactive
<1>2. ASSUME TypeOK, TypeOK', OvertakenInv, [Next]_vars PROVE OvertakenInv'
  <2>1. ASSUME NEW u \in Users, EndSession(u) PROVE OvertakenInv'
    <3>1. /\ UNCHANGED <<users, requests, overtaken>> /\ sessions \in [Users -> Nat]
          /\ sessions' = [sessions EXCEPT ![u] = @ - 1]
      BY <1>2, <2>1 DEF EndSession, TypeOK
    <3>2. \A v \in Users : sessions'[v] <= sessions[v]
      BY <3>1
    <3>3. \A v \in Users : Opening(v)' = Opening(v)
      BY <3>1 DEF Opening, At
    <3>. QED BY <1>2, <3>1, <3>2, <3>3, OvertakenFrame DEF Inactive
  <2>2. CASE UNCHANGED vars
    BY <1>2, <2>2 DEF vars, OvertakenInv, Inactive, Opening, At
  <2>. QED BY <1>2, <2>1, <2>2, NextSplit, ReadingOvertakes, WritingOvertakes
<1>3. ASSUME TypeOK, OvertakenInv PROVE OnlyOvertakenStay
  <2> SUFFICES ASSUME NEW u \in DOMAIN users, ~users[u].active
               PROVE  sessions[u] <= overtaken[u]
    BY DEF OnlyOvertakenStay
  <2>1. u \in Users /\ sessions[u] \in Nat /\ overtaken[u] \in Nat
    BY <1>3 DEF TypeOK
  <2>2. sessions[u] + Cardinality(Opening(u)) <= overtaken[u]
    BY <1>3, <2>1 DEF OvertakenInv, Inactive
  <2>3. Cardinality(Opening(u)) \in Nat
    <3>1. Opening(u) \in SUBSET Requests
      BY DEF Opening
    <3>. QED BY <3>1, SubsetCount
  <2>. QED BY ONLY <2>1, <2>2, <2>3
<1>. QED BY <1>1, <1>2, <1>3, AccountsTyped, PTL DEF Spec

----------------------------------------------------------------------------
(***************************************************************************)
(* Texts of times                                                          *)
(***************************************************************************)

\* a < b, byte by byte, without subsequences.
LEMMA BelowByBytes ==
  ASSUME NEW a \in Seq(Int), NEW b \in Seq(Int)
  PROVE  Below(a, b) <=>
           \E k \in 1 .. Len(b) :
             /\ k <= Len(a) + 1
             /\ \A j \in 1 .. (k - 1) : a[j] = b[j]
             /\ k > Len(a) \/ a[k] < b[k]
<1>1. ASSUME NEW k \in 1 .. Len(b), k <= Len(a) + 1
      PROVE  SubSeq(a, 1, k - 1) = SubSeq(b, 1, k - 1)
               <=> \A j \in 1 .. (k - 1) : a[j] = b[j]
  <2>1. /\ SubSeq(a, 1, k - 1) = [j \in 1 .. (k - 1) |-> a[j]]
        /\ SubSeq(b, 1, k - 1) = [j \in 1 .. (k - 1) |-> b[j]]
    BY <1>1
  <2>. QED BY <2>1
<1>2. DOMAIN b = 1 .. Len(b)
  OBVIOUS
<1>. QED BY <1>1, <1>2 DEF Below

\* A text's length and bytes.
LEMMA TextWritten ==
  ASSUME NEW t \in Int
  PROVE  LET x == Text(t) IN
         /\ x \in Seq(Int) /\ x[1] = t \div 4
         /\ t % 4 = 0 => Len(x) = 2 /\ x[2] = 43
         /\ t % 4 = 1 => Len(x) = 5 /\ x[2] = 46 /\ x[3] = 48 /\ x[4] = 49 /\ x[5] = 43
         /\ t % 4 = 2 => Len(x) = 4 /\ x[2] = 46 /\ x[3] = 49 /\ x[4] = 43
         /\ t % 4 = 3 => Len(x) = 5 /\ x[2] = 46 /\ x[3] = 49 /\ x[4] = 49 /\ x[5] = 43
         /\ t % 4 \in 0 .. 3 /\ t \div 4 \in Int /\ t = 4 * (t \div 4) + (t % 4)
<1> DEFINE f == Fraction(t)
           x == Text(t)
           q == t \div 4
<1>1. t % 4 \in 0 .. 3 /\ q \in Int /\ t = 4 * q + (t % 4)
  OBVIOUS
<1>2. /\ f \in Seq(Int)
      /\ t % 4 = 0 => Len(f) = 0
      /\ t % 4 = 1 => Len(f) = 3 /\ f[1] = 46 /\ f[2] = 48 /\ f[3] = 49
      /\ t % 4 = 2 => Len(f) = 2 /\ f[1] = 46 /\ f[2] = 49
      /\ t % 4 = 3 => Len(f) = 3 /\ f[1] = 46 /\ f[2] = 49 /\ f[3] = 49
  <2>1. CASE t % 4 = 0
    BY <2>1 DEF Fraction
  <2>2. CASE t % 4 = 1
    BY <2>2 DEF Fraction, Dot, Digit
  <2>3. CASE t % 4 = 2
    BY <2>3 DEF Fraction, Dot, Digit
  <2>4. CASE t % 4 = 3
    BY <2>4 DEF Fraction, Dot, Digit
  <2>. QED BY <1>1, <2>1, <2>2, <2>3, <2>4
<1>3. /\ x \in Seq(Int) /\ Len(x) = Len(f) + 2 /\ x[1] = q
      /\ \A i \in 1 .. Len(f) : x[i + 1] = f[i]
      /\ x[Len(f) + 2] = 43
  <2> DEFINE head == <<q>> \o f
  <2> HIDE DEF f, q
  <2>1. <<q>> \in Seq(Int) /\ Len(<<q>>) = 1 /\ <<q>>[1] = q
    BY <1>1
  <2>2. /\ head \in Seq(Int) /\ Len(head) = 1 + Len(f)
        /\ \A i \in 1 .. Len(head) : head[i] = IF i <= 1 THEN <<q>>[i] ELSE f[i - 1]
    BY <1>2, <2>1, ConcatProperties
  <2>3. x = head \o <<43>>
    BY DEF Text, Plus, f, q
  <2>4. <<43>> \in Seq(Int) /\ Len(<<43>>) = 1 /\ <<43>>[1] = 43
    OBVIOUS
  <2> HIDE DEF head, x
  <2>5. /\ x \in Seq(Int) /\ Len(x) = Len(head) + 1
        /\ \A i \in 1 .. Len(x) : x[i] = IF i <= Len(head) THEN head[i] ELSE <<43>>[i - Len(head)]
    BY <2>2, <2>3, <2>4, ConcatProperties
  <2>6. Len(f) \in Nat
    BY <1>2
  <2>7. x[1] = q
    BY <2>1, <2>2, <2>5, <2>6
  <2>8. ASSUME NEW i \in 1 .. Len(f) PROVE x[i + 1] = f[i]
    <3> DEFINE k == i + 1
    <3>1. k \in 1 .. Len(head) /\ k \in 1 .. Len(x) /\ k <= Len(head) /\ ~(k <= 1) /\ k - 1 = i
      BY <2>2, <2>5, <2>6
    <3> HIDE DEF k
    <3>2. x[k] = head[k]
      BY <2>5, <3>1
    <3>3. head[k] = f[i]
      BY <2>2, <3>1
    <3>. QED BY <3>2, <3>3 DEF k
  <2>9. x[Len(f) + 2] = 43
    BY <2>2, <2>4, <2>5, <2>6
  <2>. QED BY <2>2, <2>5, <2>6, <2>7, <2>8, <2>9
<1> HIDE DEF f, x, q
<1>4. /\ t % 4 = 0 => Len(x) = 2 /\ x[2] = 43
      /\ t % 4 = 1 => Len(x) = 5 /\ x[2] = 46 /\ x[3] = 48 /\ x[4] = 49 /\ x[5] = 43
      /\ t % 4 = 2 => Len(x) = 4 /\ x[2] = 46 /\ x[3] = 49 /\ x[4] = 43
      /\ t % 4 = 3 => Len(x) = 5 /\ x[2] = 46 /\ x[3] = 49 /\ x[4] = 49 /\ x[5] = 43
  <2>1. ASSUME Len(f) >= 1 PROVE x[2] = f[1]
    <3>1. 1 \in 1 .. Len(f)
      BY <1>2, <2>1
    <3>. QED BY <1>3, <3>1
  <2>2. ASSUME Len(f) >= 2 PROVE x[3] = f[2]
    <3>1. 2 \in 1 .. Len(f)
      BY <1>2, <2>2
    <3>. QED BY <1>3, <3>1
  <2>3. ASSUME Len(f) >= 3 PROVE x[4] = f[3]
    <3>1. 3 \in 1 .. Len(f)
      BY <1>2, <2>3
    <3>. QED BY <1>3, <3>1
  <2>4. ASSUME t % 4 = 0 PROVE Len(x) = 2 /\ x[2] = 43
    <3>1. Len(f) = 0
      BY <1>2, <2>4
    <3>. QED BY <1>3, <3>1
  <2>5. ASSUME t % 4 = 1
        PROVE  Len(x) = 5 /\ x[2] = 46 /\ x[3] = 48 /\ x[4] = 49 /\ x[5] = 43
    <3>1. Len(f) = 3 /\ f[1] = 46 /\ f[2] = 48 /\ f[3] = 49
      BY <1>2, <2>5
    <3>2. Len(x) = 5 /\ x[5] = 43
      BY <1>3, <3>1
    <3>. QED BY <2>1, <2>2, <2>3, <3>1, <3>2
  <2>6. ASSUME t % 4 = 2
        PROVE  Len(x) = 4 /\ x[2] = 46 /\ x[3] = 49 /\ x[4] = 43
    <3>1. Len(f) = 2 /\ f[1] = 46 /\ f[2] = 49
      BY <1>2, <2>6
    <3>2. Len(x) = 4 /\ x[4] = 43
      BY <1>3, <3>1
    <3>. QED BY <2>1, <2>2, <3>1, <3>2
  <2>7. ASSUME t % 4 = 3
        PROVE  Len(x) = 5 /\ x[2] = 46 /\ x[3] = 49 /\ x[4] = 49 /\ x[5] = 43
    <3>1. Len(f) = 3 /\ f[1] = 46 /\ f[2] = 49 /\ f[3] = 49
      BY <1>2, <2>7
    <3>2. Len(x) = 5 /\ x[5] = 43
      BY <1>3, <3>1
    <3>. QED BY <2>1, <2>2, <2>3, <3>1, <3>2
  <2>. QED BY <2>4, <2>5, <2>6, <2>7
<1>. QED BY <1>1, <1>3, <1>4 DEF x, q

\* The first byte in which they differ decides.
LEMMA FirstDifference ==
  ASSUME NEW a \in Seq(Int), NEW b \in Seq(Int),
         NEW k \in Nat \ {0}, k <= Len(a), k <= Len(b), a[k] # b[k],
         \A j \in 1 .. (k - 1) : a[j] = b[j]
  PROVE  Below(a, b) <=> a[k] < b[k]
<1>1. Below(a, b) <=>
        \E n \in 1 .. Len(b) :
          /\ n <= Len(a) + 1
          /\ \A j \in 1 .. (n - 1) : a[j] = b[j]
          /\ n > Len(a) \/ a[n] < b[n]
  BY BelowByBytes
<1>2. ASSUME a[k] < b[k] PROVE Below(a, b)
  <2>1. k \in 1 .. Len(b) /\ k <= Len(a) + 1
    OBVIOUS
  <2>. QED BY <1>1, <1>2, <2>1
<1>3. ASSUME NEW n \in 1 .. Len(b), n <= Len(a) + 1,
             \A j \in 1 .. (n - 1) : a[j] = b[j],
             n > Len(a) \/ a[n] < b[n]
      PROVE  a[k] < b[k]
  <2>1. n <= k
    BY <1>3
  <2>2. n = k
    <3>1. SUFFICES ASSUME n < k PROVE FALSE
      BY <2>1
    <3>2. a[n] = b[n] /\ n <= Len(a) /\ a[n] \in Int
      BY <3>1
    <3>. QED BY <1>3, <3>2
  <2>. QED BY <1>3, <2>2
<1>. QED BY <1>1, <1>2, <1>3

\* No text sorts below itself.
LEMMA NotBelowItself ==
  ASSUME NEW a \in Seq(Int)
  PROVE  ~Below(a, a)
<1>1. \A n \in 1 .. Len(a) : a[n] \in Int /\ ~(n > Len(a))
  OBVIOUS
<1>. QED BY <1>1, BelowByBytes

\* The texts sort as the times they stand for, although a fraction is written in
\* as many digits as it needs and the offset follows it: the + of the offset
\* sorts below the point and below every digit (lockout.rs, store.rs:1388).
THEOREM TextsSortAsTimes ==
  ASSUME NEW s \in Int, NEW t \in Int
  PROVE  Below(Text(s), Text(t)) <=> s < t
<1> DEFINE a == Text(s)
           b == Text(t)
           p == s \div 4
           q == t \div 4
           m == s % 4
           n == t % 4
<1>1. /\ a \in Seq(Int) /\ a[1] = p
      /\ m = 0 => Len(a) = 2 /\ a[2] = 43
      /\ m = 1 => Len(a) = 5 /\ a[2] = 46 /\ a[3] = 48 /\ a[4] = 49 /\ a[5] = 43
      /\ m = 2 => Len(a) = 4 /\ a[2] = 46 /\ a[3] = 49 /\ a[4] = 43
      /\ m = 3 => Len(a) = 5 /\ a[2] = 46 /\ a[3] = 49 /\ a[4] = 49 /\ a[5] = 43
      /\ m \in 0 .. 3 /\ p \in Int /\ s = 4 * p + m
  BY TextWritten
<1>2. /\ b \in Seq(Int) /\ b[1] = q
      /\ n = 0 => Len(b) = 2 /\ b[2] = 43
      /\ n = 1 => Len(b) = 5 /\ b[2] = 46 /\ b[3] = 48 /\ b[4] = 49 /\ b[5] = 43
      /\ n = 2 => Len(b) = 4 /\ b[2] = 46 /\ b[3] = 49 /\ b[4] = 43
      /\ n = 3 => Len(b) = 5 /\ b[2] = 46 /\ b[3] = 49 /\ b[4] = 49 /\ b[5] = 43
      /\ n \in 0 .. 3 /\ q \in Int /\ t = 4 * q + n
  BY TextWritten
<1>3. CASE s = t
  BY <1>1, <1>3, NotBelowItself
<1>4. CASE p # q
  <2>1. Len(a) >= 1 /\ Len(b) >= 1 /\ a[1] # b[1]
    <3> HIDE DEF a, b, p, q, m, n
    <3>1. Len(a) >= 1
      BY <1>1
    <3>2. Len(b) >= 1
      BY <1>2
    <3>. QED BY <1>1, <1>2, <1>4, <3>1, <3>2
  <2>2. Below(a, b) <=> a[1] < b[1]
    <3> HIDE DEF a, b, p, q, m, n
    <3>1. a \in Seq(Int) /\ b \in Seq(Int)
      BY <1>1, <1>2
    <3>2. 1 \in Nat \ {0} /\ \A j \in 1 .. (1 - 1) : a[j] = b[j]
      OBVIOUS
    <3>. QED BY ONLY <2>1, <3>1, <3>2, FirstDifference
  <2>3. s < t <=> p < q
    BY <1>1, <1>2, <1>4
  <2>. QED BY <1>1, <1>2, <2>2, <2>3
<1>5. CASE p = q /\ s # t
  <2> HIDE DEF a, b, p, q, m, n
  <2>0. a \in Seq(Int) /\ b \in Seq(Int)
    BY <1>1, <1>2
  <2>1. (s < t <=> m < n) /\ m # n
    BY <1>1, <1>2, <1>5
  <2>2. CASE m = 0 \/ n = 0
    <3>1. /\ Len(a) >= 2 /\ Len(b) >= 2 /\ a[2] # b[2] /\ a[1] = b[1]
          /\ a[2] < b[2] <=> m < n
      <4>1. a[1] = b[1]
        BY <1>1, <1>2, <1>5
      <4>2. Len(a) >= 2 /\ ((m = 0 /\ a[2] = 43) \/ (m \in 1 .. 3 /\ a[2] = 46))
        BY <1>1
      <4>3. Len(b) >= 2 /\ ((n = 0 /\ b[2] = 43) \/ (n \in 1 .. 3 /\ b[2] = 46))
        BY <1>2
      <4>. QED BY <2>1, <2>2, <4>1, <4>2, <4>3
    <3>2. \A j \in 1 .. (2 - 1) : a[j] = b[j]
      BY <3>1
    <3>3. Below(a, b) <=> a[2] < b[2]
      BY <2>0, <3>1, <3>2, FirstDifference
    <3>. QED BY <2>1, <3>1, <3>3 DEF a, b
  <2>3. CASE m # 0 /\ n # 0 /\ (m = 1 \/ n = 1)
    <3>1. /\ Len(a) >= 3 /\ Len(b) >= 3 /\ a[3] # b[3] /\ a[1] = b[1] /\ a[2] = b[2]
          /\ a[3] < b[3] <=> m < n
      <4>1. a[1] = b[1]
        BY <1>1, <1>2, <1>5
      <4>2. /\ Len(a) >= 3 /\ a[2] = 46
            /\ (m = 1 /\ a[3] = 48) \/ (m \in {2, 3} /\ a[3] = 49)
        BY <1>1, <2>3
      <4>3. /\ Len(b) >= 3 /\ b[2] = 46
            /\ (n = 1 /\ b[3] = 48) \/ (n \in {2, 3} /\ b[3] = 49)
        BY <1>2, <2>3
      <4>. QED BY <2>1, <2>3, <4>1, <4>2, <4>3
    <3>2. \A j \in 1 .. (3 - 1) : a[j] = b[j]
      BY <3>1
    <3>3. Below(a, b) <=> a[3] < b[3]
      <4>1. 3 \in Nat \ {0}
        OBVIOUS
      <4>. QED BY ONLY <2>0, <3>1, <3>2, <4>1, FirstDifference
    <3>. QED BY <2>1, <3>1, <3>3 DEF a, b
  <2>4. CASE m \in {2, 3} /\ n \in {2, 3}
    <3>0. /\ Len(a) >= 4 /\ a[2] = 46 /\ a[3] = 49
          /\ (m = 2 /\ a[4] = 43) \/ (m = 3 /\ a[4] = 49)
      BY <1>1, <2>4
    <3>00. /\ Len(b) >= 4 /\ b[2] = 46 /\ b[3] = 49
           /\ (n = 2 /\ b[4] = 43) \/ (n = 3 /\ b[4] = 49)
      BY <1>2, <2>4
    <3>1. Len(a) >= 4 /\ Len(b) >= 4 /\ a[4] # b[4]
      BY <2>1, <3>0, <3>00
    <3>2. a[1] = b[1] /\ a[2] = b[2] /\ a[3] = b[3] /\ (a[4] < b[4] <=> m < n)
      <4>1. a[1] = b[1]
        BY <1>1, <1>2, <1>5
      <4>. QED BY <2>1, <3>0, <3>00, <4>1
    <3>3. \A j \in 1 .. (4 - 1) : a[j] = b[j]
      BY <3>2
    <3>4. Below(a, b) <=> a[4] < b[4]
      <4>1. ASSUME NEW k \in Nat \ {0}, k = 4 PROVE Below(a, b) <=> a[k] < b[k]
        BY <2>0, <3>1, <3>3, <4>1, FirstDifference
      <4>. QED BY <4>1
    <3>. QED BY <2>1, <3>2, <3>4 DEF a, b
  <2>. QED BY <1>1, <1>2, <2>2, <2>3, <2>4
<1>. QED BY <1>3, <1>4, <1>5

----------------------------------------------------------------------------
(***************************************************************************)
(* The lockout over time                                                   *)
(***************************************************************************)

AttemptRow == [user : Users \cup {NoName}, ip : Ips, at : Int, success : BOOLEAN]

\* A table of attempts, none of them later than at.
AttemptsUntil(rows, at) ==
  \A i \in DOMAIN rows : rows[i] \in AttemptRow /\ rows[i].at <= at

\* The failures since an instant that have who in a column.
FailedSince(rows, column, who, since) ==
  {i \in DOMAIN rows : /\ rows[i].success = FALSE
                       /\ rows[i][column] = who
                       /\ rows[i].at >= since}

\* The query counts the failures that are not before since, as times.
LEMMA FailuresByTime ==
  ASSUME NEW at, NEW rows, AttemptsUntil(rows, at), NEW column, NEW who,
         NEW since \in Int
  PROVE  Failures(rows, column, who, since)
           = Cardinality(FailedSince(rows, column, who, since))
<1>1. ASSUME NEW i \in DOMAIN rows
      PROVE  ~Below(Text(rows[i].at), Text(since)) <=> rows[i].at >= since
  <2>1. rows[i].at \in Int
    BY DEF AttemptsUntil, AttemptRow
  <2>. QED BY <2>1, TextsSortAsTimes
<1>2. {i \in DOMAIN rows : /\ rows[i].success = FALSE
                           /\ rows[i][column] = who
                           /\ ~Below(Text(rows[i].at), Text(since))}
      = FailedSince(rows, column, who, since)
  BY <1>1, Zenon DEF FailedSince
<1>. QED BY <1>2 DEF Failures

\* Whoever is refused and waits out Retry-After is let through, whatever
\* attempts are on record by then but for later ones (lockout.rs:71-87), for
\* any thresholds and times.
THEOREM WaitingLetsThrough ==
  ASSUME NEW login \in AttemptRow,
         NEW rows, AttemptsUntil(rows, login.at)
  PROVE  ~Refuses(rows, [login EXCEPT !.at = @ + Cooldown + 1])
<1> DEFINE later == [login EXCEPT !.at = @ + Cooldown + 1]
           since == later.at - Window
<1>1. since = login.at + 1 /\ login.at \in Int /\ since \in Int
  BY DEF Window, Cooldown, AttemptRow
<1>2. ASSUME NEW column, NEW who PROVE Failures(rows, column, who, since) = 0
  <2>1. FailedSince(rows, column, who, since) = {}
    <3> SUFFICES ASSUME NEW i \in DOMAIN rows, rows[i].at >= since PROVE FALSE
      BY DEF FailedSince
    <3>1. rows[i].at \in Int /\ rows[i].at <= login.at
      BY DEF AttemptsUntil, AttemptRow
    <3>. QED BY <1>1, <3>1
  <2> HIDE DEF since
  <2>2. Failures(rows, column, who, since) = Cardinality({})
    BY <1>1, <2>1, FailuresByTime
  <2>. QED BY <2>2, FS_EmptySet
<1>3. ~Blocked(0, 0)
  BY AccountsAssumption DEF Blocked
<1>. QED BY <1>2, <1>3 DEF Refuses

\* What may happen next: time passes, the hourly tick, or an attempt to sign in.
NextAttempt(s) ==
  {[s EXCEPT !.at = @ + gap] : gap \in Nat}
    \cup {Prune(s)}
    \cup {Login(s, Attempt(u, ip, s.at, success)) :
            u \in Users \cup {NoName}, ip \in Ips, success \in BOOLEAN}

\* The table of s is what is left of the rows there ever were, and every row
\* that a query can count is left; the rows there ever were are in the order of
\* their times.
RowsLeft(rows, ever, at) ==
  /\ at \in Int
  /\ ever \in Seq(AttemptRow)
  /\ \A i \in 1 .. Len(ever) : ever[i].at <= at
  /\ \A i, j \in 1 .. Len(ever) : i <= j => ever[i].at <= ever[j].at
  /\ DOMAIN rows \subseteq 1 .. Len(ever)
  /\ \A i \in DOMAIN rows : rows[i] = ever[i]
  /\ \A i \in 1 .. Len(ever) : ever[i].at >= at - Keep => i \in DOMAIN rows

\* No column of ever has more failures of one value in a window than limit.
WindowsWithin(ever, column, S, limit) ==
  \A i \in 1 .. Len(ever), who \in S :
    Cardinality(InWindowFrom(ever, i, column, who)) <= limit

LockoutInv(s) ==
  /\ s = [at |-> s.at, rows |-> s.rows, ever |-> s.ever, refused |-> s.refused]
  /\ RowsLeft(s.rows, s.ever, s.at)
  /\ WindowsWithin(s.ever, "user", Users \ {NoName}, UserThreshold)
  /\ WindowsWithin(s.ever, "ip", Ips, IpThreshold)
  /\ \A r \in s.refused :
       r.login \in AttemptRow /\ AttemptsUntil(r.met, r.login.at)

\* The failures in a window are finitely many.
LEMMA WindowFinite ==
  ASSUME NEW ever \in Seq(AttemptRow), NEW i \in Nat \ {0}, NEW column, NEW who
  PROVE  /\ InWindowFrom(ever, i, column, who) \subseteq 1 .. Len(ever)
         /\ IsFiniteSet(InWindowFrom(ever, i, column, who))
<1>1. Len(ever) \in Nat /\ IsFiniteSet(1 .. Len(ever))
  BY FS_Interval
<1>2. InWindowFrom(ever, i, column, who) \subseteq 1 .. Len(ever)
  BY <1>1 DEF InWindowFrom
<1>. QED BY <1>1, <1>2, FS_Subset

\* One failure more than were counted is within the limit.
LEMMA OneMoreFits ==
  ASSUME NEW counted, IsFiniteSet(counted), NEW old \in SUBSET counted,
         NEW k, NEW new \in SUBSET (old \cup {k}),
         NEW limit \in Nat, Cardinality(counted) < limit
  PROVE  Cardinality(new) <= limit
<1>1. IsFiniteSet(old) /\ Cardinality(old) <= Cardinality(counted)
  BY FS_Subset
<1>2. Cardinality(old) \in Nat /\ Cardinality(counted) \in Nat
  BY <1>1, FS_CardinalityType
<1>3. IsFiniteSet(old \cup {k}) /\ Cardinality(old \cup {k}) <= Cardinality(old) + 1
  BY <1>1, <1>2, FS_AddElement
<1>4. IsFiniteSet(new) /\ Cardinality(new) <= Cardinality(old \cup {k})
  BY <1>3, FS_Subset
<1>5. Cardinality(new) \in Nat /\ Cardinality(old \cup {k}) \in Nat
  BY <1>3, <1>4, FS_CardinalityType
<1>. QED BY <1>1, <1>2, <1>3, <1>4, <1>5

\* What one row more adds to a window: itself at most.
LEMMA WindowAfterRow ==
  ASSUME NEW ever \in Seq(AttemptRow), NEW row \in AttemptRow,
         NEW i \in 1 .. Len(ever) + 1, NEW column, NEW who
  PROVE  LET n == Len(ever)
             new == InWindowFrom(Append(ever, row), i, column, who)
         IN  /\ i <= n => new \subseteq InWindowFrom(ever, i, column, who) \cup {n + 1}
             /\ i = n + 1 => new \subseteq {n + 1}
             /\ n + 1 \in new => row[column] = who
             /\ n + 1 \in new /\ i <= n => row.at <= ever[i].at + Window
<1> DEFINE n == Len(ever)
           more == Append(ever, row)
           new == InWindowFrom(more, i, column, who)
<1>1. /\ n \in Nat /\ Len(more) = n + 1 /\ more[n + 1] = row
      /\ \A k \in 1 .. n : more[k] = ever[k]
  OBVIOUS
<1> HIDE DEF more
<1>2. new = {j \in i .. n + 1 : /\ more[j].success = FALSE
                                /\ more[j][column] = who
                                /\ more[j].at <= more[i].at + Window}
  BY <1>1 DEF InWindowFrom
<1>3. InWindowFrom(ever, i, column, who) =
        {j \in i .. n : /\ ever[j].success = FALSE
                        /\ ever[j][column] = who
                        /\ ever[j].at <= ever[i].at + Window}
  BY DEF InWindowFrom
<1> HIDE DEF new, n
<1>4. i \in 1 .. n + 1
  BY DEF n
<1>5. ASSUME i <= n PROVE new \subseteq InWindowFrom(ever, i, column, who) \cup {n + 1}
  <2>1. i \in 1 .. n /\ more[i] = ever[i]
    BY <1>1, <1>4, <1>5
  <2>2. \A j \in i .. n + 1 : j # n + 1 => j \in i .. n /\ more[j] = ever[j]
    BY <1>1, <1>4
  <2>. QED BY <1>2, <1>3, <2>1, <2>2
<1>6. i = n + 1 => new \subseteq {n + 1}
  BY <1>1, <1>2
<1>7. n + 1 \in new => row[column] = who
  BY <1>1, <1>2
<1>8. n + 1 \in new /\ i <= n => row.at <= ever[i].at + Window
  BY <1>1, <1>2, <1>4
<1>. QED BY <1>5, <1>6, <1>7, <1>8 DEF n, new, more

\* The query finds every failure of a window that reaches to the present.
LEMMA QuerySeesWindow ==
  ASSUME NEW at, NEW rows, NEW ever, RowsLeft(rows, ever, at),
         NEW i \in 1 .. Len(ever), at <= ever[i].at + Window,
         NEW column, NEW who
  PROVE  LET counted == FailedSince(rows, column, who, at - Window) IN
         /\ InWindowFrom(ever, i, column, who) \subseteq counted
         /\ IsFiniteSet(counted)
         /\ Failures(rows, column, who, at - Window) = Cardinality(counted)
<1> DEFINE since == at - Window
           n == Len(ever)
           counted == FailedSince(rows, column, who, since)
<1>1. /\ ever \in Seq(AttemptRow) /\ n \in Nat /\ at \in Int
      /\ \A k \in 1 .. n : ever[k].at <= at
      /\ \A j, k \in 1 .. n : j <= k => ever[j].at <= ever[k].at
      /\ DOMAIN rows \subseteq 1 .. n
      /\ \A k \in DOMAIN rows : rows[k] = ever[k]
      /\ \A k \in 1 .. n : ever[k].at >= at - 7 => k \in DOMAIN rows
  BY DEF RowsLeft, Keep
<1>2. \A k \in 1 .. n : ever[k] \in AttemptRow /\ ever[k].at \in Int
  <2>1. \A k \in 1 .. n : ever[k] \in AttemptRow
    BY <1>1, ElementOfSeq
  <2>. QED BY <2>1 DEF AttemptRow
<1>3. since \in Int /\ since = at - 4 /\ at <= ever[i].at + 4
  BY <1>1 DEF Window
<1> HIDE DEF since, n
<1>4. ASSUME NEW j \in InWindowFrom(ever, i, column, who)
      PROVE  /\ j \in DOMAIN rows /\ rows[j] = ever[j] /\ ever[j].at >= since
             /\ ever[j].success = FALSE /\ ever[j][column] = who
  <2>1. i \in 1 .. n /\ j \in i .. n
    BY DEF InWindowFrom, n
  <2>2. j \in 1 .. n /\ i <= j
    BY <1>1, <2>1
  <2>3. ever[i].at <= ever[j].at /\ ever[i].at \in Int /\ ever[j].at \in Int
    BY <1>1, <1>2, <2>1, <2>2
  <2>4. ever[j].at >= since /\ ever[j].at >= at - 7
    BY <1>1, <1>3, <2>3
  <2>5. ever[j].success = FALSE /\ ever[j][column] = who
    BY DEF InWindowFrom
  <2>. QED BY <1>1, <2>2, <2>4, <2>5
<1>5. InWindowFrom(ever, i, column, who) \subseteq counted
  BY <1>4 DEF FailedSince
<1>6. IsFiniteSet(counted)
  <2>1. IsFiniteSet(1 .. n)
    <3>1. n \in Int /\ 1 \in Int
      BY <1>1
    <3>. QED BY ONLY <3>1, FS_Interval
  <2>2. counted \subseteq DOMAIN rows
    BY DEF FailedSince
  <2>3. counted \subseteq 1 .. n
    BY <1>1, <2>2
  <2>. QED BY <2>1, <2>3, FS_Subset
<1>7. Failures(rows, column, who, since) = Cardinality(counted)
  <2>1. AttemptsUntil(rows, at)
    BY <1>1, <1>2 DEF AttemptsUntil
  <2>. QED BY <1>3, <2>1, FailuresByTime
<1>. QED BY <1>5, <1>6, <1>7 DEF since

\* The query's answer is a number.
LEMMA FailuresCounted ==
  ASSUME NEW at, NEW rows, NEW ever, RowsLeft(rows, ever, at), NEW column, NEW who
  PROVE  Failures(rows, column, who, at - Window) \in Nat
<1>1. Len(ever) \in Int /\ DOMAIN rows \subseteq 1 .. Len(ever)
  BY LenProperties DEF RowsLeft
<1>2. IsFiniteSet(1 .. Len(ever))
  BY <1>1, FS_Interval
<1>3. IsFiniteSet(DOMAIN rows)
  BY <1>1, <1>2, FS_Subset
<1>. QED BY <1>3, FS_Subset, FS_CardinalityType DEF Failures

\* A row written while its value had fewer than limit failures within the
\* window before it leaves every window within the limit.
LEMMA WindowsAfterRow ==
  ASSUME NEW at, NEW rows, NEW ever, RowsLeft(rows, ever, at),
         NEW row \in AttemptRow, row.at = at,
         NEW column, NEW S, NEW limit \in Nat \ {0},
         WindowsWithin(ever, column, S, limit),
         row[column] \in S => Failures(rows, column, row[column], at - Window) < limit
  PROVE  WindowsWithin(Append(ever, row), column, S, limit)
<1> DEFINE n == Len(ever)
<1>1. ever \in Seq(AttemptRow) /\ n \in Nat /\ Len(Append(ever, row)) = n + 1
  BY DEF RowsLeft
<1> SUFFICES ASSUME NEW i \in 1 .. n + 1, NEW who \in S
             PROVE  Cardinality(InWindowFrom(Append(ever, row), i, column, who)) <= limit
  BY <1>1 DEF WindowsWithin
<1> DEFINE new == InWindowFrom(Append(ever, row), i, column, who)
           old == InWindowFrom(ever, i, column, who)
<1>2. /\ i <= n => new \subseteq old \cup {n + 1}
      /\ i = n + 1 => new \subseteq {n + 1}
      /\ n + 1 \in new => row[column] = who
      /\ n + 1 \in new /\ i <= n => row.at <= ever[i].at + Window
  BY <1>1, WindowAfterRow
<1>3. i <= n => i \in 1 .. n /\ IsFiniteSet(old) /\ Cardinality(old) <= limit
  BY <1>1, WindowFinite DEF WindowsWithin
<1> HIDE DEF new, old, n
<1>4. CASE i = n + 1
  <2>1. IsFiniteSet({}) /\ {} \in SUBSET {} /\ new \in SUBSET ({} \cup {n + 1})
        /\ Cardinality({}) < limit
    BY <1>2, <1>4, FS_EmptySet
  <2>2. Cardinality(new) <= limit
    BY <2>1, OneMoreFits
  <2>. QED BY <2>2 DEF new
<1>5. CASE i <= n /\ n + 1 \notin new
  <2>1. new \in SUBSET old /\ IsFiniteSet(old) /\ Cardinality(old) <= limit
    BY <1>2, <1>3, <1>5
  <2>2. /\ Cardinality(new) <= Cardinality(old)
        /\ Cardinality(new) \in Nat /\ Cardinality(old) \in Nat
    BY <2>1, FS_Subset, FS_CardinalityType
  <2>3. Cardinality(new) <= limit
    BY <2>1, <2>2
  <2>. QED BY <2>3 DEF new
<1>6. CASE i <= n /\ n + 1 \in new
  <2> DEFINE counted == FailedSince(rows, column, who, at - Window)
  <2>1. i \in 1 .. Len(ever) /\ at <= ever[i].at + Window
    BY <1>2, <1>3, <1>6 DEF n
  <2>2. /\ old \subseteq counted /\ IsFiniteSet(counted)
        /\ Failures(rows, column, who, at - Window) = Cardinality(counted)
    BY <2>1, QuerySeesWindow DEF old
  <2>3. Cardinality(counted) < limit
    BY <1>2, <1>6, <2>2
  <2> HIDE DEF counted
  <2>4. Cardinality(new) <= limit
    BY <1>2, <1>6, <2>2, <2>3, OneMoreFits
  <2>. QED BY <2>4 DEF new
<1>7. i = n + 1 \/ i <= n
  BY <1>1
<1>. QED BY <1>4, <1>5, <1>6, <1>7 DEF new

\* A purge leaves the rows that a query can count.
LEMMA PruneLeaves ==
  ASSUME NEW at, NEW rows, NEW ever, RowsLeft(rows, ever, at)
  PROVE  RowsLeft(Pruned(rows, at), ever, at)
<1> DEFINE kept == {i \in DOMAIN rows : ~Below(Text(rows[i].at), Text(at - Keep))}
<1>1. DOMAIN Pruned(rows, at) = kept /\ \A i \in kept : Pruned(rows, at)[i] = rows[i]
  BY DEF Pruned, Restrict
<1>2. ASSUME NEW i \in 1 .. Len(ever), ever[i].at >= at - Keep PROVE i \in kept
  <2>1. i \in DOMAIN rows /\ rows[i] = ever[i] /\ at \in Int
    BY <1>2 DEF RowsLeft
  <2>2. rows[i].at \in Int
    <3>1. ever[i] \in AttemptRow
      BY ElementOfSeq DEF RowsLeft
    <3>. QED BY <2>1, <3>1 DEF AttemptRow
  <2>3. at - Keep \in Int /\ ~(rows[i].at < at - Keep)
    BY <1>2, <2>1, <2>2 DEF Keep
  <2>4. ~Below(Text(rows[i].at), Text(at - Keep))
    BY <2>2, <2>3, TextsSortAsTimes
  <2>. QED BY <2>1, <2>4
<1> HIDE DEF kept
<1>3. kept \subseteq DOMAIN rows
  BY DEF kept
<1>. QED BY <1>1, <1>2, <1>3 DEF RowsLeft

\* So does time.
LEMMA TimeLeaves ==
  ASSUME NEW at, NEW rows, NEW ever, RowsLeft(rows, ever, at), NEW gap \in Nat
  PROVE  RowsLeft(rows, ever, at + gap)
<1>1. at \in Int /\ ever \in Seq(AttemptRow)
  BY DEF RowsLeft
<1>2. \A i \in 1 .. Len(ever) : ever[i].at \in Int
  <2>1. \A i \in 1 .. Len(ever) : ever[i] \in AttemptRow
    BY <1>1, ElementOfSeq
  <2>. QED BY <2>1 DEF AttemptRow
<1>3. \A i \in 1 .. Len(ever) :
        /\ ever[i].at <= at => ever[i].at <= at + gap
        /\ ever[i].at >= (at + gap) - 7 => ever[i].at >= at - 7
  BY <1>1, <1>2
<1>. QED BY <1>1, <1>3 DEF RowsLeft, Keep

\* And a row more, in both.
LEMMA RowLeaves ==
  ASSUME NEW at, NEW rows, NEW ever, RowsLeft(rows, ever, at),
         NEW row \in AttemptRow, row.at = at
  PROVE  RowsLeft(Inserted(rows, Len(ever) + 1, row), Append(ever, row), at)
<1> DEFINE n == Len(ever)
           more == Append(ever, row)
           table == Inserted(rows, n + 1, row)
<1>1. /\ ever \in Seq(AttemptRow) /\ n \in Nat /\ at \in Int
      /\ more \in Seq(AttemptRow) /\ Len(more) = n + 1 /\ more[n + 1] = row
      /\ \A k \in 1 .. n : more[k] = ever[k]
  BY DEF RowsLeft
<1>2. /\ \A i \in 1 .. n : ever[i].at <= at
      /\ \A i, j \in 1 .. n : i <= j => ever[i].at <= ever[j].at
      /\ DOMAIN rows \subseteq 1 .. n
      /\ \A i \in DOMAIN rows : rows[i] = ever[i]
      /\ \A i \in 1 .. n : ever[i].at >= at - Keep => i \in DOMAIN rows
  BY DEF RowsLeft
<1>3. /\ DOMAIN table = DOMAIN rows \cup {n + 1}
      /\ \A i \in DOMAIN table :
           table[i] = IF i = n + 1 THEN row ELSE rows[i]
  BY DEF Inserted
<1> HIDE DEF n, more, table
<1>4. \A i \in 1 .. n + 1 : i \in 1 .. n \/ i = n + 1
  BY <1>1
<1>5. \A i \in 1 .. n + 1 : more[i].at <= at
  BY <1>1, <1>2, <1>4
<1>6. \A i, j \in 1 .. n + 1 : i <= j => more[i].at <= more[j].at
  <2> SUFFICES ASSUME NEW i \in 1 .. n + 1, NEW j \in 1 .. n + 1, i <= j
               PROVE  more[i].at <= more[j].at
    OBVIOUS
  <2>1. CASE j = n + 1
    BY <1>1, <1>5, <2>1
  <2>2. CASE j \in 1 .. n
    <3>1. i \in 1 .. n
      BY <1>1, <2>2
    <3>. QED BY <1>1, <1>2, <2>2, <3>1
  <2>. QED BY <1>4, <2>1, <2>2
<1>7. DOMAIN table \subseteq 1 .. n + 1 /\ n + 1 \notin DOMAIN rows
  BY <1>1, <1>2, <1>3
<1>8. \A i \in DOMAIN table : table[i] = more[i]
  BY <1>1, <1>2, <1>3, <1>7
<1>9. \A i \in 1 .. n + 1 : more[i].at >= at - Keep => i \in DOMAIN table
  BY <1>1, <1>2, <1>3, <1>4
<1>10. RowsLeft(table, more, at)
  BY <1>1, <1>5, <1>6, <1>7, <1>8, <1>9 DEF RowsLeft
<1>. QED BY <1>10 DEF n, more, table

\* Every step keeps the lockout's invariant.
LEMMA NextAttemptInv ==
  ASSUME NEW s, LockoutInv(s), NEW t \in NextAttempt(s)
  PROVE  LockoutInv(t)
<1>1. /\ s = [at |-> s.at, rows |-> s.rows, ever |-> s.ever, refused |-> s.refused]
      /\ RowsLeft(s.rows, s.ever, s.at)
      /\ WindowsWithin(s.ever, "user", Users \ {NoName}, UserThreshold)
      /\ WindowsWithin(s.ever, "ip", Ips, IpThreshold)
      /\ \A r \in s.refused :
           r.login \in AttemptRow /\ AttemptsUntil(r.met, r.login.at)
  BY DEF LockoutInv
<1>2. ASSUME NEW gap \in Nat, t = [s EXCEPT !.at = @ + gap] PROVE LockoutInv(t)
  <2>1. /\ t = [at |-> t.at, rows |-> t.rows, ever |-> t.ever, refused |-> t.refused]
        /\ t.at = s.at + gap /\ t.rows = s.rows /\ t.ever = s.ever /\ t.refused = s.refused
    BY <1>1, <1>2
  <2>2. RowsLeft(t.rows, t.ever, t.at)
    BY <1>1, <2>1, TimeLeaves
  <2>. QED BY <1>1, <2>1, <2>2 DEF LockoutInv
<1>3. CASE t = Prune(s)
  <2>1. /\ t = [at |-> t.at, rows |-> t.rows, ever |-> t.ever, refused |-> t.refused]
        /\ t.at = s.at /\ t.rows = Pruned(s.rows, s.at) /\ t.ever = s.ever
        /\ t.refused = s.refused
    BY <1>1, <1>3 DEF Prune
  <2>2. RowsLeft(t.rows, t.ever, t.at)
    BY <1>1, <2>1, PruneLeaves
  <2>. QED BY <1>1, <2>1, <2>2 DEF LockoutInv
<1>4. ASSUME NEW u \in Users \cup {NoName}, NEW ip \in Ips, NEW success \in BOOLEAN,
             t = Login(s, Attempt(u, ip, s.at, success))
      PROVE  LockoutInv(t)
  <2> DEFINE row == Attempt(u, ip, s.at, success)
  <2>1. row \in AttemptRow /\ row.at = s.at /\ row.user = u /\ row.ip = ip
    BY <1>1 DEF Attempt, AttemptRow, RowsLeft
  <2> HIDE DEF row
  <2>2. CASE Refuses(s.rows, row)
    <3>1. t = [s EXCEPT !.refused = @ \cup {[login |-> row, met |-> s.rows]}]
      BY <1>4, <2>2 DEF Login, row
    <3>2. /\ t = [at |-> t.at, rows |-> t.rows, ever |-> t.ever, refused |-> t.refused]
          /\ t.at = s.at /\ t.rows = s.rows /\ t.ever = s.ever
          /\ t.refused = s.refused \cup {[login |-> row, met |-> s.rows]}
      BY <1>1, <3>1
    <3>3. AttemptsUntil(s.rows, row.at)
      <4>1. \A i \in DOMAIN s.rows :
              /\ i \in 1 .. Len(s.ever) /\ s.rows[i] = s.ever[i] /\ s.ever[i].at <= s.at
              /\ s.ever \in Seq(AttemptRow)
        BY <1>1 DEF RowsLeft
      <4>2. \A i \in DOMAIN s.rows : s.rows[i] \in AttemptRow
        BY <4>1, ElementOfSeq
      <4>. QED BY <2>1, <4>1, <4>2 DEF AttemptsUntil
    <3>. QED BY <1>1, <2>1, <3>2, <3>3 DEF LockoutInv
  <2>3. CASE ~Refuses(s.rows, row)
    <3>1. t = [s EXCEPT !.rows = Inserted(@, Len(s.ever) + 1, row), !.ever = Append(@, row)]
      BY <1>4, <2>3 DEF Login, row
    <3>2. /\ t = [at |-> t.at, rows |-> t.rows, ever |-> t.ever, refused |-> t.refused]
          /\ t.at = s.at /\ t.rows = Inserted(s.rows, Len(s.ever) + 1, row)
          /\ t.ever = Append(s.ever, row) /\ t.refused = s.refused
      BY <1>1, <3>1
    <3>3. RowsLeft(t.rows, t.ever, t.at)
      BY <1>1, <2>1, <3>2, RowLeaves
    <3> DEFINE fails(column) == Failures(s.rows, column, row[column], s.at - Window)
    <3>4. ASSUME row.user # NoName PROVE fails("user") < UserThreshold
      <4>1. ~(fails("user") >= UserThreshold)
        BY <2>1, <2>3, <3>4 DEF Refuses, Blocked
      <4>2. fails("user") \in Nat
        BY <1>1, FailuresCounted
      <4> HIDE DEF fails
      <4>. QED BY <4>1, <4>2, AccountsAssumption
    <3>5. fails("ip") < IpThreshold
      <4>1. ~(fails("ip") >= IpThreshold)
        BY <2>1, <2>3 DEF Refuses, Blocked
      <4>2. fails("ip") \in Nat
        BY <1>1, FailuresCounted
      <4> HIDE DEF fails
      <4>. QED BY <4>1, <4>2, AccountsAssumption
    <3>6. WindowsWithin(t.ever, "user", Users \ {NoName}, UserThreshold)
      <4>1. row["user"] \in Users \ {NoName} => fails("user") < UserThreshold
        BY <3>4
      <4>. QED BY <1>1, <2>1, <3>2, <4>1, WindowsAfterRow, AccountsAssumption
    <3>7. WindowsWithin(t.ever, "ip", Ips, IpThreshold)
      BY <1>1, <2>1, <3>2, <3>5, WindowsAfterRow, AccountsAssumption
    <3>. QED BY <1>1, <3>2, <3>3, <3>6, <3>7 DEF LockoutInv
  <2>. QED BY <2>2, <2>3
<1>. QED BY <1>2, <1>3, <1>4 DEF NextAttempt

\* Before the first attempt it holds.
LEMMA StartInv ==
  ASSUME NEW start \in Int
  PROVE  LockoutInv(Start(start))
<1> DEFINE s == Start(start)
<1>1. s.at = start /\ s.rows = <<>> /\ s.ever = <<>> /\ s.refused = {}
  BY DEF Start
<1>2. Len(<<>>) = 0 /\ DOMAIN <<>> = {} /\ <<>> \in Seq(AttemptRow)
  OBVIOUS
<1>3. RowsLeft(<<>>, <<>>, start)
  BY <1>2 DEF RowsLeft
<1>4. /\ WindowsWithin(<<>>, "user", Users \ {NoName}, UserThreshold)
      /\ WindowsWithin(<<>>, "ip", Ips, IpThreshold)
  BY <1>2 DEF WindowsWithin
<1>5. s = [at |-> s.at, rows |-> s.rows, ever |-> s.ever, refused |-> s.refused]
  BY DEF Start
<1> HIDE DEF s
<1>6. LockoutInv(s)
  BY <1>1, <1>3, <1>4, <1>5 DEF LockoutInv
<1>. QED BY <1>6 DEF s

\* It is what the policy promises, and more.
LEMMA LockoutInvHolds ==
  ASSUME NEW s, LockoutInv(s)
  PROVE  WindowsHold(s) /\ WaitingHelps(s)
<1>1. DOMAIN s.ever = 1 .. Len(s.ever)
  BY DEF LockoutInv, RowsLeft
<1>2. WindowsHold(s)
  BY <1>1 DEF LockoutInv, WindowsWithin, WindowsHold
<1>3. WaitingHelps(s)
  BY WaitingLetsThrough DEF LockoutInv, WaitingHelps
<1>. QED BY <1>2, <1>3

\* However attempts to sign in, hourly purges and pauses follow each other, no
\* window sees more failed passwords for a name or from an address than the
\* thresholds allow, and whoever is refused and waits out Retry-After is let
\* through (auth.rs:208-238, 303-366, store.rs:1364-1425): for any course of
\* logins, names, addresses, thresholds and instants.
THEOREM WindowsAlwaysHold ==
  ASSUME NEW start \in Int, NEW course, course[0] = Start(start),
         \A n \in Nat : course[n + 1] \in NextAttempt(course[n])
  PROVE  \A n \in Nat : WindowsHold(course[n]) /\ WaitingHelps(course[n])
<1>1. LockoutInv(course[0])
  BY StartInv
<1>2. \A n \in Nat : LockoutInv(course[n])
  <2> DEFINE wrong == {n \in Nat : ~LockoutInv(course[n])}
  <2> SUFFICES ASSUME wrong # {} PROVE FALSE
    OBVIOUS
  <2>1. wrong \subseteq Nat
    OBVIOUS
  <2>2. PICK n \in wrong : \A m \in wrong : ~(m < n)
    <3> HIDE DEF wrong
    <3>1. PICK n \in wrong : \A m \in wrong : <<m, n>> \notin OpToRel(<, Nat)
      BY <2>1, NatLessThanWellFounded, WFMin
    <3>. QED BY <2>1, <3>1 DEF OpToRel
  <2>3. n \in Nat /\ ~LockoutInv(course[n])
    OBVIOUS
  <2>4. n # 0
    BY <1>1, <2>3
  <2>5. n - 1 \in Nat /\ n - 1 < n /\ n = (n - 1) + 1
    BY <2>3, <2>4
  <2>6. LockoutInv(course[n - 1])
    BY <2>2, <2>5
  <2>7. course[n] \in NextAttempt(course[n - 1])
    BY <2>5
  <2>. QED BY <2>3, <2>6, <2>7, NextAttemptInv
<1>. QED BY <1>2, LockoutInvHolds

----------------------------------------------------------------------------
(***************************************************************************)
(* A session over time                                                     *)
(***************************************************************************)

\* What may become of a session next: time, a request's two calls, the purge.
NextAge(s) ==
  {[s EXCEPT !.at = @ + gap] : gap \in Nat}
    \cup {LookUp(s), TouchSession(s), TouchFails(s), Purge(s)}

\* The cookie never outlives the last use by more than its Max-Age, and a row
\* that is gone left no live cookie.
AgeInv(s) ==
  /\ s = [at |-> s.at, row |-> s.row, seen |-> s.seen, expires |-> s.expires, found |-> s.found]
  /\ s.at \in Int /\ s.seen \in Int /\ s.expires \in Int
  /\ s.seen <= s.at
  /\ s.expires <= s.seen + MaxAge
  /\ PurgedIsExpired(s)

\* Every step keeps it.
LEMMA NextAgeInv ==
  ASSUME NEW s, AgeInv(s), NEW t \in NextAge(s)
  PROVE  AgeInv(t)
<1> DEFINE Shape(u) ==
      u = [at |-> u.at, row |-> u.row, seen |-> u.seen, expires |-> u.expires, found |-> u.found]
<1>1. /\ Shape(s) /\ s.at \in Int /\ s.seen \in Int /\ s.expires \in Int
      /\ s.seen <= s.at /\ s.expires <= s.seen + 6
      /\ ~s.row => s.at >= s.expires
  BY DEF AgeInv, MaxAge, PurgedIsExpired
<1>2. SUFFICES /\ Shape(t) /\ t.at \in Int /\ t.seen \in Int /\ t.expires \in Int
               /\ t.seen <= t.at /\ t.expires <= t.seen + 6
               /\ ~t.row => t.at >= t.expires
  BY DEF AgeInv, MaxAge, PurgedIsExpired
<1>3. ASSUME NEW gap \in Nat, t = [s EXCEPT !.at = @ + gap]
      PROVE  /\ Shape(t) /\ t.at = s.at + gap /\ t.seen = s.seen
             /\ t.expires = s.expires /\ t.row = s.row
  BY <1>1, <1>3
<1>4. CASE t = LookUp(s)
  <2>1. Shape(t) /\ t.at = s.at /\ t.seen = s.seen /\ t.expires = s.expires /\ t.row = s.row
    BY <1>1, <1>4 DEF LookUp
  <2>. QED BY <1>1, <2>1
<1>5. CASE t = TouchSession(s)
  <2>1. CASE s.found
    <3>1. t = [s EXCEPT !.found = FALSE, !.seen = IF s.row THEN s.at ELSE s.seen]
      BY <1>5, <2>1 DEF TouchSession
    <3>2. /\ Shape(t) /\ t.at = s.at /\ t.expires = s.expires /\ t.row = s.row
          /\ t.seen = IF s.row THEN s.at ELSE s.seen
      BY <1>1, <3>1
    <3>3. t.seen = s.at \/ t.seen = s.seen
      BY <3>2
    <3>. QED BY <1>1, <3>2, <3>3
  <2>2. CASE ~s.found
    BY <1>1, <1>5, <2>2 DEF TouchSession
  <2>. QED BY <2>1, <2>2
<1>6. CASE t = TouchFails(s)
  <2>1. Shape(t) /\ t.at = s.at /\ t.seen = s.seen /\ t.expires = s.expires /\ t.row = s.row
    BY <1>1, <1>6 DEF TouchFails
  <2>. QED BY <1>1, <2>1
<1>7. CASE t = Purge(s)
  <2> DEFINE idle == Below(Text(s.seen), Text(s.at - IdleLimit))
             kept == s.row /\ ~idle
  <2>1. idle <=> s.seen < s.at - 6
    BY <1>1, TextsSortAsTimes DEF IdleLimit
  <2>2. t = [s EXCEPT !.row = kept]
    BY <1>7 DEF Purge
  <2>3. ~kept => s.at >= s.expires
    <3> HIDE DEF idle
    <3>. QED BY <1>1, <2>1
  <2> HIDE DEF kept
  <2>4. /\ Shape(t) /\ t.at = s.at /\ t.seen = s.seen /\ t.expires = s.expires
        /\ t.row = kept
    BY <1>1, <2>2
  <2>5. ~t.row => ~kept
    BY <2>4, Zenon
  <2>. QED BY <1>1, <2>3, <2>4, <2>5
<1>8. CASE \E gap \in Nat : t = [s EXCEPT !.at = @ + gap]
  <2>1. PICK gap \in Nat : t = [s EXCEPT !.at = @ + gap]
    BY <1>8
  <2>2. /\ Shape(t) /\ t.at = s.at + gap /\ t.seen = s.seen
        /\ t.expires = s.expires /\ t.row = s.row
    BY <1>3, <2>1
  <2>. QED BY <1>1, <2>2
<1>. QED BY <1>4, <1>5, <1>6, <1>7, <1>8 DEF NextAge

\* A session starts with it.
LEMMA SignedInInv ==
  ASSUME NEW at \in Int
  PROVE  AgeInv(SignedIn(at))
<1>1. SignedIn(at).row
  BY DEF SignedIn
<1>. QED BY <1>1 DEF SignedIn, AgeInv, PurgedIsExpired, MaxAge

\* A tick takes the row of a session that has been idle for longer than the
\* limit.
LEMMA TickTakesGhosts ==
  ASSUME NEW s, AgeInv(s)
  PROVE  GhostsGo(s)
<1> DEFINE idle == Below(Text(s.seen), Text(s.at - IdleLimit))
           kept == s.row /\ ~idle
<1>1. s.seen \in Int /\ s.at \in Int
  BY DEF AgeInv
<1>2. idle <=> s.seen < s.at - 6
  BY <1>1, TextsSortAsTimes DEF IdleLimit
<1>3. kept => s.seen >= s.at - 6
  <2> HIDE DEF idle
  <2>. QED BY <1>1, <1>2
<1>4. Purge(s) = [s EXCEPT !.row = kept]
  BY DEF Purge
<1> HIDE DEF kept
<1>5. Purge(s).row = kept
  BY <1>4 DEF AgeInv
<1>6. Purge(s).row => kept
  BY <1>5, Zenon
<1>. QED BY <1>3, <1>6 DEF GhostsGo, IdleLimit

\* However a session is used and purged, whatever touches fail, its row goes only
\* when its cookie has expired, and a tick leaves no row that has been idle for
\* longer than the limit (auth.rs:152-169, retention.rs:106-115): for any
\* course of a session's life and any instants.
THEOREM RowsOutliveCookies ==
  ASSUME NEW start \in Int, NEW life, life[0] = SignedIn(start),
         \A n \in Nat : life[n + 1] \in NextAge(life[n])
  PROVE  \A n \in Nat : PurgedIsExpired(life[n]) /\ GhostsGo(life[n])
<1>1. AgeInv(life[0])
  BY SignedInInv
<1>2. \A n \in Nat : AgeInv(life[n])
  <2> DEFINE wrong == {n \in Nat : ~AgeInv(life[n])}
  <2>1. SUFFICES ASSUME wrong # {} PROVE FALSE
    OBVIOUS
  <2>2. wrong \subseteq Nat
    OBVIOUS
  <2>3. \E n \in wrong : \A m \in wrong : ~(m < n)
    <3> HIDE DEF wrong
    <3>1. PICK n \in wrong : \A m \in wrong : <<m, n>> \notin OpToRel(<, Nat)
      BY <2>1, <2>2, NatLessThanWellFounded, WFMin
    <3>. QED BY <2>2, <3>1 DEF OpToRel
  <2>4. PICK n \in wrong : \A m \in wrong : ~(m < n)
    BY <2>3
  <2>5. n \in Nat /\ ~AgeInv(life[n])
    OBVIOUS
  <2>6. n # 0
    BY <1>1, <2>5
  <2>7. n - 1 \in Nat /\ n - 1 < n /\ n = (n - 1) + 1
    BY <2>5, <2>6
  <2>8. AgeInv(life[n - 1])
    BY <2>4, <2>7
  <2>9. life[n] \in NextAge(life[n - 1])
    BY <2>7
  <2>. QED BY <2>5, <2>8, <2>9, NextAgeInv
<1>. QED BY <1>2, TickTakesGhosts DEF AgeInv

----------------------------------------------------------------------------
(***************************************************************************)
(* The courses that TLC follows                                            *)
(***************************************************************************)

\* Every state it reaches by attempts, ticks and pauses is one of a course.
LEMMA ReachedInv ==
  ASSUME u1 \in Users, i1 \in Ips
  PROVE  \A n \in 1 .. 4 : \A s \in Reached[n] : LockoutInv(s)
<1> DEFINE late(s, gap) == [s EXCEPT !.at = @ + gap]
           gaps == {0, 1, 3, 5}
           first == UNION {After(Start(at)) : at \in 8 .. 11}
           next(S) == UNION {After(late(s, gap)) : s \in S, gap \in gaps}
<1>1. Reached = [n \in 1 .. 4 |-> IF n = 1 THEN first ELSE next(Reached[n - 1])]
  <2> DEFINE Equation(f) == f = [n \in 1 .. 4 |-> IF n = 1 THEN first ELSE next(f[n - 1])]
             f == [n \in 1 .. 4 |-> IF n = 1 THEN first
                                     ELSE IF n = 2 THEN next(first)
                                     ELSE IF n = 3 THEN next(next(first))
                                     ELSE next(next(next(first)))]
  <2>1. Reached = CHOOSE g : Equation(g)
    BY DEF Reached
  <2> HIDE DEF first, next
  <2>2. Equation(f)
    OBVIOUS
  <2> HIDE DEF Equation
  <2>3. Equation(Reached)
    BY <2>1, <2>2
  <2>. QED BY <2>3 DEF Equation
<1>2. ASSUME NEW s, LockoutInv(s), NEW gap \in Nat
      PROVE  LockoutInv([s EXCEPT !.at = @ + gap])
  BY <1>2, NextAttemptInv DEF NextAttempt
<1>3. ASSUME NEW s, LockoutInv(s), NEW t \in After(s)
      PROVE  LockoutInv(t)
  <2>1. u1 \in Users \cup {NoName} /\ NoName \in Users \cup {NoName} /\ i1 \in Ips
    OBVIOUS
  <2>2. CASE t = Prune(s)
    BY <1>3, <2>2, NextAttemptInv DEF NextAttempt
  <2>3. ASSUME NEW u \in Users \cup {NoName}, NEW success \in BOOLEAN,
               t = Login(s, Attempt(u, i1, s.at, success))
        PROVE  LockoutInv(t)
    <3>1. t \in NextAttempt(s)
      BY <2>1, <2>3 DEF NextAttempt
    <3>. QED BY <1>3, <3>1, NextAttemptInv
  <2>4. \/ t = Prune(s)
        \/ \E u \in {u1, NoName} : t = Login(s, Attempt(u, i1, s.at, FALSE))
        \/ t = Login(s, Attempt(u1, i1, s.at, TRUE))
    BY <1>3 DEF After
  <2>. QED BY <2>1, <2>2, <2>3, <2>4
<1>4. \A s \in first : LockoutInv(s)
  <2> SUFFICES ASSUME NEW at \in 8 .. 11, NEW s \in After(Start(at)) PROVE LockoutInv(s)
    OBVIOUS
  <2>. QED BY StartInv, <1>3
<1>5. ASSUME NEW S, \A s \in S : LockoutInv(s), NEW t \in next(S) PROVE LockoutInv(t)
  <2>1. PICK s \in S, gap \in gaps : t \in After(late(s, gap))
    <3> HIDE DEF late, gaps
    <3>. QED BY <1>5
  <2>2. gap \in Nat
    OBVIOUS
  <2>. QED BY <1>2, <1>3, <1>5, <2>1, <2>2
<1> HIDE DEF first, next
<1>6. Reached[1] = first
  BY <1>1
<1>7. \A n \in 2 .. 4 : Reached[n] = next(Reached[n - 1])
  BY <1>1
<1>8. Reached[2] = next(Reached[1]) /\ Reached[3] = next(Reached[2]) /\ Reached[4] = next(Reached[3])
  BY <1>7
<1>9. \A s \in Reached[1] : LockoutInv(s)
  BY <1>4, <1>6
<1>10. \A s \in Reached[2] : LockoutInv(s)
  BY <1>5, <1>8, <1>9
<1>11. \A s \in Reached[3] : LockoutInv(s)
  BY <1>5, <1>8, <1>10
<1>12. \A s \in Reached[4] : LockoutInv(s)
  BY <1>5, <1>8, <1>11
<1>. QED BY <1>9, <1>10, <1>11, <1>12

\* Every age of a session it reaches is one of a session's life.
LEMMA AgedInv == \A n \in 1 .. 4 : \A s \in Aged[n] : AgeInv(s)
<1> DEFINE first == UNION {Later(SignedIn(at)) : at \in 8 .. 11}
           next(S) == UNION {Later(s) : s \in S}
<1>1. Aged = [n \in 1 .. 4 |-> IF n = 1 THEN first ELSE next(Aged[n - 1])]
  <2> DEFINE Equation(f) == f = [n \in 1 .. 4 |-> IF n = 1 THEN first ELSE next(f[n - 1])]
             f == [n \in 1 .. 4 |-> IF n = 1 THEN first
                                     ELSE IF n = 2 THEN next(first)
                                     ELSE IF n = 3 THEN next(next(first))
                                     ELSE next(next(next(first)))]
  <2>1. Aged = CHOOSE g : Equation(g)
    BY DEF Aged
  <2> HIDE DEF first, next
  <2>2. Equation(f)
    OBVIOUS
  <2> HIDE DEF Equation
  <2>3. Equation(Aged)
    BY <2>1, <2>2
  <2>. QED BY <2>3 DEF Equation
<1>2. ASSUME NEW s, AgeInv(s), NEW t \in Later(s) PROVE AgeInv(t)
  <2>1. PICK gap \in {0, 1, 2, 5, 7} :
          LET now == [s EXCEPT !.at = @ + gap]
          IN  t \in {LookUp(now), TouchSession(now), TouchFails(now), Purge(now)}
    BY <1>2 DEF Later
  <2> DEFINE now == [s EXCEPT !.at = @ + gap]
  <2>2. gap \in Nat
    OBVIOUS
  <2>3. AgeInv(now)
    BY <1>2, <2>2, NextAgeInv DEF NextAge
  <2> HIDE DEF now
  <2>4. t \in NextAge(now)
    BY <2>1 DEF NextAge, now
  <2>. QED BY <2>3, <2>4, NextAgeInv
<1>3. \A s \in first : AgeInv(s)
  <2> SUFFICES ASSUME NEW at \in 8 .. 11, NEW s \in Later(SignedIn(at)) PROVE AgeInv(s)
    OBVIOUS
  <2>. QED BY SignedInInv, <1>2
<1>4. ASSUME NEW S, \A s \in S : AgeInv(s) PROVE \A s \in next(S) : AgeInv(s)
  BY <1>2, <1>4
<1> HIDE DEF first, next
<1>5. Aged[1] = first
  BY <1>1
<1>6. \A n \in 2 .. 4 : Aged[n] = next(Aged[n - 1])
  BY <1>1
<1>7. Aged[2] = next(Aged[1]) /\ Aged[3] = next(Aged[2]) /\ Aged[4] = next(Aged[3])
  BY <1>6
<1>8. \A s \in Aged[1] : AgeInv(s)
  BY <1>3, <1>5
<1>9. \A s \in Aged[2] : AgeInv(s)
  BY <1>4, <1>7, <1>8
<1>10. \A s \in Aged[3] : AgeInv(s)
  BY <1>4, <1>7, <1>9
<1>11. \A s \in Aged[4] : AgeInv(s)
  BY <1>4, <1>7, <1>10
<1>. QED BY <1>8, <1>9, <1>10, <1>11

\* What the run checks of those courses holds with any thresholds, names and
\* addresses (auth.rs:303-326, 152-169, lockout.rs:71-87, retention.rs:95-115).
THEOREM CoursesHold ==
  ASSUME u1 \in Users, i1 \in Ips
  PROVE  Spec => []OverTime
<1>1. ASSUME NEW n \in 1 .. 4, NEW s \in Reached[n] PROVE WindowsHold(s) /\ WaitingHelps(s)
  BY <1>1, ReachedInv, LockoutInvHolds
<1>2. ASSUME NEW n \in 1 .. 4, NEW s \in Aged[n] PROVE PurgedIsExpired(s) /\ GhostsGo(s)
  <2>1. AgeInv(s)
    BY AgedInv
  <2>. QED BY <2>1, TickTakesGhosts DEF AgeInv
<1>3. OverTime
  BY <1>1, <1>2 DEF OverTime
<1>. QED BY <1>3, PTL
============================================================================
