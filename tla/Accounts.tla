------------------------------ MODULE Accounts ------------------------------
(***************************************************************************)
(* Users, sessions and the requests that change them: setup, login and     *)
(* logout (auth.rs), the team console (ingest.rs admin_*_user), and the    *)
(* count of failed attempts that blocks a login (lockout.rs).              *)
(*                                                                         *)
(* A handler awaits the database several times.  Each call is one step,    *)
(* any other request may run between two of them, and the handler acts on  *)
(* what it read.                                                           *)
(*                                                                         *)
(* A posted password is right if it is the one on record when a login      *)
(* compares the two; which one that is is left out.  A session is one of a *)
(* number per user.  The model covers a single lockout window, in which no *)
(* attempt grows old; Lockout has the others.                              *)
(***************************************************************************)
EXTENDS Integers, FiniteSets

CONSTANTS
  Users,          \* usernames
  Ips,            \* client addresses
  Requests,       \* concurrent requests
  AdminSlots,     \* those that may be requests of the team console
  UserThreshold,  \* LockoutPolicy.user_threshold
  IpThreshold,    \* LockoutPolicy.ip_threshold
  Budget          \* bound: how often each kind of request comes

Outside == {"setup", "login", "admin", "logout", "abort"}

ASSUME AccountsAssumption ==
  /\ IsFiniteSet(Requests)
  /\ AdminSlots \subseteq Requests
  /\ UserThreshold \in Nat \ {0}
  /\ IpThreshold \in Nat \ {0}
  /\ Budget \in [Outside -> Nat]

VARIABLES
  users,     \* the users table: role, and whether deactivated_at is null
  sessions,  \* how many rows of the sessions table each user has
  userFails, \* failed attempts in auth_attempts, by username
  ipFails,   \* the same by address
  requests,  \* where each handler is, and what it has read
  overtaken, \* history: by user, requests about to open a session for whom the
             \* last deactivation did not stop
  spent      \* requests begun, against Budget

attempts == <<userFails, ipFails>>
vars == <<users, sessions, attempts, requests, overtaken, spent>>

----------------------------------------------------------------------------
Roles == {"admin", "viewer"}

Passwords == {"absent", "weak", "strong"}

Row(role, active) == [role |-> role, active |-> active]

NoUsers == [u \in {} |-> Row("viewer", FALSE)]

Known(u) == u \in DOMAIN users

\* users WHERE role = 'admin' AND deactivated_at IS NULL
ActiveAdmins == {u \in DOMAIN users : users[u] = Row("admin", TRUE)}

Free == [op |-> "none"]

\* The end of a handler whose expect failed.
Panicked == [op |-> "panicked"]

Idle(r) == requests[r].op \in {"none", "panicked"}

At(r, op, pc) == requests[r].op = op /\ requests[r].pc = pc

Goto(r, pc) == requests' = [requests EXCEPT ![r].pc = pc]

End(r) == requests' = [requests EXCEPT ![r] = Free]

Panic(r) == requests' = [requests EXCEPT ![r] = Panicked]

Spend(kind) ==
  /\ spent[kind] < Budget[kind]
  /\ spent' = [spent EXCEPT ![kind] = @ + 1]

Begin(r, kind, request) ==
  /\ Idle(r)
  /\ Spend(kind)
  /\ requests' = [requests EXCEPT ![r] = request]

Init ==
  /\ users = NoUsers
  /\ sessions = [u \in Users |-> 0]
  /\ userFails = [u \in Users |-> 0]
  /\ ipFails = [ip \in Ips |-> 0]
  /\ requests = [r \in Requests |-> Free]
  /\ overtaken = [u \in Users |-> 0]
  /\ spent = [kind \in Outside |-> 0]

----------------------------------------------------------------------------
(***************************************************************************)
(* POST /api/auth/setup                                                    *)
(***************************************************************************)

\* user_count found the table empty.
BeginSetup(r, u, right, ip) ==
  /\ users = NoUsers
  /\ Begin(r, "setup",
       [op |-> "setup", pc |-> "lockout", user |-> u, right |-> right, ip |-> ip])
  /\ UNCHANGED <<users, sessions, attempts, overtaken>>

\* Variant: one more attempt than the threshold.
BlockedAfter(userFailures, ipFailures) ==
  userFailures > UserThreshold \/ ipFailures > IpThreshold

\* LockoutPolicy::evaluate
Blocked(userFailures, ipFailures) ==
  userFailures >= UserThreshold \/ ipFailures >= IpThreshold

\* The address's failures are counted, then the token is compared.
SetupLockout(r) ==
  /\ At(r, "setup", "lockout")
  /\ IF Blocked(0, ipFails[requests[r].ip])
       THEN End(r)
       ELSE Goto(r, IF requests[r].right THEN "create" ELSE "record")
  /\ UNCHANGED <<users, sessions, attempts, overtaken, spent>>

\* create_user with the admin role; an existing name is a 500.
SetupCreate(r) ==
  LET u == requests[r].user IN
  /\ At(r, "setup", "create")
  /\ IF Known(u)
       THEN End(r) /\ UNCHANGED users
       ELSE /\ users' = [v \in DOMAIN users \cup {u} |->
                           IF v = u THEN Row("admin", TRUE) ELSE users[v]]
            /\ Goto(r, "session")
  /\ UNCHANGED <<sessions, attempts, overtaken, spent>>

----------------------------------------------------------------------------
(***************************************************************************)
(* POST /api/auth/login and /logout                                        *)
(***************************************************************************)

\* count_recent_failures_for_username
BeginLogin(r, u, right, ip) ==
  /\ Begin(r, "login",
       [op |-> "login", pc |-> "lockout", user |-> u, right |-> right, ip |-> ip,
        failures |-> userFails[u]])
  /\ UNCHANGED <<users, sessions, attempts, overtaken>>

\* count_recent_failures_for_ip, then the policy decides on both counts.
LoginLockout(r) ==
  /\ At(r, "login", "lockout")
  /\ IF Blocked(requests[r].failures, ipFails[requests[r].ip])
       THEN End(r)
       ELSE Goto(r, "verify")
  /\ UNCHANGED <<users, sessions, attempts, overtaken, spent>>

\* get_user_password_hash and the comparison: an unknown user's never matches.
Verify(r) ==
  /\ At(r, "login", "verify")
  /\ requests' = [requests EXCEPT ![r].pc = "active",
                                  ![r].right = @ /\ Known(requests[r].user)]
  /\ UNCHANGED <<users, sessions, attempts, overtaken, spent>>

\* get_user: a deactivated user is refused like a wrong password.
CheckActive(r) ==
  LET u == requests[r].user IN
  /\ At(r, "login", "active")
  /\ Goto(r, IF requests[r].right /\ Known(u) /\ users[u].active
               THEN "session" ELSE "record")
  /\ UNCHANGED <<users, sessions, attempts, overtaken, spent>>

\* record_attempt, and the 401.  A setup attempt has no username.
RecordFailure(r) ==
  /\ At(r, "setup", "record") \/ At(r, "login", "record")
  /\ ipFails' = [ipFails EXCEPT ![requests[r].ip] = @ + 1]
  /\ userFails' = IF requests[r].op = "login"
                    THEN [userFails EXCEPT ![requests[r].user] = @ + 1]
                    ELSE userFails
  /\ End(r)
  /\ UNCHANGED <<users, sessions, overtaken, spent>>

\* The requests that have only u's session left to open.
Opening(u) ==
  {r \in Requests : /\ At(r, "setup", "session") \/ At(r, "login", "session")
                    /\ requests[r].user = u}

\* create_session: the foreign key refuses a user who is gone.
OpenSession(r) ==
  LET u == requests[r].user IN
  /\ At(r, "setup", "session") \/ At(r, "login", "session")
  /\ IF Known(u)
       THEN /\ sessions' = [sessions EXCEPT ![u] = @ + 1]
            /\ IF requests[r].op = "login" THEN Goto(r, "reread") ELSE End(r)
       ELSE End(r) /\ UNCHANGED sessions
  /\ UNCHANGED <<users, attempts, overtaken, spent>>

\* get_user().expect("just-verified user must exist")
RereadUser(r) ==
  /\ At(r, "login", "reread")
  /\ IF Known(requests[r].user) THEN End(r) ELSE Panic(r)
  /\ UNCHANGED <<users, sessions, attempts, overtaken, spent>>

\* Variant: counts the session out though its row is gone.
EndSessionTwice(u) ==
  /\ Spend("logout")
  /\ sessions' = [sessions EXCEPT ![u] = @ - 1]
  /\ UNCHANGED <<users, attempts, overtaken, requests>>

\* A logout, or the hourly purge of a session idle for 30 days.
EndSession(u) ==
  /\ sessions[u] > 0
  /\ Spend("logout")
  /\ sessions' = [sessions EXCEPT ![u] = @ - 1]
  /\ UNCHANGED <<users, attempts, overtaken, requests>>

----------------------------------------------------------------------------
(***************************************************************************)
(* /api/admin/users: create, patch, delete, revoke sessions                *)
(***************************************************************************)

\* require_admin: some session of an admin's, deactivated or not.  A PATCH has
\* a role, a deactivated field and a password, any of them absent; the console
\* takes no weak password.
BeginAdmin(r, u, op, role, active, password) ==
  /\ r \in AdminSlots
  /\ \E v \in DOMAIN users : sessions[v] > 0 /\ users[v].role = "admin"
  /\ Begin(r, "admin",
       [op |-> op, pc |-> "first", user |-> u, role |-> role, active |-> active,
        password |-> password])
  /\ UNCHANGED <<users, sessions, attempts, overtaken>>

CreateUser(r) ==
  LET u == requests[r].user IN
  /\ At(r, "create", "first")
  /\ users' = IF Known(u)
                THEN users
                ELSE [v \in DOMAIN users \cup {u} |->
                        IF v = u THEN Row(requests[r].role, TRUE) ELSE users[v]]
  /\ End(r)
  /\ UNCHANGED <<sessions, attempts, overtaken, spent>>

\* get_user().is_none() is a 404, in a PATCH and in a revocation; then comes
\* validate_password_strength.
CheckExists(r) ==
  /\ At(r, "patch", "first") \/ At(r, "revoke", "first")
  /\ IF Known(requests[r].user) /\ requests[r].password # "weak"
       THEN Goto(r, "second")
       ELSE End(r)
  /\ UNCHANGED <<users, sessions, attempts, overtaken, spent>>

RevokeSessions(r) ==
  /\ At(r, "revoke", "second")
  /\ sessions' = [sessions EXCEPT ![requests[r].user] = 0]
  /\ End(r)
  /\ UNCHANGED <<users, attempts, overtaken, spent>>

\* The next step of a PATCH whose password is set.
AfterPassword(r) ==
  CASE requests[r].role # "absent" -> "role"
    [] requests[r].role = "absent" /\ requests[r].active # "absent" -> "active"
    [] OTHER -> "reply"

\* The next step of a PATCH whose guard is behind it.
PatchStep(r) ==
  IF requests[r].password = "strong" THEN "password" ELSE AfterPassword(r)

\* get_user().expect(..) and the question whether the guard is needed.
ReadCurrent(r) ==
  LET u == requests[r].user
      demoting == requests[r].role = "viewer" /\ users[u].role = "admin"
      deactivating == requests[r].active = "no" /\ users[u] = Row("admin", TRUE)
  IN
  /\ At(r, "patch", "second")
  /\ IF Known(u)
       THEN Goto(r, IF demoting \/ deactivating THEN "count" ELSE PatchStep(r))
       ELSE Panic(r)
  /\ UNCHANGED <<users, sessions, attempts, overtaken, spent>>

\* DELETE: get_user; only an active admin needs the guard.
ReadTarget(r) ==
  LET u == requests[r].user IN
  /\ At(r, "delete", "first")
  /\ IF Known(u)
       THEN Goto(r, IF u \in ActiveAdmins THEN "count" ELSE "delete")
       ELSE End(r)
  /\ UNCHANGED <<users, sessions, attempts, overtaken, spent>>

\* Variant: refuses only when no active admin is left already.
CountAdminsTooLate(r) ==
  /\ At(r, "patch", "count") \/ At(r, "delete", "count")
  /\ IF Cardinality(ActiveAdmins) < 1
       THEN End(r)
       ELSE Goto(r, IF requests[r].op = "patch" THEN PatchStep(r) ELSE "delete")
  /\ UNCHANGED <<users, sessions, attempts, overtaken, spent>>

\* count_active_admins() <= 1 is a 409.
CountAdmins(r) ==
  /\ At(r, "patch", "count") \/ At(r, "delete", "count")
  /\ IF Cardinality(ActiveAdmins) <= 1
       THEN End(r)
       ELSE Goto(r, IF requests[r].op = "patch" THEN PatchStep(r) ELSE "delete")
  /\ UNCHANGED <<users, sessions, attempts, overtaken, spent>>

\* set_user_password; a missing row is a 500.  The sessions stay.
SetPassword(r) ==
  /\ At(r, "patch", "password")
  /\ IF Known(requests[r].user) THEN Goto(r, AfterPassword(r)) ELSE End(r)
  /\ UNCHANGED <<users, sessions, attempts, overtaken, spent>>

\* set_user_role; a missing row is a 500.
SetRole(r) ==
  LET u == requests[r].user IN
  /\ At(r, "patch", "role")
  /\ IF Known(u)
       THEN /\ users' = [users EXCEPT ![u].role = requests[r].role]
            /\ Goto(r, IF requests[r].active = "absent" THEN "reply" ELSE "active")
       ELSE End(r) /\ UNCHANGED users
  /\ UNCHANGED <<sessions, attempts, overtaken, spent>>

\* Variant: deactivation leaves the sessions to their expiry.
SetActiveOnly(r) ==
  LET u == requests[r].user IN
  /\ At(r, "patch", "active")
  /\ IF Known(u)
       THEN /\ users' = [users EXCEPT ![u].active = requests[r].active = "yes"]
            /\ Goto(r, "reply")
       ELSE End(r) /\ UNCHANGED users
  /\ UNCHANGED <<sessions, attempts, overtaken, spent>>

\* set_user_deactivated: the flag and, to deactivate, the sessions, in one
\* transaction; a missing row is a 500.
SetActive(r) ==
  LET u == requests[r].user
      active == requests[r].active = "yes"
  IN
  /\ At(r, "patch", "active")
  /\ IF Known(u)
       THEN /\ users' = [users EXCEPT ![u].active = active]
            /\ sessions' = IF active THEN sessions ELSE [sessions EXCEPT ![u] = 0]
            /\ overtaken' = IF active THEN overtaken
                            ELSE [overtaken EXCEPT ![u] = Cardinality(Opening(u))]
            /\ Goto(r, "reply")
       ELSE End(r) /\ UNCHANGED <<users, sessions, overtaken>>
  /\ UNCHANGED <<attempts, spent>>

\* get_user().expect("existence checked above")
Reply(r) ==
  /\ At(r, "patch", "reply")
  /\ IF Known(requests[r].user) THEN End(r) ELSE Panic(r)
  /\ UNCHANGED <<users, sessions, attempts, overtaken, spent>>

\* delete_user, its sessions with it; a missing row is a 500.
DeleteUser(r) ==
  LET u == requests[r].user IN
  /\ At(r, "delete", "delete")
  /\ users' = [v \in DOMAIN users \ {u} |-> users[v]]
  /\ sessions' = [sessions EXCEPT ![u] = 0]
  /\ End(r)
  /\ UNCHANGED <<attempts, overtaken, spent>>

----------------------------------------------------------------------------
\* The client goes away, or the daemon: the handler is dropped between two
\* calls, what it has done stays.
Abort(r) ==
  /\ ~Idle(r)
  /\ Spend("abort")
  /\ End(r)
  /\ UNCHANGED <<users, sessions, attempts, overtaken>>

SignIn(r) ==
  \/ \E u \in Users, right \in BOOLEAN, ip \in Ips :
       BeginSetup(r, u, right, ip) \/ BeginLogin(r, u, right, ip)
  \/ SetupLockout(r) \/ SetupCreate(r)
  \/ LoginLockout(r) \/ Verify(r) \/ CheckActive(r) \/ RereadUser(r)
  \/ RecordFailure(r) \/ OpenSession(r)

BeginTeam(r) ==
  \E u \in Users :
    \/ \E role \in Roles : BeginAdmin(r, u, "create", role, "absent", "absent")
    \/ \E role \in Roles \cup {"absent"}, active \in {"yes", "no", "absent"},
          password \in Passwords : BeginAdmin(r, u, "patch", role, active, password)
    \/ \E op \in {"delete", "revoke"} :
         BeginAdmin(r, u, op, "absent", "absent", "absent")

Team(r) ==
  \/ BeginTeam(r)
  \/ CreateUser(r) \/ CheckExists(r) \/ RevokeSessions(r)
  \/ ReadCurrent(r) \/ ReadTarget(r) \/ CountAdmins(r)
  \/ SetPassword(r) \/ SetRole(r) \/ SetActive(r) \/ Reply(r) \/ DeleteUser(r)

Next ==
  \/ \E r \in Requests : SignIn(r) \/ Team(r) \/ Abort(r)
  \/ \E u \in Users : EndSession(u)

Spec == Init /\ [][Next]_vars

----------------------------------------------------------------------------
(***************************************************************************)
(* Safety                                                                  *)
(***************************************************************************)

SignInRequest ==
  [op : {"setup"}, pc : {"lockout", "create", "record", "session"}, user : Users,
   right : BOOLEAN, ip : Ips]
  \cup
  [op : {"login"}, pc : {"lockout", "verify", "active", "record", "session", "reread"},
   user : Users, right : BOOLEAN, ip : Ips, failures : Nat]

Flags == {"yes", "no", "absent"}

TeamRequest ==
  [op : {"create"}, pc : {"first"}, user : Users, role : Roles, active : {"absent"},
   password : {"absent"}]
  \cup
  [op : {"patch"}, pc : {"first", "second", "count", "reply"}, user : Users,
   role : Roles \cup {"absent"}, active : Flags, password : Passwords]
  \cup
  [op : {"patch"}, pc : {"password"}, user : Users,
   role : Roles \cup {"absent"}, active : Flags, password : {"strong"}]
  \cup
  [op : {"patch"}, pc : {"role"}, user : Users, role : Roles, active : Flags,
   password : Passwords]
  \cup
  [op : {"patch"}, pc : {"active"}, user : Users, role : Roles \cup {"absent"},
   active : {"yes", "no"}, password : Passwords]
  \cup
  [op : {"delete"}, pc : {"first", "count", "delete"}, user : Users,
   role : {"absent"}, active : {"absent"}, password : {"absent"}]
  \cup
  [op : {"revoke"}, pc : {"first", "second"}, user : Users, role : {"absent"},
   active : {"absent"}, password : {"absent"}]

\* A row of the table, the state of a handler: what a login or a PATCH carries
\* from call to call.
TypeOK ==
  /\ DOMAIN users \subseteq Users
  /\ users \in [DOMAIN users -> [role : Roles, active : BOOLEAN]]
  /\ sessions \in [Users -> Nat]
  /\ userFails \in [Users -> Nat]
  /\ ipFails \in [Ips -> Nat]
  /\ overtaken \in [Users -> Nat]
  /\ spent \in [Outside -> Nat]
  /\ requests \in [Requests -> {Free, Panicked} \cup SignInRequest \cup TeamRequest]

\* Only users who exist have sessions: a session opened while its user is being
\* deleted is refused or goes with the user (sessions.username REFERENCES users
\* ON DELETE CASCADE).
SessionsHaveUsers == \A u \in Users : sessions[u] > 0 => Known(u)

\* Failures recorded in one window stay below the threshold but for the requests
\* that passed the check at the same time: the check and the record are separate
\* calls (auth.rs handle_login, handle_setup).
FailuresBounded ==
  /\ \A u \in Users : userFails[u] < UserThreshold + Cardinality(Requests)
  /\ \A ip \in Ips : ipFails[ip] < IpThreshold + Cardinality(Requests)

\* ingest.rs:863-865, "a demote, deactivate, or delete that would leave zero
\* active admins is refused": once there are users, one of them is an active
\* admin.
ActiveAdminRemains == users # NoUsers => ActiveAdmins # {}

\* store.rs:1157-1159, deactivation "revokes every session - otherwise a
\* freshly-deactivated user would keep their cookie until expiry": a deactivated
\* user has no session (which require_auth would accept).
DeactivatedAreSignedOut ==
  \A u \in DOMAIN users : ~users[u].active => sessions[u] = 0

\* What does hold of it: the only sessions of a deactivated user are of requests
\* that had read the user as active, in handle_login (auth.rs:343) or by
\* creating it in handle_setup, and had yet to open the session when the last
\* deactivation committed, one for each; no login that checks later opens any.
OnlyOvertakenStay ==
  \A u \in DOMAIN users : ~users[u].active => sessions[u] <= overtaken[u]
============================================================================
