----------------------------- MODULE UserAdmin -----------------------------
(***************************************************************************)
(* Users, their sessions and the handlers that administer them             *)
(* (internal/web/users.go, session.go and the authentication functions of  *)
(* handlers.go).                                                           *)
(*                                                                         *)
(* A handler authenticates its actor, loads the target row, counts the     *)
(* other administrators, updates the target and drops its sessions, each   *)
(* a statement or a critical section of its own; a login verifies a        *)
(* password, which takes bcrypt's time, before it stores its session.      *)
(* Rows live in the database, sessions in memory.                          *)
(*                                                                         *)
(* The password of a row is the number of times it has been set; a login   *)
(* presents some password and passes when it is the row's.  Input that is  *)
(* refused before the database is read (an empty name, a short password, a *)
(* role that is none) is left out.  Any statement may fail and the process *)
(* may restart at any time, as often as it likes.                          *)
(***************************************************************************)
EXTENDS Naturals, Sequences, FiniteSets

CONSTANTS
    Names,          \* user names
    Roles,          \* policy.Roles, or as many of them as are told apart
    SeedRows,       \* accounts seed() creates in an empty database
    Tokens,         \* session tokens (randToken)
    Handlers,       \* HTTP handler goroutines
    MaxUsers,       \* bound: primary keys, which SQLite does not reuse
    MaxPassword,    \* bound: times a password is reset
    NoRow

Ids == 1..MaxUsers
Row == [name: Names, role: Roles, active: BOOLEAN, password: 0..MaxPassword]

ASSUME RolesAssumption == "admin" \in Roles
ASSUME SeedAssumption ==
    /\ SeedRows \in Seq(Row) /\ Len(SeedRows) <= MaxUsers
    /\ \E i \in DOMAIN SeedRows : SeedRows[i].role = "admin" /\ SeedRows[i].active
ASSUME NoneAssumption == NoRow \notin Row
ASSUME BoundAssumption == {MaxUsers, MaxPassword} \subseteq Nat

VARIABLES
    user,       \* users, by primary key; NoRow once deleted
    session,    \* sessionStore.data: Tokens -> entry
    job,        \* handlers in flight, lost in a crash
    blind       \* history: an enabled administrator was removed by a handler
                \*   that had looked at the table before another was removed

vars == <<user, session, job, blind>>

-----------------------------------------------------------------------------
\* seen: the row that vouched for the session (history, the code keeps the id only).
\* late: the login that stored it was still verifying when sessions were dropped.
Entry == [id: Ids, seen: Row, late: BOOLEAN]
NoSession == [id |-> 0]

Kinds == {"create", "role", "toggle", "delete", "password", "login"}
PCs == {"idle", "load", "count", "update", "revoke", "insert", "put"}
NoJob == [pc |-> "idle"]

\* row is the row to be written, or as read if the handler needs it later (a login, a
\* toggle); role the new role; token the one the request presents or the one a login
\* will issue.  stale (history): an enabled administrator was removed since the row
\* was read or the others were counted; for a login, see late.
Job == {NoJob} \cup
       [pc: PCs \ {"idle"}, kind: Kinds, id: 0..MaxUsers, row: Row \cup {NoRow},
        role: Roles, token: Tokens, stale: BOOLEAN]

TypeOK ==
    /\ user \in Seq(Row \cup {NoRow}) /\ Len(user) <= MaxUsers
    /\ session \in [Tokens -> Entry \cup {NoSession}]
    /\ job \in [Handlers -> Job]
    /\ blind \in BOOLEAN

Init ==
    /\ user = SeedRows
    /\ session = [t \in Tokens |-> NoSession]
    /\ job = [h \in Handlers |-> NoJob]
    /\ blind = FALSE

Exists(i) == i \in DOMAIN user /\ user[i] # NoRow
EnabledAdmin(i) == Exists(i) /\ user[i].role = "admin" /\ user[i].active

\* currentUser, from a session token to the enabled row behind it.
CurrentUser(t) == session[t] # NoSession /\ Exists(session[t].id) /\ user[session[t].id].active

\* requireCap(UserManage): only the role admin has it.
Authorised(t) == CurrentUser(t) /\ user[session[t].id].role = "admin"

JobAt(pc, kind, id, row, role, t) ==
    [pc |-> pc, kind |-> kind, id |-> id, row |-> row, role |-> role, token |-> t,
     stale |-> FALSE]
Goto(h, pc) == job' = [job EXCEPT ![h].pc = pc]
Finish(h) == job' = [job EXCEPT ![h] = NoJob]

-----------------------------------------------------------------------------
(* Sessions *)

\* doLogin: the query finds an enabled row of that name and its password matches.
DoLogin(h, i, password, t) ==
    /\ job[h] = NoJob
    /\ session[t] = NoSession /\ \A g \in Handlers : job[g] # NoJob => job[g].token # t
    /\ Exists(i) /\ user[i].active /\ user[i].password = password
    /\ job' = [job EXCEPT ![h] = JobAt("put", "login", i, user[i], user[i].role, t)]
    /\ UNCHANGED <<user, session, blind>>

SessionPut(h) ==
    /\ job[h].pc = "put"
    /\ session' = [session EXCEPT ![job[h].token] =
           [id |-> job[h].id, seen |-> job[h].row, late |-> job[h].stale]]
    /\ Finish(h)
    /\ UNCHANGED <<user, blind>>

\* logout, the expiry a Get notices, and the reaper all delete one entry.
SessionDelete(t) ==
    /\ session[t] # NoSession
    /\ session' = [session EXCEPT ![t] = NoSession]
    /\ UNCHANGED <<user, job, blind>>

\* Mutants: the target's entries are emptied, not removed; only the session of the
\* request is dropped.
DeleteByUserZeroes(h) ==
    /\ job[h].pc = "revoke"
    /\ session' = [t \in Tokens |->
           IF session[t].id = job[h].id THEN [session[t] EXCEPT !.id = 0] ELSE session[t]]
    /\ Finish(h)
    /\ UNCHANGED <<user, blind>>
DeleteByUserOwn(h) ==
    /\ job[h].pc = "revoke"
    /\ session' = [session EXCEPT ![job[h].token] = NoSession]
    /\ job' = [g \in Handlers |->
           IF g = h THEN NoJob
           ELSE IF job[g].pc = "put" /\ job[g].id = job[h].id
           THEN [job[g] EXCEPT !.stale = TRUE] ELSE job[g]]
    /\ UNCHANGED <<user, blind>>

\* A login of the target that is still verifying is not in the store yet.
DeleteByUser(h) ==
    /\ job[h].pc = "revoke"
    /\ session' = [t \in Tokens |->
           IF session[t].id = job[h].id THEN NoSession ELSE session[t]]
    /\ job' = [g \in Handlers |->
           IF g = h THEN NoJob
           ELSE IF job[g].pc = "put" /\ job[g].id = job[h].id
           THEN [job[g] EXCEPT !.stale = TRUE] ELSE job[g]]
    /\ UNCHANGED <<user, blind>>

-----------------------------------------------------------------------------
(* The handlers of users.go *)

\* userCreate: the name is looked up first and guarded by a unique index after.
NameTaken(name) == \E i \in DOMAIN user : Exists(i) /\ user[i].name = name

UserCreate(h, t, name, role) ==
    /\ job[h] = NoJob /\ Authorised(t)
    /\ Len(user) < MaxUsers
    /\ ~NameTaken(name)
    /\ job' = [job EXCEPT ![h] =
           JobAt("insert", "create", 0,
                 [name |-> name, role |-> role, active |-> TRUE, password |-> 0], role, t)]
    /\ UNCHANGED <<user, session, blind>>

\* An INSERT that fails, also because the name is taken by now, leaves nothing behind.
UserInsert(h) ==
    /\ job[h].pc = "insert"
    /\ \/ /\ ~NameTaken(job[h].row.name) /\ Len(user) < MaxUsers
          /\ user' = Append(user, job[h].row)
       \/ UNCHANGED user
    /\ Finish(h)
    /\ UNCHANGED <<session, blind>>

\* The middleware lets the request through; its handler starts later.
AdminRequest(h, t, kind, i, role) ==
    /\ job[h] = NoJob /\ Authorised(t)
    /\ kind \in {"role", "toggle", "delete", "password"} /\ i \in DOMAIN user
    /\ job' = [job EXCEPT ![h] = JobAt("load", kind, i, NoRow, role, t)]
    /\ UNCHANGED <<user, session, blind>>

\* The requests that may take an administrator away, as the row read tells it.
MayRemoveAdmin(j, row) ==
    /\ row.role = "admin"
    /\ \/ j.kind = "role" /\ j.role # "admin"
       \/ j.kind = "toggle" /\ row.active
       \/ j.kind = "delete"

\* Mutant: an administrator may disable or delete the account in use.
SelfTestNone(j) == TRUE

\* Toggling and deleting compare the target with the actor, who is looked up again:
\* when the session is gone by then, the nil actor ends the handler in a panic.
SelfTest(j) ==
    j.kind \in {"toggle", "delete"} => CurrentUser(j.token) /\ session[j.token].id # j.id

LoadTargetUser(h) ==
    /\ job[h].pc = "load"
    /\ LET j == job[h]
           goes == Exists(j.id) /\ SelfTest(j) /\ ~(j.kind = "role" /\ user[j.id].role = j.role)
       IN \/ ~goes /\ Finish(h)
          \/ /\ goes
             /\ job' = [job EXCEPT
                    ![h].row = IF j.kind = "toggle" THEN user[j.id] ELSE NoRow,
                    ![h].pc = IF MayRemoveAdmin(j, user[j.id]) THEN "count" ELSE "update"]
    /\ UNCHANGED <<user, session, blind>>

\* Mutant: the target is counted too.
CountActiveAdminsAll(h) ==
    /\ job[h].pc = "count"
    /\ \/ /\ \E i \in DOMAIN user : EnabledAdmin(i)
          /\ job' = [job EXCEPT ![h].pc = "update", ![h].stale = FALSE]
       \/ /\ \A i \in DOMAIN user : ~EnabledAdmin(i)
          /\ Finish(h)
    /\ UNCHANGED <<user, session, blind>>

\* Nobody else, or a query that failed and counts as zero: the request is refused.
CountActiveAdmins(h) ==
    /\ job[h].pc = "count"
    /\ \/ /\ \E i \in DOMAIN user \ {job[h].id} : EnabledAdmin(i)
          /\ job' = [job EXCEPT ![h].pc = "update", ![h].stale = FALSE]
       \/ Finish(h)
    /\ UNCHANGED <<user, session, blind>>

\* The column a request writes; toggling writes the opposite of what it read.
Written(j) ==
    LET row == user[j.id] IN
    CASE j.kind = "role" -> [row EXCEPT !.role = j.role]
      [] j.kind = "toggle" -> [row EXCEPT !.active = ~j.row.active]
      [] j.kind = "password" -> [row EXCEPT !.password = row.password + 1]
      [] j.kind = "delete" -> NoRow

\* An UPDATE of a row that has been deleted meanwhile changes nothing and succeeds;
\* one that fails ends the handler.
\* Enabling a user drops no sessions.
UserUpdate(h) ==
    /\ job[h].pc = "update"
    /\ LET j == job[h]
           after == IF j.kind = "toggle" /\ ~j.row.active
                    THEN NoJob ELSE [j EXCEPT !.pc = "revoke"]
           removes == EnabledAdmin(j.id) /\
               LET row == Written(j) IN row = NoRow \/ row.role # "admin" \/ ~row.active
       IN \/ /\ ~Exists(j.id)
             /\ job' = [job EXCEPT ![h] = after]
             /\ UNCHANGED <<user, blind>>
          \/ /\ Exists(j.id)
             /\ j.kind = "password" =>
                    \A i \in DOMAIN user : Exists(i) => user[i].password < MaxPassword
             /\ user' = [user EXCEPT ![j.id] = Written(j)]
             /\ job' = [g \in Handlers |->
                    IF g = h THEN after
                    ELSE IF removes /\ job[g].pc \in {"count", "update"}
                    THEN [job[g] EXCEPT !.stale = TRUE] ELSE job[g]]
             /\ blind' = (blind \/ (removes /\ j.stale))
          \/ Finish(h) /\ UNCHANGED <<user, blind>>
    /\ UNCHANGED session

-----------------------------------------------------------------------------
\* Sessions live in memory: everyone logs in again.
Restart ==
    /\ session' = [t \in Tokens |-> NoSession]
    /\ job' = [h \in Handlers |-> NoJob]
    /\ UNCHANGED <<user, blind>>

Step(h) ==
    \/ SessionPut(h) \/ DeleteByUser(h)
    \/ UserInsert(h) \/ LoadTargetUser(h) \/ CountActiveAdmins(h) \/ UserUpdate(h)

Arrive(h, t) ==
    \/ \E i \in Ids, p \in 0..MaxPassword : DoLogin(h, i, p, t)
    \/ \E name \in Names, role \in Roles : UserCreate(h, t, name, role)
    \/ \E i \in Ids, role \in Roles \ {"admin"} : AdminRequest(h, t, "role", i, role)
    \/ \E i \in Ids : AdminRequest(h, t, "role", i, "admin")
    \/ \E i \in Ids, kind \in {"toggle", "delete", "password"} :
          AdminRequest(h, t, kind, i, "admin")

Next ==
    \/ \E h \in Handlers : Step(h) \/ \E t \in Tokens : Arrive(h, t)
    \/ \E t \in Tokens : SessionDelete(t)
    \/ Restart

Spec == Init /\ [][Next]_vars

-----------------------------------------------------------------------------
(* Properties *)

\* Some administrator can always get in, unless two handlers took two of them away
\* at the same time: whatever mix of demotions, disablings and deletions arrives,
\* whoever sends it, and whoever is promoted or disabled meanwhile.
AdminRemains == ~blind => \E i \in DOMAIN user : EnabledAdmin(i)

\* A session is as good as the row that opened it: the user exists, is enabled and
\* has the same role and password as at the login, unless the handler that changed
\* this has yet to drop the sessions, or the login overlapped that dropping.
SessionsFresh ==
    \A t \in Tokens : session[t] # NoSession /\ ~session[t].late =>
        LET s == session[t] IN
        \/ \E h \in Handlers : job[h].pc = "revoke" /\ job[h].id = s.id
        \/ /\ Exists(s.id)
           /\ user[s.id] = [s.seen EXCEPT !.active = TRUE]

\* Nobody loses the account in use by disabling or deleting it: when such an UPDATE
\* runs, the session it was requested with has ended or is another user's.
NotOneself ==
    [][\A h \in Handlers :
          job[h].pc = "update" /\ job[h].kind \in {"toggle", "delete"} /\ user' # user =>
              session[job[h].token].id # job[h].id]_vars
=============================================================================
