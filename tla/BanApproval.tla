---------------------------- MODULE BanApproval ----------------------------
(***************************************************************************)
(* The life of a single-target ban request: submission, the emailed        *)
(* one-time approval link, approval and rejection in the web UI, and the   *)
(* dispatch order an approval produces (internal/web/handlers.go,          *)
(* internal/web/services.go, internal/approval, internal/dispatch,         *)
(* internal/escalation, internal/safety).                                  *)
(*                                                                         *)
(* Every HTTP request runs in its own goroutine and GORM's default         *)
(* transaction is switched off (model.go, SkipDefaultTransaction), so a    *)
(* handler is a sequence of separately atomic SQL statements that other    *)
(* handlers' statements interleave with.  A job is a handler in flight;    *)
(* its pc names the statement it runs next.  The one exception is the      *)
(* email link, whose token and request are read and written in one         *)
(* transaction.                                                            *)
(***************************************************************************)
EXTENDS Naturals, Sequences

CONSTANTS
    Users,          \* rows of the users table
    SeedRole,       \* SeedRole[u]: role of u at the start
    NewRoles,       \* roles an admin gives to users later
    Targets,        \* the strings a user may type, or the protected set hold
    Cover,          \* Cover[t]: addresses of t as safety.toPrefix parses it,
                    \*   {} when it does not parse
    HardProtected,  \* safety.New's built-in entries
    Seeded,         \* protected_targets rows present at start
    ReqIds,         \* primary keys of ban_requests
    Handlers,       \* HTTP handler goroutines
    MaxLevel,       \* last index of escalation.Ladder, the permanent level
    MaxFaults,      \* bound: failing SQL statements
    MaxCrashes,     \* bound: restarts of the process
    MaxEdits,       \* bound: changes of users and of protected_targets
    NoUser, NoReq, NoTarget

Roles == {"admin", "approver", "operator", "viewer"}

ASSUME RoleAssumption == SeedRole \in [Users -> Roles] /\ NewRoles \subseteq Roles
ASSUME CoverAssumption == HardProtected \subseteq Targets /\ Seeded \subseteq Targets
ASSUME BoundAssumption ==
    /\ MaxLevel \in Nat
    /\ MaxFaults \in Nat /\ MaxCrashes \in Nat /\ MaxEdits \in Nat
ASSUME NoneAssumption ==
    NoUser \notin Users /\ NoReq \notin ReqIds /\ NoTarget \notin Targets

VARIABLES
    request,    \* ban_requests: ReqIds -> row
    token,      \* approval_tokens: GenTokensAndSend writes at most one per request
    dispatch,   \* dispatches, in the order of their primary keys
    protected,  \* active rows of protected_targets
    user,       \* users: Users -> row
    ladder,     \* ban_ladders: Targets -> row
    audit,      \* audit_logs rows of approvals (the others are left out)
    job,        \* handlers in flight, lost in a crash
    faults, crashes, edits,  \* how much of the bounds is used up
    entitled    \* history: entitled[r] are the users who could have decided request r
                \*   at one time or another since it was submitted

vars == <<request, token, dispatch, protected, user, ladder, audit, job,
          faults, crashes, edits, entitled>>

-----------------------------------------------------------------------------
(* Rows *)

ReqStates == {"absent", "pending", "active", "rejected", "safety_blocked"}
TokenStates == {"none", "valid", "used", "expired"}
Levels == 0..MaxLevel

User == [active: BOOLEAN, role: Roles]
Request == [state: ReqStates, target: Targets \cup {NoTarget},
            requester: Users \cup {NoUser}, approver: Users \cup {NoUser},
            ttl: Levels]
Token == [state: TokenStates, approver: Users \cup {NoUser}]
Dispatch == [req: ReqIds, target: Targets, ttl: Levels,
             state: {"pending", "acked", "failed"}]
LadderRow == [known: BOOLEAN, level: Levels, count: Nat, observing: BOOLEAN]
AuditRow == [req: ReqIds, user: Users]

PCs == {"idle", "ttl", "insert", "mail", "activate", "audit", "guard", "block",
        "lookup", "dispatch", "ladderRead", "ladderWrite"}
Job == [pc: PCs, user: Users \cup {NoUser}, req: ReqIds \cup {NoReq},
        target: Targets \cup {NoTarget}, ttl: Levels, row: LadderRow]

NoRequest == [state |-> "absent", target |-> NoTarget, requester |-> NoUser,
              approver |-> NoUser, ttl |-> 0]
NoLadder == [known |-> FALSE, level |-> 0, count |-> 0, observing |-> FALSE]
JobAt(pc, u, r, t, ttl, row) ==
    [pc |-> pc, user |-> u, req |-> r, target |-> t, ttl |-> ttl, row |-> row]
Idle == JobAt("idle", NoUser, NoReq, NoTarget, 0, NoLadder)

TypeOK ==
    /\ request \in [ReqIds -> Request]
    /\ token \in [ReqIds -> Token]
    /\ dispatch \in Seq(Dispatch)
    /\ protected \in SUBSET Targets
    /\ user \in [Users -> User]
    /\ ladder \in [Targets -> LadderRow]
    /\ audit \in SUBSET AuditRow
    /\ job \in [Handlers -> Job]
    /\ faults \in 0..MaxFaults /\ crashes \in 0..MaxCrashes /\ edits \in 0..MaxEdits
    /\ entitled \in [ReqIds -> SUBSET Users]

Init ==
    /\ request = [r \in ReqIds |-> NoRequest]
    /\ token = [r \in ReqIds |-> [state |-> "none", approver |-> NoUser]]
    /\ dispatch = <<>>
    /\ protected = Seeded
    /\ user = [u \in Users |-> [active |-> TRUE, role |-> SeedRole[u]]]
    /\ ladder = [t \in Targets |-> NoLadder]
    /\ audit = {}
    /\ job = [h \in Handlers |-> Idle]
    /\ faults = 0 /\ crashes = 0 /\ edits = 0
    /\ entitled = [r \in ReqIds |-> {}]

-----------------------------------------------------------------------------
(* Rules the handlers consult *)

\* policy.Allow for the capabilities used here, plus the role filter of
\* GenTokensAndSend (the same two roles as ban_request_approve).
MayCreate(u) == user[u].role \in {"admin", "operator"}
MayDecide(u) == user[u].role \in {"admin", "approver"}
Deciders == {u \in Users : user[u].active /\ MayDecide(u)}

\* Mutants: the built-in entries forgotten; only targets inside an entry vetoed.
AssertSafeSeededOnly(t, entries) ==
    Cover[t] # {} /\ \A p \in entries : Cover[p] \cap Cover[t] = {}
AssertSafeInside(t, entries) ==
    Cover[t] # {} /\ \A p \in HardProtected \cup entries : ~(Cover[t] \subseteq Cover[p])

\* safety.Guard.AssertSafe: a target that does not parse is vetoed, and so is one
\* that overlaps a protected entry in either direction.  Entries that do not parse
\* were skipped by Guard.Add; they cover nothing.
AssertSafe(t, entries) ==
    /\ Cover[t] # {}
    /\ \A p \in HardProtected \cup entries : Cover[p] \cap Cover[t] = {}

\* services.go nextTTL: one level up while the target is under observation.
NextTTL(row) ==
    IF row.observing /\ row.level < MaxLevel THEN row.level + 1 ELSE row.level

\* Mutant: escalates without having been under observation.
RegisterBanAlways(row) ==
    [known |-> TRUE, level |-> IF row.level < MaxLevel THEN row.level + 1 ELSE row.level,
     count |-> row.count + 1, observing |-> TRUE]

\* escalation.Penalty.RegisterBan as recordLadder calls it.  A permanent ban has
\* no observation window.
RegisterBan(row) ==
    LET level == IF row.observing /\ row.level < MaxLevel THEN row.level + 1
                                                          ELSE row.level
    IN  [known |-> TRUE, level |-> level, count |-> row.count + 1,
         observing |-> level < MaxLevel]

DispatchesOf(r) == {i \in DOMAIN dispatch : dispatch[i].req = r}

\* A statement that succeeds, and one that returns an error (disk, lock timeout).
Succeeds == UNCHANGED faults
Fails == faults < MaxFaults /\ faults' = faults + 1

At(h, pc) == job[h].pc = pc
Become(h, j) == job' = [job EXCEPT ![h] = j]
Finish(h) == Become(h, Idle)
\* On to the next statement, keeping only who acts on which request.
Goto(h, pc) == Become(h, JobAt(pc, job[h].user, job[h].req, NoTarget, 0, NoLadder))

\* UPDATE ban_requests SET state, approved_by_id WHERE id = r.
UpdateRequest(r, state, approver) ==
    request' = [request EXCEPT ![r] =
        [state |-> state, target |-> @.target, requester |-> @.requester,
         approver |-> approver, ttl |-> @.ttl]]

-----------------------------------------------------------------------------
(* POST /bans *)

\* The capability check and the safety pre-check.  services.go guard() ignores a
\* failed read of protected_targets and goes on with the built-in entries.  The
\* two reads are one step: nothing a handler writes can tell them apart.
BanCreate(h, u, t) ==
    /\ At(h, "idle")
    /\ user[u].active /\ MayCreate(u)
    /\ \/ AssertSafe(t, protected) /\ Succeeds
       \/ AssertSafe(t, {}) /\ Fails
    /\ Become(h, JobAt("ttl", u, NoReq, t, 0, NoLadder))
    /\ UNCHANGED <<request, token, dispatch, protected, user, entitled, ladder, audit,
                   crashes, edits>>

\* The ladder is read now; the ban it prices may be approved much later.
BanCreateTTL(h) ==
    /\ At(h, "ttl")
    /\ \E ttl \in Levels :
          /\ \/ ttl = NextTTL(ladder[job[h].target]) /\ Succeeds
             \/ ttl = NextTTL(NoLadder) /\ Fails
          /\ Become(h, JobAt("insert", job[h].user, NoReq, job[h].target, ttl, NoLadder))
    /\ UNCHANGED <<request, token, dispatch, protected, user, entitled, ladder, audit,
                   crashes, edits>>

BanCreateInsert(h) ==
    /\ At(h, "insert")
    /\ \/ /\ Succeeds
          /\ \E r \in ReqIds :
                /\ request[r].state = "absent"
                /\ request' = [request EXCEPT ![r] =
                      [state |-> "pending", target |-> job[h].target,
                       requester |-> job[h].user, approver |-> NoUser,
                       ttl |-> job[h].ttl]]
                /\ entitled' = [entitled EXCEPT ![r] = Deciders]
                /\ Become(h, JobAt("mail", job[h].user, r, NoTarget, 0, NoLadder))
       \/ Fails /\ Finish(h) /\ UNCHANGED <<request, entitled>>
    /\ UNCHANGED <<token, dispatch, protected, user, ladder, audit, crashes, edits>>


\* GenTokensAndSend: any enabled approver other than the requester (the query has
\* no ORDER BY), and none at all is not an error.
GenTokensAndSend(h) ==
    LET r == job[h].req
        approvers == Deciders \ {job[h].user}
    IN  /\ At(h, "mail")
        /\ \/ /\ Succeeds
              /\ \E a \in approvers :
                    token' = [token EXCEPT ![r] = [state |-> "valid", approver |-> a]]
           \/ approvers = {} /\ Succeeds /\ UNCHANGED token
           \/ Fails /\ UNCHANGED token
        /\ Finish(h)
        /\ UNCHANGED <<request, dispatch, protected, user, entitled, ladder, audit,
                       crashes, edits>>

-----------------------------------------------------------------------------
(* POST /bans/:id/approve and /reject *)

\* Mutant: the requester may approve.
BanApproveOwn(h, u, r) ==
    /\ At(h, "idle")
    /\ u \in Deciders
    /\ request[r].state = "pending"
    /\ Become(h, JobAt("activate", u, r, NoTarget, 0, NoLadder))
    /\ UNCHANGED <<request, token, dispatch, protected, user, entitled, ladder, audit,
                   faults, crashes, edits>>

\* The capability check and the read of the request, which the handler then trusts:
\* it goes on only if the request it read was pending and not its own.
BanApprove(h, u, r) ==
    /\ At(h, "idle")
    /\ u \in Deciders
    /\ request[r].state = "pending"
    /\ request[r].requester # u
    /\ Become(h, JobAt("activate", u, r, NoTarget, 0, NoLadder))
    /\ UNCHANGED <<request, token, dispatch, protected, user, entitled, ladder, audit,
                   faults, crashes, edits>>

\* UPDATE ... WHERE id = ?: the state read before is not part of the condition.
BanApproveUpdate(h) ==
    LET r == job[h].req
    IN  /\ At(h, "activate")
        /\ \/ /\ Succeeds
              /\ UpdateRequest(r, "active", job[h].user)
              /\ Goto(h, "audit")
           \/ Fails /\ Finish(h) /\ UNCHANGED request
        /\ UNCHANGED <<token, dispatch, protected, user, entitled, ladder, audit,
                       crashes, edits>>

\* Mutants: a state name no reader knows; the approver cleared.
BanRejectMisspelt(u, r) ==
    /\ u \in Deciders
    /\ request[r].state # "absent"
    /\ UpdateRequest(r, "reject", request[r].approver)
    /\ UNCHANGED <<token, dispatch, protected, user, entitled, ladder, audit, job,
                   faults, crashes, edits>>
BanRejectClears(u, r) ==
    /\ u \in Deciders
    /\ request[r].state # "absent"
    /\ UpdateRequest(r, "rejected", NoUser)
    /\ UNCHANGED <<token, dispatch, protected, user, entitled, ladder, audit, job,
                   faults, crashes, edits>>

\* banReject looks at no field of the request it loads and ignores the result of its
\* UPDATE, so the two statements are one step.
BanReject(u, r) ==
    /\ u \in Deciders
    /\ request[r].state # "absent"
    /\ UpdateRequest(r, "rejected", request[r].approver)
    /\ UNCHANGED <<token, dispatch, protected, user, entitled, ladder, audit, job,
                   faults, crashes, edits>>

-----------------------------------------------------------------------------
(* POST /approve/:token, the public email link *)

\* Mutant: the request need not be pending.
RedeemAnyState(r) ==
    /\ token[r].state = "valid"
    /\ request[r].state # "absent"
    /\ request[r].requester # token[r].approver
    /\ token' = [token EXCEPT ![r] = [state |-> "used", approver |-> @.approver]]
    /\ UNCHANGED <<dispatch, protected, user, entitled, ladder, audit, faults,
                   crashes, edits>>

\* The token stands for its approver; whether that user is still enabled and of a role that
\* may approve is not looked at.  One transaction: it commits whole, or fails and changes
\* nothing.
Redeem(r) ==
    /\ token[r].state = "valid"
    /\ request[r].state = "pending"
    /\ request[r].requester # token[r].approver
    /\ token' = [token EXCEPT ![r] = [state |-> "used", approver |-> @.approver]]
    /\ UNCHANGED <<dispatch, protected, user, entitled, ladder, audit, faults,
                   crashes, edits>>

\* Mutant: the audit row is not written.
ApproveDoUnaudited(h, r) ==
    /\ At(h, "idle")
    /\ Redeem(r)
    /\ UpdateRequest(r, "active", token[r].approver)
    /\ Become(h, JobAt("guard", token[r].approver, r, NoTarget, 0, NoLadder))

ApproveDoApprove(h, r) ==
    /\ At(h, "idle")
    /\ Redeem(r)
    /\ UpdateRequest(r, "active", token[r].approver)
    /\ Become(h, JobAt("audit", token[r].approver, r, NoTarget, 0, NoLadder))

ApproveDoReject(r) ==
    /\ Redeem(r)
    /\ UpdateRequest(r, "rejected", request[r].approver)
    /\ UNCHANGED job

\* ExpiresAt passes.
TokenExpires(r) ==
    /\ token[r].state = "valid"
    /\ token' = [token EXCEPT ![r] = [state |-> "expired", approver |-> @.approver]]
    /\ UNCHANGED <<request, dispatch, protected, user, entitled, ladder, audit, job,
                   faults, crashes, edits>>

-----------------------------------------------------------------------------
(* What both approval paths do next: audit, CreateDispatch, recordLadder *)

\* WriteAudit's error is discarded.
AuditApproval(h) ==
    /\ At(h, "audit")
    /\ \/ Succeeds /\ audit' = audit \cup {[req |-> job[h].req, user |-> job[h].user]}
       \/ Fails /\ UNCHANGED audit
    /\ Goto(h, "guard")
    /\ UNCHANGED <<request, token, dispatch, protected, user, entitled, ladder,
                   crashes, edits>>

\* Mutant: trusts the check made when the request was submitted.
SafetyCheckSkipped(h) ==
    /\ At(h, "guard")
    /\ Goto(h, "lookup")
    /\ UNCHANGED <<request, token, dispatch, protected, user, entitled, ladder, audit,
                   faults, crashes, edits>>

\* dispatches() reads the protected set afresh and CreateDispatch vetoes by it; a
\* failed read again leaves only the built-in entries.
SafetyCheck(h) ==
    /\ At(h, "guard")
    /\ \E entries \in {protected, {}} :
          /\ \/ entries = protected /\ Succeeds
             \/ entries = {} /\ Fails
          /\ Goto(h, IF AssertSafe(request[job[h].req].target, entries)
                     THEN "lookup" ELSE "block")
    /\ UNCHANGED <<request, token, dispatch, protected, user, entitled, ladder, audit,
                   crashes, edits>>

SafetyBlock(h) ==
    /\ At(h, "block")
    /\ \/ Succeeds /\ UpdateRequest(job[h].req, "safety_blocked", request[job[h].req].approver)
       \/ Fails /\ UNCHANGED request
    /\ Finish(h)
    /\ UNCHANGED <<token, dispatch, protected, user, entitled, ladder, audit,
                   crashes, edits>>

\* Mutant: the two answers mixed up.
DispatchLookupSwapped(h) ==
    /\ At(h, "lookup")
    /\ \/ DispatchesOf(job[h].req) = {} /\ Goto(h, "ladderRead")
       \/ DispatchesOf(job[h].req) # {} /\ Goto(h, "dispatch")
    /\ UNCHANGED <<request, token, dispatch, protected, user, entitled, ladder, audit,
                   faults, crashes, edits>>

\* The ban_id of a dispatch is its request and that request's target.  Any error of
\* the query, not only "not found", is taken for "no such dispatch".
DispatchLookup(h) ==
    /\ At(h, "lookup")
    /\ \/ DispatchesOf(job[h].req) # {} /\ Succeeds /\ Goto(h, "ladderRead")
       \/ DispatchesOf(job[h].req) = {} /\ Succeeds /\ Goto(h, "dispatch")
       \/ Fails /\ Goto(h, "dispatch")
    /\ UNCHANGED <<request, token, dispatch, protected, user, entitled, ladder, audit,
                   crashes, edits>>

\* ban_id carries no unique index: the INSERT never conflicts.
DispatchInsert(h) ==
    LET r == job[h].req
    IN  /\ At(h, "dispatch")
        /\ \/ /\ Succeeds
              /\ dispatch' = Append(dispatch,
                    [req |-> r, target |-> request[r].target,
                     ttl |-> request[r].ttl, state |-> "pending"])
              /\ Goto(h, "ladderRead")
           \/ Fails /\ Finish(h) /\ UNCHANGED dispatch
        /\ UNCHANGED <<request, token, protected, user, entitled, ladder, audit,
                       crashes, edits>>

\* recordLadder: read the row, compute the next one in memory, write it back.  After
\* a failed read there is no row to address and nothing is written.
LadderRead(h) ==
    /\ At(h, "ladderRead")
    /\ \/ /\ Succeeds
          /\ Become(h, JobAt("ladderWrite", job[h].user, job[h].req, NoTarget, 0,
                             ladder[request[job[h].req].target]))
       \/ Fails /\ Finish(h)
    /\ UNCHANGED <<request, token, dispatch, protected, user, entitled, ladder, audit,
                   crashes, edits>>

\* An INSERT when the read found no row, which the unique index on target refuses if
\* another handler has inserted one since; a blind UPDATE otherwise.
LadderWrite(h) ==
    LET t == request[job[h].req].target
    IN  /\ At(h, "ladderWrite")
        /\ \/ /\ Succeeds
              /\ job[h].row.known \/ ~ladder[t].known
              /\ ladder' = [ladder EXCEPT ![t] = RegisterBan(job[h].row)]
           \/ /\ Succeeds
              /\ ~job[h].row.known /\ ladder[t].known
              /\ UNCHANGED ladder
           \/ Fails /\ UNCHANGED ladder
        /\ Finish(h)
        /\ UNCHANGED <<request, token, dispatch, protected, user, entitled, audit,
                       crashes, edits>>

-----------------------------------------------------------------------------
(* The surroundings *)

\* The observation window of t runs out.
ObserveWindowEnds(t) ==
    /\ ladder[t].observing
    /\ ladder' = [ladder EXCEPT ![t] = [known |-> @.known, level |-> @.level,
                                        count |-> @.count, observing |-> FALSE]]
    /\ UNCHANGED <<request, token, dispatch, protected, user, entitled, audit, job,
                   faults, crashes, edits>>

\* An UPDATE of one user's row; whoever may decide afterwards may decide every request
\* there is.
UpdateUser(u, row) ==
    /\ edits < MaxEdits
    /\ edits' = edits + 1
    /\ user' = [user EXCEPT ![u] = row]
    /\ entitled' = [r \in ReqIds |-> IF request[r].state = "absent" THEN {}
                                     ELSE entitled[r] \cup Deciders']
    /\ UNCHANGED <<request, token, dispatch, protected, ladder, audit, job,
                   faults, crashes>>

\* POST /users/:id/toggle and /users/:id/role, as far as approvals see them: each is
\* one step (UserAdmin has their statements), by an enabled admin, and leaves one.
\* Nothing is done about the user's links and handlers in flight.
ActiveAdmin(u) == user[u].active /\ user[u].role = "admin"
UserToggleActive(actor, u) ==
    /\ ActiveAdmin(actor) /\ u # actor
    /\ UpdateUser(u, [active |-> ~user[u].active, role |-> user[u].role])
UserChangeRole(actor, u, role) ==
    /\ ActiveAdmin(actor) /\ role # user[u].role
    /\ user[u].role = "admin" => \E other \in Users \ {u} : ActiveAdmin(other)
    /\ UpdateUser(u, [active |-> user[u].active, role |-> role])

\* Nothing in the program writes protected_targets after seeding; the operators do,
\* in the database.
EditProtected(t) ==
    /\ edits < MaxEdits
    /\ edits' = edits + 1
    /\ protected' = IF t \in protected THEN protected \ {t} ELSE protected \cup {t}
    /\ UNCHANGED <<request, token, dispatch, user, entitled, ladder, audit, job,
                   faults, crashes>>

\* The process dies and restarts: handlers are gone, the database stays.
Crash ==
    /\ crashes < MaxCrashes
    /\ crashes' = crashes + 1
    /\ job' = [h \in Handlers |-> Idle]
    /\ UNCHANGED <<request, token, dispatch, protected, user, entitled, ladder, audit,
                   faults, edits>>

\* A handler runs its next statement.
Step(h) ==
    \/ BanCreateTTL(h) \/ BanCreateInsert(h) \/ GenTokensAndSend(h)
    \/ BanApproveUpdate(h) \/ AuditApproval(h)
    \/ SafetyCheck(h) \/ SafetyBlock(h)
    \/ DispatchLookup(h) \/ DispatchInsert(h)
    \/ LadderRead(h) \/ LadderWrite(h)

\* A new HTTP request arrives.
Arrive(h) ==
    \/ \E u \in Users, t \in Targets : BanCreate(h, u, t)
    \/ \E u \in Users, r \in ReqIds : BanApprove(h, u, r)
    \/ \E r \in ReqIds : ApproveDoApprove(h, r)

Next ==
    \/ \E h \in Handlers : Arrive(h) \/ Step(h)
    \/ \E u \in Users, r \in ReqIds : BanReject(u, r)
    \/ \E r \in ReqIds : ApproveDoReject(r)
    \/ \E r \in ReqIds : TokenExpires(r)
    \/ \E t \in Targets : ObserveWindowEnds(t) \/ EditProtected(t)
    \/ \E actor, u \in Users :
          \/ UserToggleActive(actor, u)
          \/ \E role \in NewRoles : UserChangeRole(actor, u, role)
    \/ Crash

Spec == Init /\ [][Next]_vars

\* A goroutine that has started runs to its end; nobody has to send a request.
FairSpec == Spec /\ \A h \in Handlers : WF_vars(Step(h))
-----------------------------------------------------------------------------
(* Safety *)

Dispatched(r) == DispatchesOf(r) # {}
InFlight(r, pcs) == \E h \in Handlers : job[h].req = r /\ job[h].pc \in pcs

\* Four eyes (handlers.go 252, 393 and the token's addressee): whatever races, crashes,
\* changes of roles and later decisions occur, an approver on record is another user
\* than the requester and was, at some time since the submission, enabled and of a role
\* that may approve; and every dispatch has one on record.  It is not enough to have
\* been an approver before, and nothing more is kept: neither the link nor the UPDATE
\* of an approval looks at the role again.
FourEyes ==
    /\ \A r \in ReqIds : request[r].approver # NoUser =>
          /\ request[r].approver # request[r].requester
          /\ request[r].approver \in entitled[r]
    /\ \A i \in DOMAIN dispatch : request[dispatch[i].req].approver # NoUser

\* The order of the statements after an approval (handlers.go 278 and 430 before 281
\* and 432): no dispatch goes out that the audit log cannot trace to an approval by
\* someone else, not even one cut short by a crash.
DispatchIsAudited ==
    faults = 0 =>
        \A i \in DOMAIN dispatch : \E row \in audit :
            /\ row.req = dispatch[i].req
            /\ row.user # request[dispatch[i].req].requester

\* The safety set (CreateDispatch's first check), address by address: every dispatch
\* names some, none of them built-in protected, and none seeded as long as the
\* database answers and nobody edits the set.
Harmless(t, entries) ==
    /\ Cover[t] # {}
    /\ Cover[t] \cap UNION {Cover[p] : p \in HardProtected \cup entries} = {}
NoUnsafeDispatch ==
    \A i \in DOMAIN dispatch :
        Harmless(dispatch[i].target, IF faults = 0 /\ edits = 0 THEN protected ELSE {})

\* The set as it is at approval decides, not as it was at submission: while an entry
\* stands and its reads succeed, a submitted request it covers gets no dispatch
\* unless a handler was already past the check.
Vetoed(r) ==
    /\ request[r].state # "absent" /\ ~Harmless(request[r].target, protected)
    /\ DispatchesOf(r) = {} /\ ~InFlight(r, {"lookup", "dispatch"})
VetoHolds ==
    [][\A r \in ReqIds : Vetoed(r) /\ UNCHANGED <<protected,
                                                  faults>> => Vetoed(r)']_vars

\* Approval is not an end state: without crashes and failed statements, an active
\* request has a dispatch or a handler that is still on its way to one.
ActiveIsBacked ==
    faults = 0 /\ crashes = 0 =>
        \A r \in ReqIds : request[r].state = "active" =>
            Dispatched(r) \/ InFlight(r, {"audit", "guard", "block", "lookup", "dispatch"})

\* recordLadder: levels are earned one recorded ban at a time, however its reads and
\* writes interleave, so no target reaches the permanent level in fewer bans than
\* the ladder has levels.
LadderEarned ==
    \A t \in Targets :
        IF ladder[t].known THEN ladder[t].level < ladder[t].count
                           ELSE ladder[t] = NoLadder

\* A rejection no approver is in the middle of overruling is final: the request
\* stays rejected and no further dispatch is made for it (handlers.go 258, 389).
Settled(r) ==
    /\ request[r].state = "rejected"
    /\ ~InFlight(r, {"activate", "audit", "guard", "block", "lookup", "dispatch"})
RejectionSticks ==
    [][\A r \in ReqIds : Settled(r) =>
          Settled(r)' /\ DispatchesOf(r)' = DispatchesOf(r)]_vars

\* What the component promises, whatever the order of its statements.
Governed == INSTANCE GovernedBan WITH
    requester <- [r \in ReqIds |-> request[r].requester],
    approver <- [r \in ReqIds |-> request[r].approver],
    ordered <- {dispatch[i].req : i \in DOMAIN dispatch}
RefinesGovernedBan == Governed!Spec

(* Liveness *)

\* Handlers run to completion: an approved request is dispatched or blocked.
ApprovalExecuted ==
    \A r \in ReqIds : request[r].state = "active" ~>
        Dispatched(r) \/ request[r].state = "safety_blocked"

(* What the comments and tests claim and the code does not keep *)

\* dispatch/service_test.go 83: approving a request again makes no second dispatch.
OneDispatchPerRequest ==
    \A i, j \in DOMAIN dispatch : dispatch[i].req = dispatch[j].req => i = j

\* handlers.go 280 "the last veto, no way around it", with the protected set as seeded.
SeededNeverDispatched ==
    \A i \in DOMAIN dispatch : Harmless(dispatch[i].target, Seeded)

\* services.go 103: the ladder escalates when a target offends again under
\* observation, so a target with a single request stays at the bottom.
EscalatesOnReoffence ==
    \A t \in Targets : \A r \in ReqIds :
        (\A q \in ReqIds \ {r} : request[q].target # t) => ladder[t].level = 0

-----------------------------------------------------------------------------
(* The inductive invariant behind the safety properties: what a handler in flight
   knows at each statement, and what the rows keep of it afterwards. *)

Audited(r) == \E row \in audit : row.req = r /\ row.user # request[r].requester
SafeTarget(r) ==
    AssertSafe(request[r].target, IF faults = 0 /\ edits = 0 THEN protected ELSE {})
Earned(row) == IF row.known THEN row.level < row.count ELSE row = NoLadder

\* A submitted request has a target and a requester, an unsubmitted one nothing.
RequestInv ==
    \A r \in ReqIds :
        /\ request[r].state = "absent" => request[r] = NoRequest
        /\ request[r].state # "absent" =>
              request[r].target \in Targets /\ request[r].requester \in Users
        /\ request[r].approver # NoUser =>
              /\ request[r].approver # request[r].requester
              /\ request[r].approver \in entitled[r]

\* Whoever may decide now could have decided every request there is.
EntitledInv ==
    \A r \in ReqIds : request[r].state # "absent" => Deciders \subseteq entitled[r]

\* A link is addressed to a user who was fit to approve its request.
TokenInv ==
    \A r \in ReqIds : token[r].state = "valid" =>
        request[r].state # "absent" /\ token[r].approver \in entitled[r]

\* What a handler has established when it reaches each of its statements.
Approved(r) == request[r].state # "absent" /\ request[r].approver # NoUser
JobOK(h) ==
    LET r == job[h].req
        u == job[h].user
        pc == job[h].pc
    IN  /\ pc \in {"ttl", "insert"} => u \in Users /\ job[h].target \in Targets
        /\ pc = "mail" => r \in ReqIds /\ request[r].state # "absent"
        /\ pc = "activate" =>
              r \in ReqIds /\ u \in entitled[r] /\ request[r].state # "absent"
        /\ pc \in {"audit", "guard", "block", "lookup", "dispatch", "ladderRead",
                   "ladderWrite"} => r \in ReqIds /\ u \in Users /\ Approved(r)
        /\ pc \in {"activate", "audit"} => request[r].requester # u
        /\ pc \in {"guard", "lookup", "dispatch"} /\ faults = 0 => Audited(r)
        /\ pc \in {"lookup", "dispatch"} => SafeTarget(r)
        /\ pc = "ladderWrite" => Earned(job[h].row)
JobInv == \A h \in Handlers : JobOK(h)

\* A dispatch is a faithful copy of a request that was approved, audited and safe.
DispatchOK(d) ==
    /\ d.target = request[d.req].target /\ d.ttl = request[d.req].ttl
    /\ Approved(d.req)
    /\ faults = 0 => Audited(d.req)
    /\ SafeTarget(d.req)
DispatchInv == \A i \in DOMAIN dispatch : DispatchOK(dispatch[i])

LadderInv == \A t \in Targets : Earned(ladder[t])

IInv == TypeOK /\ RequestInv /\ EntitledInv /\ TokenInv /\ JobInv /\ DispatchInv /\ LadderInv
=============================================================================
