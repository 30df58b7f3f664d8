----------------------------- MODULE ScopedBan -----------------------------
(***************************************************************************)
(* Bans of a whole country or AS towards one host (internal/web/scoped.go) *)
(* and the quota of kernel map entries they draw on (internal/quota).      *)
(*                                                                         *)
(* A rule's quota is taken when it is submitted, in memory, before its row *)
(* exists; it is given back when the rule is rejected or revoked, resized  *)
(* when the prefix database has changed by the time of its approval, and   *)
(* recomputed from the rows when the process restarts.  Rows and quota are *)
(* two stores that no transaction spans, and handlers run concurrently: a  *)
(* job is a handler in flight and its pc names the statement it runs next. *)
(*                                                                         *)
(* Targets and selectors that do not parse are refused before any state    *)
(* changes and are left out, and so are the penalty ladder and the audit   *)
(* rows, which BanApproval models for the same helper functions.           *)
(***************************************************************************)
EXTENDS Integers, Sequences, FiniteSetsExt

CONSTANTS
    Users, Role,        \* users table; policy.Roles.  Who may decide is looked at only
                        \*   when a request arrives and no property depends on it: a
                        \*   user whose role changes does nothing an admin does not
    Hosts,              \* target addresses, single hosts (parseHostTarget)
    HardProtected,      \* hosts inside safety.New's built-in entries
    Selectors,          \* country and/or AS number
    Versions, NoDB,     \* prefix databases the process may serve; none loaded
    Size,               \* Size[v][s]: prefixes DB.Resolve expands s to in v
    Wide,               \* Wide[v]: selectors above MaxAddressSharePPM in v
    PerRuleMax,         \* quota.PerRuleMaxPrefixes
    HighWater,          \* quota.GlobalHighWater
    Handlers,           \* HTTP handler goroutines
    MaxBans,            \* bound: rows of scoped_bans
    MaxFaults,          \* bound: failing SQL statements
    MaxCrashes,         \* bound: restarts of the process
    MaxSwaps,           \* bound: prefix databases installed while running
    MaxEdits,           \* bound: changes of protected_targets
    NoUser

ASSUME SizeAssumption == Size \in [Versions -> [Selectors -> Nat]]
ASSUME WideAssumption == Wide \in [Versions -> SUBSET Selectors]
ASSUME LimitAssumption == PerRuleMax \in Nat /\ HighWater \in Nat
ASSUME HandlersAssumption == IsFiniteSet(Handlers)
ASSUME NoneAssumption == NoDB \notin Versions /\ NoUser \notin Users
ASSUME BoundAssumption ==
    {MaxBans, MaxFaults, MaxCrashes, MaxSwaps, MaxEdits} \subseteq Nat

VARIABLES
    ban,        \* scoped_bans, in the order of their primary keys
    dispatch,   \* dispatches of scoped bans: the rule and the prefixes it carries
    tracker,    \* quota.Tracker: prefixes and rules accounted for
    pdb,        \* prefixdb.Global()
    protected,  \* active rows of protected_targets
    job,        \* handlers in flight, lost in a crash
    faults, crashes, swaps, edits,  \* how much of the bounds is used up
    astray      \* history: a rule was decided by two handlers at once, a handler
                \*   went on after a statement that changed nothing, the process
                \*   died while a rule was being resized, or it came back without
                \*   the quota of the live rules

vars == <<ban, dispatch, tracker, pdb, protected, job, faults, crashes, swaps,
          edits, astray>>

-----------------------------------------------------------------------------
States == {"pending", "active", "rejected", "revoked", "safety_blocked"}
Row == [host: Hosts, sel: Selectors, count: Nat, state: States,
        requester: Users, approver: Users \cup {NoUser}]
Dispatch == [ban: 1..MaxBans, count: Nat]
Tracker == [prefixes: Nat, rules: Nat]

PCs == {"idle", "reserve", "insert", "release", "activate", "resolve", "return",
        "take", "restore", "resize", "guard", "block", "lookup", "dispatch",
        "reject", "revoke", "giveback"}

\* A handler's locals.  row is the rule as the handler last knew it (draft, while
\* it has no primary key: id = 0); count is the size its own Resolve returned.
NoJob == [pc |-> "idle"]
Job == {NoJob} \cup
       [pc: PCs \ {"idle"}, id: 0..MaxBans, row: Row, count: Nat]

TypeOK ==
    /\ ban \in Seq(Row) /\ Len(ban) <= MaxBans
    /\ dispatch \in SUBSET Dispatch
    /\ tracker \in Tracker
    /\ pdb \in Versions \cup {NoDB}
    /\ protected \in SUBSET Hosts
    /\ job \in [Handlers -> Job]
    /\ faults \in 0..MaxFaults /\ crashes \in 0..MaxCrashes
    /\ swaps \in 0..MaxSwaps /\ edits \in 0..MaxEdits
    /\ astray \in BOOLEAN

Init ==
    /\ ban = <<>> /\ dispatch = {}
    /\ tracker = [prefixes |-> 0, rules |-> 0]
    /\ pdb \in Versions \cup {NoDB}
    /\ protected = {}
    /\ job = [h \in Handlers |-> NoJob]
    /\ faults = 0 /\ crashes = 0 /\ swaps = 0 /\ edits = 0
    /\ astray = FALSE

-----------------------------------------------------------------------------
(* Rules and counters the handlers consult *)

MayCreate(u) == Role[u] \in {"admin", "operator"}
MayDecide(u) == Role[u] \in {"admin", "approver"}

\* safety.Guard over single hosts.
AssertSafe(host, entries) == host \notin HardProtected \cup entries

RulesWith(states) == {i \in DOMAIN ban : ban[i].state \in states}
Total(ids) == SumFunctionOnSet([i \in DOMAIN ban |-> ban[i].count], ids)

\* Mutant: one entry too many.
ReserveLoose(n, t) ==
    /\ tracker.prefixes + n <= HighWater + 1
    /\ t = [prefixes |-> tracker.prefixes + n, rules |-> tracker.rules + 1]

\* quota.Tracker: each is one critical section under the tracker's lock.
Free == Max({0, HighWater - tracker.prefixes})
Reserve(n, t) ==
    /\ tracker.prefixes + n <= HighWater
    /\ t = [prefixes |-> tracker.prefixes + n, rules |-> tracker.rules + 1]
Refuses(n) == tracker.prefixes + n > HighWater

\* Mutant: not cut off at zero.
ReleaseUnclamped(n) ==
    [prefixes |-> tracker.prefixes - n, rules |-> tracker.rules - 1]

Release(n) ==
    [prefixes |-> Max({0, tracker.prefixes - n}), rules |-> Max({0, tracker.rules - 1})]

\* quota.Check: hard limits, then the wide selectors that need a confirmation.
Check(s, ack) ==
    LET n == Size[pdb][s] IN
    /\ n > 0 /\ n <= PerRuleMax /\ n <= Free
    /\ s \in Wide[pdb] => ack

Goto(h, pc) == job' = [job EXCEPT ![h].pc = pc]
Finish(h) == job' = [job EXCEPT ![h] = NoJob]

\* A statement fails: the handler sees an error and nothing is written.
Fault ==
    /\ faults < MaxFaults
    /\ faults' = faults + 1

\* Another handler is between its look at rule r and its last write to r or to
\* the rule's quota.
Deciding(r) ==
    \E g \in Handlers : job[g].pc \in {"activate", "resolve", "return", "take", "restore",
                                       "resize", "reject", "revoke"}
                        /\ job[g].id = r

-----------------------------------------------------------------------------
(* scopedBanCreate *)

\* What guard() tests by: when protected_targets cannot be read, the built-in entries.
ReadProtected(entries) ==
    \/ entries = protected /\ UNCHANGED faults
    \/ entries = {} /\ protected # {} /\ Fault

ScopedBanCreate(h, u, host, s, ack) ==
    /\ job[h] = NoJob /\ MayCreate(u)
    /\ Len(ban) < MaxBans
    /\ pdb # NoDB
    /\ \E entries \in {protected, {}} : ReadProtected(entries) /\ AssertSafe(host, entries)
    /\ Check(s, ack)
    /\ job' = [job EXCEPT ![h] =
           [pc |-> "reserve", id |-> 0, count |-> Size[pdb][s],
            row |-> [host |-> host, sel |-> s, count |-> Size[pdb][s],
                     state |-> "pending", requester |-> u, approver |-> NoUser]]]
    /\ UNCHANGED <<ban, dispatch, tracker, pdb, protected, crashes, swaps, edits, astray>>

\* The tracker may have filled up since the check.
CreateReserve(h) ==
    /\ job[h].pc = "reserve"
    /\ \/ Reserve(job[h].count, tracker') /\ Goto(h, "insert")
       \/ Refuses(job[h].count) /\ Finish(h) /\ UNCHANGED tracker
    /\ UNCHANGED <<ban, dispatch, pdb, protected, faults, crashes, swaps, edits, astray>>

CreateInsert(h) ==
    /\ job[h].pc = "insert"
    /\ \/ /\ Len(ban) < MaxBans
          /\ ban' = Append(ban, job[h].row)
          /\ Finish(h)
          /\ UNCHANGED faults
       \/ Fault /\ Goto(h, "release") /\ UNCHANGED ban
    /\ UNCHANGED <<dispatch, tracker, pdb, protected, crashes, swaps, edits, astray>>

CreateRelease(h) ==
    /\ job[h].pc = "release"
    /\ tracker' = Release(job[h].count)
    /\ Finish(h)
    /\ UNCHANGED <<ban, dispatch, pdb, protected, faults, crashes, swaps, edits, astray>>

-----------------------------------------------------------------------------
(* scopedBanApprove, scopedBanReject, scopedBanRevoke *)

\* The approver it will write is kept in the job's copy of the row.
Decide(h, u, r, state, pc, approver) ==
    /\ job[h] = NoJob /\ MayDecide(u)
    /\ r \in DOMAIN ban /\ ban[r].state = state
    /\ job' = [job EXCEPT ![h] =
           [pc |-> pc, id |-> r, row |-> [ban[r] EXCEPT !.approver = approver], count |-> 0]]
    /\ astray' = (astray \/ Deciding(r))
    /\ UNCHANGED <<ban, dispatch, tracker, pdb, protected, faults, crashes, swaps, edits>>

\* Mutant: no four-eyes test.
ScopedBanApproveOwn(h, u, r) == Decide(h, u, r, "pending", "activate", u)

ScopedBanApprove(h, u, r) ==
    /\ r \in DOMAIN ban /\ ban[r].requester # u
    /\ Decide(h, u, r, "pending", "activate", u)
ScopedBanReject(h, u, r) == Decide(h, u, r, "pending", "reject", NoUser)
ScopedBanRevoke(h, u, r) == Decide(h, u, r, "active", "revoke", NoUser)

\* The UPDATE tests the primary key only, not the state that was read.
ApproveUpdate(h) ==
    /\ job[h].pc = "activate"
    /\ \/ /\ ban' = [ban EXCEPT ![job[h].id].state = "active",
                                ![job[h].id].approver = job[h].row.approver]
          /\ Goto(h, "resolve")
          /\ UNCHANGED faults
       \/ Fault /\ Finish(h) /\ UNCHANGED ban
    /\ UNCHANGED <<dispatch, tracker, pdb, protected, crashes, swaps, edits, astray>>

\* Without a database the handler stops here, and the rule stays active.
ApproveResolve(h) ==
    /\ job[h].pc = "resolve"
    /\ \/ pdb = NoDB /\ Finish(h)
       \/ /\ pdb # NoDB
          /\ LET n == Size[pdb][job[h].row.sel] IN
             job' = [job EXCEPT ![h].count = n,
                                ![h].pc = IF n = job[h].row.count THEN "guard" ELSE "return"]
    /\ UNCHANGED <<ban, dispatch, tracker, pdb, protected, faults, crashes, swaps,
                   edits, astray>>

\* The database has changed: the old size is given back, then the new one taken.
DriftReturn(h) ==
    /\ job[h].pc = "return"
    /\ tracker' = Release(job[h].row.count)
    /\ Goto(h, "take")
    /\ UNCHANGED <<ban, dispatch, pdb, protected, faults, crashes, swaps, edits, astray>>

DriftTake(h) ==
    /\ job[h].pc = "take"
    /\ \/ Reserve(job[h].count, tracker') /\ Goto(h, "resize")
       \/ Refuses(job[h].count) /\ Goto(h, "restore") /\ UNCHANGED tracker
    /\ UNCHANGED <<ban, dispatch, pdb, protected, faults, crashes, swaps, edits, astray>>

\* The old size is taken again; if others were faster, the refusal is ignored.
DriftRestore(h) ==
    /\ job[h].pc = "restore"
    /\ \/ Reserve(job[h].row.count, tracker') /\ UNCHANGED astray
       \/ Refuses(job[h].row.count) /\ astray' = TRUE /\ UNCHANGED tracker
    /\ Finish(h)
    /\ UNCHANGED <<ban, dispatch, pdb, protected, faults, crashes, swaps, edits>>

DriftResize(h) ==
    /\ job[h].pc = "resize"
    /\ \/ /\ ban' = [ban EXCEPT ![job[h].id].count = job[h].count]
          /\ UNCHANGED <<faults, astray>>
       \/ Fault /\ astray' = TRUE /\ UNCHANGED ban
    /\ Goto(h, "guard")
    /\ UNCHANGED <<dispatch, tracker, pdb, protected, crashes, swaps, edits>>

\* The veto of CreateScopedDispatch, by a set read afresh.
SafetyCheck(h) ==
    /\ job[h].pc = "guard"
    /\ \E entries \in {protected, {}} :
          /\ ReadProtected(entries)
          /\ Goto(h, IF AssertSafe(job[h].row.host, entries) THEN "lookup" ELSE "block")
    /\ UNCHANGED <<ban, dispatch, tracker, pdb, protected, crashes, swaps, edits, astray>>

\* Mutant: the veto leaves the rule active.
SafetyBlockSilent(h) ==
    /\ job[h].pc = "block"
    /\ Finish(h)
    /\ UNCHANGED <<ban, dispatch, tracker, pdb, protected, faults, crashes, swaps,
                   edits, astray>>

\* The rule's quota is not given back; a restart, which counts pending and active
\* rules only, does it.
SafetyBlock(h) ==
    /\ job[h].pc = "block"
    /\ \/ /\ ban' = [ban EXCEPT ![job[h].id].state = "safety_blocked"]
          /\ UNCHANGED faults
       \/ Fault /\ UNCHANGED ban
    /\ Finish(h)
    /\ UNCHANGED <<dispatch, tracker, pdb, protected, crashes, swaps, edits, astray>>

\* A query that fails is taken for a query that finds nothing.
DispatchLookup(h) ==
    /\ job[h].pc = "lookup"
    /\ LET found == \E d \in dispatch : d.ban = job[h].id IN
       \/ found /\ Finish(h) /\ UNCHANGED faults
       \/ ~found /\ Goto(h, "dispatch") /\ UNCHANGED faults
       \/ found /\ Fault /\ Goto(h, "dispatch")
    /\ UNCHANGED <<ban, dispatch, tracker, pdb, protected, crashes, swaps, edits, astray>>

\* Mutant: an order for the prefixes of the submission.
CreateScopedDispatchStale(h) ==
    /\ job[h].pc = "dispatch"
    /\ \/ /\ dispatch' = dispatch \cup {[ban |-> job[h].id, count |-> job[h].row.count]}
          /\ UNCHANGED faults
       \/ Fault /\ UNCHANGED dispatch
    /\ Finish(h)
    /\ UNCHANGED <<ban, tracker, pdb, protected, crashes, swaps, edits, astray>>

CreateScopedDispatch(h) ==
    /\ job[h].pc = "dispatch"
    /\ \/ /\ dispatch' = dispatch \cup {[ban |-> job[h].id, count |-> job[h].count]}
          /\ UNCHANGED faults
       \/ Fault /\ UNCHANGED dispatch
    /\ Finish(h)
    /\ UNCHANGED <<ban, tracker, pdb, protected, crashes, swaps, edits, astray>>

\* Neither handler looks at the result of its UPDATE.
Close(h, pc, state) ==
    /\ job[h].pc = pc
    /\ \/ /\ ban' = [ban EXCEPT ![job[h].id].state = state]
          /\ UNCHANGED <<faults, astray>>
       \/ Fault /\ astray' = TRUE /\ UNCHANGED ban
    /\ Goto(h, "giveback")
    /\ UNCHANGED <<dispatch, tracker, pdb, protected, crashes, swaps, edits>>
RejectUpdate(h) == Close(h, "reject", "rejected")
RevokeUpdate(h) == Close(h, "revoke", "revoked")

GiveBack(h) ==
    /\ job[h].pc = "giveback"
    /\ tracker' = Release(job[h].row.count)
    /\ Finish(h)
    /\ UNCHANGED <<ban, dispatch, pdb, protected, faults, crashes, swaps, edits, astray>>

-----------------------------------------------------------------------------
(* The rest of the process *)

\* A synchronisation, an upload or an edit of the overrides ends in SetGlobal.
SetGlobal(v) ==
    /\ swaps < MaxSwaps /\ swaps' = swaps + 1
    /\ pdb' = v
    /\ UNCHANGED <<ban, dispatch, tracker, protected, job, faults, crashes, edits, astray>>

EditProtected(host) ==
    /\ edits < MaxEdits /\ edits' = edits + 1
    /\ protected' = IF host \in protected THEN protected \ {host} ELSE protected \cup {host}
    /\ UNCHANGED <<ban, dispatch, tracker, pdb, job, faults, crashes, swaps, astray>>

\* Mutant: pending rules are forgotten.
RestoreQuotaActive ==
    [prefixes |-> Total(RulesWith({"active"})),
     rules |-> Cardinality(RulesWith({"active"}))]

RestoreQuota ==
    [prefixes |-> Total(RulesWith({"pending", "active"})),
     rules |-> Cardinality(RulesWith({"pending", "active"}))]
NoQuota == [prefixes |-> 0, rules |-> 0]

\* The process dies and starts again, with whatever prefix database it then finds.  The
\* error of the query that adds the live rules up is ignored: the tracker then starts
\* from nothing, however many there are.  (Such a query does not count as a fault.)
Restart(v) ==
    /\ crashes < MaxCrashes /\ crashes' = crashes + 1
    /\ job' = [h \in Handlers |-> NoJob]
    /\ tracker' \in {RestoreQuota, NoQuota}
    /\ pdb' = v
    /\ astray' = \/ astray
                 \/ \E h \in Handlers : job[h].pc \in {"take", "restore", "resize"}
                 \/ tracker' # RestoreQuota
    /\ UNCHANGED <<ban, dispatch, protected, faults, swaps, edits>>

Step(h) ==
    \/ CreateReserve(h) \/ CreateInsert(h) \/ CreateRelease(h)
    \/ ApproveUpdate(h) \/ ApproveResolve(h)
    \/ DriftReturn(h) \/ DriftTake(h) \/ DriftRestore(h) \/ DriftResize(h)
    \/ SafetyCheck(h) \/ SafetyBlock(h) \/ DispatchLookup(h) \/ CreateScopedDispatch(h)
    \/ RejectUpdate(h) \/ RevokeUpdate(h) \/ GiveBack(h)

Arrive(h, u) ==
    \/ \E host \in Hosts, s \in Selectors, ack \in BOOLEAN : ScopedBanCreate(h, u, host, s, ack)
    \/ \E r \in 1..MaxBans :
          ScopedBanApprove(h, u, r) \/ ScopedBanReject(h, u, r) \/ ScopedBanRevoke(h, u, r)

Next ==
    \/ \E h \in Handlers : Step(h) \/ \E u \in Users : Arrive(h, u)
    \/ \E v \in Versions : SetGlobal(v)
    \/ \E host \in Hosts : EditProtected(host)
    \/ \E v \in Versions \cup {NoDB} : Restart(v)

Spec == Init /\ [][Next]_vars

-----------------------------------------------------------------------------
(* Properties *)

\* Quota a handler holds for rules no live row shows yet, or no longer shows; it is
\* negative while a handler owes the tracker what a live row still shows.
Held(h) ==
    CASE job[h].pc \in {"insert", "release"} -> job[h].count
      [] job[h].pc = "giveback" -> job[h].row.count
      [] job[h].pc = "resize" -> job[h].count - job[h].row.count
      [] job[h].pc \in {"take", "restore"} -> -job[h].row.count
      [] OTHER -> 0
InHand == SumFunction([h \in Handlers |-> Held(h)])

Committed == Total(RulesWith({"pending", "active"}))
AtRest == \A h \in Handlers : job[h] = NoJob

\* As long as no rule was decided by two handlers at once, no refused restoration
\* was ignored, no ignored UPDATE failed, no restart cut a resizing short and none
\* came back without the quota of the live rules (restoreQuota ignores a failed query),
\* the tracker accounts for the live rules and for what the handlers hold, no less, and
\* exceeds that by no more than the rules the guard blocked: across failures of the
\* other statements, changes of the prefix database and restarts whose query succeeds.
Ledger ==
    ~astray => /\ Committed + InHand <= tracker.prefixes
               /\ tracker.prefixes <= Committed + InHand + Total(RulesWith({"safety_blocked"}))

\* Under the same condition the live rules, counted at the size they are about to
\* have, fit under the high-water mark, whatever requests were submitted together,
\* rejected, blocked or resized, and recomputed by a restart.
LiveRulesFit == ~astray => Committed + InHand <= HighWater

\* Under the same condition an order carries as many prefixes as its row is charged
\* for, also when the prefix database changed between submission and approval.
OrderIsCharged == ~astray => \A d \in dispatch : d.count = ban[d.ban].count

\* While nothing fails and the prefix database stays the same, handlers that race
\* leave no active rule without its order: approvals, rejections, revocations and
\* changes of the protected set may overlap in any way.
ActiveIsOrdered ==
    AtRest /\ faults = 0 /\ crashes = 0 /\ swaps = 0 =>
        \A i \in RulesWith({"active"}) : \E d \in dispatch : d.ban = i

\* Four eyes, and no order without an approval, as for single-target bans.
Governed == INSTANCE GovernedBan WITH
    ReqIds <- 1..MaxBans,
    requester <- [i \in 1..MaxBans |-> IF i \in DOMAIN ban THEN ban[i].requester ELSE NoUser],
    approver <- [i \in 1..MaxBans |-> IF i \in DOMAIN ban THEN ban[i].approver ELSE NoUser],
    ordered <- {d.ban : d \in dispatch}
RefinesGovernedBan == Governed!Spec

\* What the tracker's comment and its documentation claim of submissions that come
\* together: all the rules that are pending or active fit under the high-water mark.
CommittedFits == Committed <= HighWater
=============================================================================
