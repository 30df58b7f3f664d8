# xdp-ban in TLA+

xdp-ban bans IPv4 sources at the network card. People submit bans in a web UI,
other people approve them, and an executor in the same process writes what was
approved into eBPF maps that an XDP program consults for every packet. This
directory holds TLA+ models of that program, TLC configurations that check them on
small instances, and TLAPS proofs for all instances.

Paths below are relative to `src/`.

## Inventory

| Part | State | Operations | Hard behaviour | What makes it correct |
|---|---|---|---|---|
| Ban approval: `internal/web/handlers.go`, `services.go`, `internal/approval` | `ban_requests`, `approval_tokens`, `audit_logs` | `banCreate`, `banApprove`, `banReject`, `approveDo` | one goroutine per HTTP request, every SQL statement its own transaction, statements that fail, restarts | four eyes, a trace for every dispatch, decisions that stick, approvals that are carried out |
| Dispatch creation: `internal/dispatch` | `dispatches` | `CreateDispatch`, `CreateScopedDispatch`, `MarkAcked`, `MarkFailed` | check-then-insert without a unique index | no dispatch without approval, none for a protected address, one per ban |
| Penalty ladder: `internal/escalation`, `services.go` | `ban_ladders` | `nextTTL`, `RegisterBan`, `recordLadder`, (`MaybeDecay`, never called) | read-compute-write, a TTL priced long before it is used | levels are earned by recorded bans |
| Safety guard: `internal/safety` | built-in set, `protected_targets` | `New`, `Add`, `AssertSafe` | set edited meanwhile, failed reads | nothing overlapping the set is dispatched |
| Permissions: `internal/policy` | none | `Allow` | none | |
| Users and sessions: `internal/web/users.go`, `session.go` | `users`, session table | login, create, role, toggle, delete, password | check-then-act on the last admin, a login racing a password change | an enabled admin remains, a revoked session stays revoked |
| Executor: `cmd/xdpban/exec_loop.go`, `executor.go` | eBPF maps | poll, `Apply`, `applyScoped`, mark acked or failed | partial application, restart with empty maps, API writing the same rows | an acked ban is in force until its deadline |
| Dispatch API: `internal/web/api.go` | `dispatches` | list, ack, fail | ack and fail in any state, racing the loop | an acked order is in force, whoever marks its row meanwhile |
| XDP filter: `bpf/xdp_filter.c`, `internal/banmap` | the maps | `xdp_filter`, key and deadline encoding | longest-prefix match over entries that expire but are never deleted | a live entry that covers the packet drops it |
| Scoped bans and quota: `internal/web/scoped.go`, `internal/quota` | `scoped_bans`, in-memory counters | create, approve, reject, revoke; `Reserve`, `Release`, `SetBaseline`, `Check` | memory and table updated separately, races on the state, revocation without a dispatch | counters equal the live rows and never pass the limits |
| Prefix database: `internal/prefixdb`, `internal/web/prefixdb.go` | files, the loaded database | `Load`, `Resolve`, `SyncFrom`, `ImportUpload`, `Reload`, overrides | concurrent syncs, failures between file and memory, range arithmetic at the ends of the address space | a range and its CIDRs hold the same addresses, what is served is what the files say, a sync ends |
| Sampler: `bpf/xdp_sampler.c`, `cmd/xdp-sampler`, `internal/web/samples.go` | ring buffer, channel, sums, report store | sample, drain, export, post, `Put`, `TopFlows` | lost and late reports, full buffers, abandoned NetFlow batches | a packet is counted once, gaps in the NetFlow sequence tell what is missing |
| Reports, templates, profiling, scripts | none | | | |

How they interact. The handlers, the API and the executor loop are goroutines of one
process and share the SQLite database. A handler that approves a ban calls the guard,
`CreateDispatch` and `recordLadder` in turn; the executor finds new dispatches by polling
`state = 'pending'`. SQLite runs in WAL mode behind a pool of connections, and
`model.Open` sets `SkipDefaultTransaction`: a statement is atomic, two in a row are not.
Only `approveDo` opens a transaction.

The other parts meet in four places. A submitted scoped rule expands through the installed prefix
database, and an approved one becomes a dispatch like any other. The executor writes the maps that
the XDP program reads. A session is looked up by every handler, and its user row with it. Sampler
and xdp-ban are two processes joined by HTTP posts.

## Modules

| Module | Models | Status |
|---|---|---|
| `GovernedBan` | abstract: who submitted, who approved, what was ordered | refined by `BanApproval` and `ScopedBan` (both proved) |
| `BanApproval` | single-target bans from the form to the dispatch row | checked and proved |
| `ScopedBan` | scoped rules, their quota, their dispatch rows | checked and proved |
| `Executor` | from the dispatch row to the dropped packet: loop, maps, ack API, XDP verdict | checked and proved |
| `UserAdmin` | users, sessions, their administration | checked and proved |
| `PrefixRanges` | pure: normalising, overrides, selectors to CIDR blocks | checked through `PrefixSync`, and proved |
| `PrefixSync` | files, reloads and the installed prefix database | checked and proved |
| `Sampler` | from the sampled packet to the dashboard and the NetFlow collector | checked and proved |
| `MC...` | values of the constants for TLC | |
| `BanApproval_proofs`, `UserAdmin_proofs`, `Executor_proofs`, `ScopedBan_proofs`, `PrefixRanges_proofs`, `PrefixSync_proofs`, `Sampler_proofs` | proofs about the module they are named after | proved |
| `Sums` | lemmas: sums over finite sets, sorting, folds over sequences | proved |

`Executor` composes three parts, the loop, the API and the filter, because its main property spans
them: a packet of an acked order is dropped. It starts from rows as `BanApproval` and `ScopedBan`
leave them (`CreateDispatch(o)` for any order `o`), so the two ends share the row and no more.

Every safety and action property of a run that is to pass has a theorem; what remains is liveness, see
"What the proofs leave to TLC" below.

## BanApproval

### Correspondence

| Model | Code |
|---|---|
| `request`, `token`, `dispatch`, `ladder`, `audit`, `protected`, `user` | rows of the tables in `internal/model/model.go` |
| `job[h]` | an HTTP handler in flight: `pc` is its next SQL statement, the other fields its local variables |
| `BanCreate` ... `GenTokensAndSend` | `banCreate`: pre-check, `nextTTL`, INSERT, token |
| `BanApprove`, `BanApproveUpdate` | `banApprove`: the read and its checks, then the UPDATE that does not repeat them |
| `BanReject` | `banReject` |
| `Redeem`, `ApproveDoApprove`, `ApproveDoReject` | the transaction of `approveDo` |
| `AuditApproval`, `SafetyCheck`, `SafetyBlock`, `DispatchLookup`, `DispatchInsert`, `LadderRead`, `LadderWrite` | what both approval paths do next, up to the end of `recordLadder` |
| `TokenExpires`, `ObserveWindowEnds` | the clock |
| `UserToggleActive`, `UserChangeRole` | `POST /users/:id/toggle` and `/role`, in one step each: disabled, enabled, promoted or demoted at any moment, the last administrator excepted |
| `entitled[r]` | no variable of the code: who could decide `r` at some moment since its submission |
| `EditProtected` | SQL by the operators: nothing in the program writes `protected_targets` after seeding |
| `Crash` | the process dies and restarts; the tables stay, the handlers are gone |

A failing statement (`Fails`) takes the branch the code takes: many errors are ignored,
`guard()` continues with the built-in entries, `CreateDispatch` takes any error of its lookup
for "not found", `recordLadder` writes nothing.

Abstractions. A target is a model value with the set of addresses it parses to
(`Cover`, empty when `toPrefix` fails), so overlap of prefixes is intersection of sets. TTLs are
ladder indices. Timestamps are left out, except that a token may expire and an observation
window may end at any moment. Only audit rows of approvals are kept. The
statements of a role change are a matter of `UserAdmin`; here it is one step that may come between any
two of an approval. A dispatch keeps its state `pending`: the executor is
not part of this module. Adjacent reads of unrelated rows at the start of a handler are one
step. There is no model of a second reader of `ban_requests`: lists and detail pages change
nothing.

### Properties

- `FourEyes`: an approver on record is not the requester and was entitled to decide at some moment
  of the request's life; every dispatch's request has one. More is not true: neither the link nor the
  UPDATE of `banApprove` looks at the role again, so a link in the mail and a handler that has passed
  the capability check stay good after their user has been demoted or disabled.
- `DispatchIsAudited`: while no statement fails, every dispatch is traced by an audit row
  naming somebody other than the requester.
- `NoUnsafeDispatch`: address by address, no dispatch touches the built-in set, and none
  the seeded set while reads succeed and nobody edits it. Stated on addresses, independently of the
  `AssertSafe` the handlers call.
- `VetoHolds`: the set at approval decides, not the one at submission.
- `ActiveIsBacked`: without crashes and failures, an active request has a dispatch or a handler on
  its way to one.
- `RejectionSticks`: a rejected request that no approver is in the middle of overruling stays
  rejected and gets no further dispatch. The condition is needed: an approver who has read
  "pending" before the rejection still activates the request.
- `LadderEarned`: a level is below the number of recorded bans, so lost updates may slow the
  ladder but not speed it up.
- `RefinesGovernedBan`: with handlers, statements and failures hidden, the module implements
  `GovernedBan`: one requester for ever, approvals only by others, orders only after approval and
  never withdrawn.
- `ApprovalExecuted`: an approved request is dispatched or blocked by the guard.

### Runs

| Run | Instance | Shows |
|---|---|---|
| `Approval_failures` | 3 users, 3 targets, 1 request, 2 handlers, 1 failure, 1 crash | type and safety properties under races, a failed statement and a restart |
| `Approval_edits` | 2 users, 5 targets, 1 request, 2 handlers, 2 edits, fair | four eyes while users lose and gain roles, the veto while the protected set moves; every approval is carried out |
| `Approval_two` | 2 users, 3 targets, 2 requests, 2 handlers | the ladder across requests, finality of rejections, refinement |
| `Approval_idempotent` | 1 request | violated: two dispatches for one request |
| `Approval_failopen` | 1 request, 1 handler, 2 failures | violated: a protected address dispatched |
| `Approval_escalates` | 1 request | violated: the ladder climbs on a single offence |

Bounds. Every race in these handlers is between two decisions on one request, or two
recordings for one target, so two handlers and at most two requests meet them all; each handler
runs its whole course, and rejections and link clicks add steps beyond the two handlers. One
failure suffices for every property that tolerates failures, because after the first the stronger
half of the property is given up and the rest does not depend on the count (the proofs confirm
this for every count); `Approval_failopen` needs two. Users: an admin who may both
submit and approve, an approver, an operator. Targets: a host, a network holding the host and the
protected gateway, the gateway, loopback, and a string that does not parse. An edit of `Approval_edits` is one of the
protected set, a toggle, or a new role out of `NewRoles`: two of them demote an approver and restore
another, or move the set in between. `MaxLevel = 2` lets
the ladder rise, reach the top and be capped. Requests and handlers are symmetric; the run
with a liveness property uses no symmetry. The system may stop once no request is left to create and no bound to
spend, so deadlock is not checked.

Fairness. `FairSpec` asks weak fairness of `Step(h)` only: a goroutine that has started runs its next
statement eventually, which the Go scheduler gives and SQLite's busy timeout turns into success or
error. `Step(h)` stays enabled until taken in every statement of an approval. Nobody is obliged to
submit or decide, and `Approval_edits` allows no crashes or failures, without which the property does not
hold: nothing in the code resumes an approval that was cut short.

### Divergences found

1. `CreateDispatch` is not idempotent under concurrency (`Approval_idempotent`), against
   `internal/dispatch/service_test.go:83`.
2. The guard fails open when the protected set cannot be read (`Approval_failopen`), against
   `internal/web/handlers.go:280`.
3. Two approvals of one request count as a repeat offence (`Approval_escalates`), against
   `internal/web/services.go:103`.

### Proofs

For every value of the constants that meets the module's assumptions, `BanApproval_proofs` proves that
`TypeOK`, `FourEyes`, `DispatchIsAudited`, `NoUnsafeDispatch`, `LadderEarned` and `ActiveIsBacked` hold in every
reachable state, that every step obeys `RejectionSticks` and `VetoHolds`, and that `BanApproval` implements
`GovernedBan`.

None of the invariants is inductive. `IInv` (end of `BanApproval`) adds what a handler in flight knows at each
statement (`JobInv`): who acts, that the request exists and is not its own, that it has been
approved, that the audit row is there, that the target has been found safe; and what rows keep of
it: `RequestInv`, `EntitledInv`, `TokenInv`, `DispatchInv`, `LadderInv`. `EntitledInv` says that whoever may
decide now has been entitled for every request there is, which is what carries an addressee or a handler's
user over a demotion. The argument has two halves. `Evolves` says what no
step ever undoes (a submitted request keeps its target, requester and TTL, an approver is never
cleared, audit rows are never lost, an edit or a failure is remembered); from it the lemmas
`OtherJobs` and `OldDispatches` show that the knowledge of handlers not taking the step, and the
justification of earlier dispatches, survive. `Compose` and `ComposeRows` put this together, so the lemma of each
action has only to show the acting handler's new knowledge and the rows it wrote.

The refinement maps requesters, approvers and the set of dispatched requests. A step that changes
none of them stutters (`Unseen`); the three that do are matched in `InsertSubmits`,
`UpdateApproves` and `DispatchOrders`. The step properties rest on three facts about any step:
where a handler can have come from (`NextMoves`), how and by whom a request's state changes (`NextStates`),
and which handler a new dispatch is due to (`NextDispatches`). `ActiveIsBacked` is inductive relative to
`IInv`; `Forward` shows that the handler of an approval gets one statement further or is done.

`RoleAssumption`, `CoverAssumption`, `BoundAssumption` and `NoneAssumption` are the assumptions; TLC evaluates
them in every run.

Only model-checked: `ApprovalExecuted`, which as a liveness property under fairness is beyond the prover.

## ScopedBan

A scoped rule bans a country, an AS, or both, towards one host. It expands to prefixes, and every
prefix is an entry of a kernel map of bounded size: hence the quota.

### Correspondence

| Model | Code |
|---|---|
| `ban`, `dispatch`, `protected` | tables `scoped_bans`, `dispatches` (the scoped ones), `protected_targets` |
| `tracker` | `quota.Tracker`: the prefixes and rules accounted for |
| `pdb`, `Size`, `Wide` | `prefixdb.Global()`; how many prefixes a selector resolves to, and whether that needs a confirmation |
| `ScopedBanCreate`, `CreateReserve`, `CreateInsert`, `CreateRelease` | `scopedBanCreate`: its checks, then `Reserve`, INSERT, and `Release` if the INSERT failed |
| `ScopedBanApprove`, `ApproveUpdate`, `ApproveResolve` | `scopedBanApprove`, up to the second `Resolve` |
| `DriftReturn`, `DriftTake`, `DriftRestore`, `DriftResize` | its branch for a rule whose size has changed since it was submitted |
| `SafetyCheck`, `SafetyBlock`, `DispatchLookup`, `CreateScopedDispatch` | its guard and `dispatch.CreateScopedDispatch` |
| `ScopedBanReject`, `ScopedBanRevoke`, `RejectUpdate`, `RevokeUpdate`, `GiveBack` | `scopedBanReject`, `scopedBanRevoke` |
| `Restart`, `RestoreQuota`, `NoQuota` | the process dies; `restoreQuota` recomputes the tracker from the rows, or sets it to nothing when its query fails, for it looks at no error |
| `ReadProtected` | the read of the protected set in `guard()`, at submission and at approval: when it fails, the set is empty |
| `SetGlobal`, `EditProtected` | a prefix database installed by another handler; SQL by the operators |

Rows and tracker are two stores that nothing updates together. `InHand` is what the handlers
in flight owe the one or the other, and turns the accounting into an equation.

Left out: the ladder and the audit rows (the same helpers as in `BanApproval`), expiry (an expired
rule keeps its row and its quota, `ENGINEERING.md:287` names it as a gap), and what a revocation
leaves behind: it closes the row and gives the quota back, while the rule's dispatch and its kernel entries stay
until their deadline. A rule that grows on approval is held to the high-water mark but not to the per-rule
limit or the confirmation of wide selectors; the model does as the code does and no property
claims otherwise.

### Properties

- `Ledger`: the tracker accounts for the live rules and for what handlers hold, no less, and no more
  than the rules the guard blocked on top, whose quota is kept until a restart.
- `LiveRulesFit`: the live rules at the size they are about to have fit under the high-water mark.
- `OrderIsCharged`: an order carries as many prefixes as its row is charged for.
- `ActiveIsOrdered`: with nothing failing and the database unchanged, no race of handlers leaves an
  active rule without its order. A missing database does: the rule is active before it is resolved.
- `RefinesGovernedBan`: four eyes and no order without approval.

The first three hold while `astray` is false. The ghost is set where the code gives the
accounting up: two handlers decide one rule at once (the UPDATEs test the key only), an
ignored UPDATE fails, the refused restoration of a resized rule is ignored, the process dies
in the middle of resizing, or it restarts and the query of `restoreQuota` fails, so that the
tracker is empty while there are live rules. After the last the live rules can pass the
mark by all that was forgotten, and nothing is claimed of them. Everything else, failures of other
statements and restarts whose query succeeds included, must keep the books right. The users of this
module keep their roles: what a change of role does to a decision in flight is in `BanApproval`, whose handlers check
and decide in the same way.

### Proof

`ScopedBan_proofs`: `TypeOK`, `Ledger`, `LiveRulesFit`, `OrderIsCharged`, `ActiveIsOrdered`, and that the
module implements `GovernedBan`.

`Ledger` is an equation between the tracker and sums over the rows and the handlers in flight, and no step
keeps it without knowing who else is at work. `IInv` therefore says, besides the equation
(`LedgerInv`): that a draft has no row yet (`IdInv`); that while `astray` is false one handler at most decides
about a rule and knows its size (`DecideInv`), and that the size is settled once an order is on its way
(`OrderInv`). The blocked rules whose quota was not returned are a set `X` that the invariant asserts to
exist: a blocking adds to it, a revocation takes from it, a restart empties it. In calm conditions (nothing failed,
no new database) sizes are those of the database (`SizeInv`), which rules the branch for resized rules out, and
every active rule has its order or a handler on the way (`OrderedInv`). `GovernInv` carries the approver for the
refinement.

Each action has a lemma that states its effect field by field (`...Step`), and each part of the
invariant one that goes through these effects (`...Kept`). The sums change by the amounts of the one row and
the one handler that a step touches: `SumOnSetUpdate` and its relatives in `Sums`, which hold for
finite sets (`HandlersAssumption`: finitely many handlers are in flight).

## Executor

### Correspondence

| Model | Code |
|---|---|
| `dispatch` | table `dispatches`, both shapes of payload |
| `globalBans`, `targetHosts`, `srcBans` | the kernel maps `src_ban_global`, `target_hosts`, `src_ban` |
| `targetIDs`, `nextTargetID` | fields of `banMaps` |
| `Poll`, `Apply`, `ApplyGlobal`, `EnsureTarget`, `ApplyPrefix`, `ScopedDone`, `Mark` | `pollAndExecute`, `banMaps.Apply`, `applyScoped`, `ensureTarget`, `markAcked`, `markFailed`; one map write per step |
| `CreateDispatch` | a row as `BanApproval` or `ScopedBan` leaves it |
| `MarkDispatchAck`, `MarkDispatchFail` | the endpoints of `internal/web/api.go`, which mark a row in any state |
| `Tick`, `KtimeDeadline`, `Live` | the monotonic clock, `banmap.KtimeDeadline`, `is_expired` |
| `Lookup`, `Decider`, `Drops` | `xdp_filter` and the longest-prefix match it relies on |
| `Crash`, `StartExecutor` | the process ends and its maps with it; `newBanMaps` |

The field `by` of an entry is history: the row that wrote it. `rule_id` in the kernel's map is the `ReqID` of
the payload (`cmd/xdpban/executor.go:78`), which a ban and a scoped rule may share and which nothing decides by.

A prefix is a model value with the addresses it covers; `PrefixAssumption` says what makes them prefixes.
A put into a full map fails for a new key; any other put may fail too.

### Properties

- `DropsOnlyOrdered`: a packet is dropped only for an order about its source and destination, within its
  lifetime. Breaks if two hosts ever share an id.
- `AckedInForce`: an order the loop acked drops its packets until its deadline. One thing defeats it, and the
  property says so: an entry of another order that the lookup finds first, even an expired one.
- `NoOrphanEntries`: no entry sits under an id the XDP program cannot reach.
- `PendingIsHandled`: every order is attempted and marked as long as the process stays up.

`AckedInForce` speaks of one process. After a restart the maps are empty and the acked rows are not
applied again; `ENGINEERING.md:114` documents this, so `promised` is emptied in `Crash`.

Fairness. Weak fairness of `LoopStep` alone: the ticker keeps firing and the loop's goroutine is
scheduled. Nobody has to restart the process, so `PendingIsHandled` asks nothing of one that is down.
Packet counters, `attempts`, `last_error` and audit rows are left out: nothing decides by them.

### Proof

`Executor_proofs`: `TypeOK`, `DropsOnlyOrdered`, `AckedInForce`, `NoOrphanEntries`.

What the XDP program does with a packet is decided by entries that several steps of the loop wrote, one key
at a time. `IInv` says where each entry sits: under a key of its own order, with a deadline within that
order's lifetime (`GlobalInv`, `ScopedInv`); that the kernel's table of ids is the loop's and gives every
host its own (`IdsInv`); which of the prefixes of the order at hand are written already (`LoopInv`); and that every key of
an acked order holds its entry or a later order's (`PromiseInv`). `DropsOnlyOrdered` and `AckedInForce` follow
from these with what longest-prefix match does (`NarrowestPrefix`, `LookupFinds`, `DeciderCases`).

`TargetIdAssumption` says that the map of targets fills up before the ids run out: an id is handed out only with
room in the map, so the ids used never exceed `TargetCap`, and in the code they are 32-bit numbers while the
map has far fewer entries. This keeps ids in their type, and a wrap of `nextTargetID` out of the model.

## UserAdmin

### Correspondence

| Model | Code |
|---|---|
| `user`, `session` | table `users`; `sessionStore.data` |
| `DoLogin`, `SessionPut` | `doLogin`: the row and the password are checked, bcrypt takes its time, the session is stored |
| `SessionDelete` | `logout`, the expiry that `Get` notices, the reaper |
| `UserCreate`, `UserInsert` | `userCreate` |
| `AdminRequest`, `LoadTargetUser`, `CountActiveAdmins`, `UserUpdate`, `DeleteByUser` | `userChangeRole`, `userToggleActive`, `userDelete`, `userChangePassword`, with `loadTargetUser` and `countActiveAdmins`: authentication, target row and self test, count of the other admins, UPDATE, sessions dropped |
| `Restart` | the session table is memory only |

### Properties

- `AdminRemains`: some enabled administrator remains. It needs `~blind`: two handlers that each count the
  other's target before either updates do remove the last two (`internal/web/users.go` counts and updates in two statements). The
  property shows that nothing else can.
- `SessionsFresh`: a session is as good as the row that opened it, unless its revocation is still
  to come or its login was verifying while the sessions were dropped (`late`).
- `NotOneself`: nobody disables or deletes the account in use.

Every statement may fail and the process may restart as often as it likes.

### Proof

`UserAdmin_proofs`: `TypeOK`, `AdminRemains`, `SessionsFresh`, and the action property `NotOneself`.

All three safety properties depend on what a handler read some statements ago. `IInv` says how long that stays
true: a handler that may take an administrator away has seen another one who is still there unless two
such handlers overlapped (`HasSeenAdmin`); a login between check and storing has the row of the table unless its
sessions were dropped meanwhile (`FreshLogin`); its token is nobody else's (`OwnToken`), so the actor
of a request does not change under it (`NotSelf`).

## PrefixRanges and PrefixSync

### Correspondence

| Model | Code |
|---|---|
| `Normalize`, `Load` | `normalize` and `Load`: what becomes of a line, the 32-bit count of a RIR line and its wrap included |
| `ApplyOverrides`, `Candidates`, `Merged`, `RangeToCIDRs`, `Resolve` | `applyOverrides`, `Resolve`, `candidates`, `rangeToCIDRs` |
| `SyncFrom`, `ImportUpload`, `Fetch`, `Rename` | the two ways a file arrives, through private temporary files |
| `SaveOverride`, `Truncate`, `Write` | `prefixDBSaveOverride` and `os.WriteFile` |
| `ReloadLoad`, `OpenOverrides`, `ReloadApply`, `SetGlobal` | `Reload`: the active file is loaded, the overrides are opened, then scanned, and the result is installed |
| `Rewritten`, `Scanned`, `Mangled` | what a scan reads of a file that `os.WriteFile` empties and rewrites under it: any lines of the texts it has held meanwhile, and what a line cut short or joined of two halves is taken for |
| `LoadPrefixDB`, `Restart` | `loadPrefixDB` at start-up |

`PrefixRanges` is pure and parameterised by `Width`, the number of address bits; a database is a
set of entries. `PrefixSync` gives it the databases that tasks can actually install, so the algorithm
is checked on every one of them.

### Properties

- `ServedIsWhole`: what is served is a file as it was sent, with all of some override text or none.
  Defeated only by `torn`, a write that failed half-way or two saves of the overrides at once, and, for
  the overrides alone, by `mixed`: they were rewritten while they were scanned, and a mix of two texts is installed
  until the next `Reload` (`applyOverrides` takes no lock against `prefixDBSaveOverride`).
- `FilesAreServed`: at rest the process serves what is on disk. Defeated only by `lagging`: the
  last task to end had read before or while another task wrote, or it failed after writing, or the
  process could not read the files when it started.
- `SyncEnds`: a download that started ends, so the next one is not refused for ever. Weak fairness of every
  task's step: the HTTP client has a timeout of ten minutes.
- `ResolveIsExact`: a selector expands to exactly the addresses of the matching entries, in the fewest
  aligned blocks.
- `OverridesRule`: inside an override only overrides attribute; outside, entries keep their attribution or,
  if they touch an override, lose it.

Left out: search, statistics and preview, which read only.

### Proof

`PrefixSync_proofs`: `TypeOK`, `ServedIsWhole`, `FilesAreServed`, and, for every width, database and
set of overrides, `OverridesRule` and `ResolveIsExact`.

What is served was decided when a task read the files, steps before it installs them. `WholeInv` follows a
content from the upload through the temporary file, the active file and the loaded data to the installed
database; `CurrentInv` says that a task which is neither behind nor has
read a mix carries what the files hold; `FreshInv`, that the process
serves the files or a task is on its way to a reload. `SyncInv` is the discipline of the one download at a
time. `OverridesRule` needs no induction: it is proved of `ApplyOverrides` itself (`Attribution`) and then of every
installation (`InstalledMeans`).

`ResolveIsExact` is a fact about `Resolve` (`ResolveCovers` in `PrefixRanges_proofs`), applied to whatever is
installed. Three inductions carry it, each as "there is no smallest counterexample" (`SmallestNumber`):

1. over the exponent, for the powers of two (`Pow2Values`);
2. over the sorted ranges, for the merging (`MergedSoFar`): the first `k` of them have become ranges with the
   same addresses and a free one between any two (`Gaps`). `MergeKeeps` is its step and relies on the order of
   the starts;
3. over the addresses left, for the greedy split (`SplitCovers`): its blocks are aligned, disjoint, cover the rest
   of the range, and no two are halves of one block. `FirstBlock` and `OneMoreBlock` are its step: the largest
   aligned block that fits is never followed by its sibling.

Blocks of different ranges cannot meet nor be halves of one block, because siblings touch (`SiblingsTouch`) and ranges have
gaps (`FarApart`). Before any of this, the recursive functions have to be shown to exist: `DoublingExists`,
`SplitExists` and `MergingExists` build them.

The model is written for this. `Pow2` is a function rather than `2^k`, of which the provers know nothing, and `Merged`
sorts by choosing an arrangement with ascending starts. That is all `sort.Slice` promises as well: in which order ranges with one
start come is open, and the proof uses no more than the order of the starts.

Assumptions: there are at least two addresses (`SpaceAssumption`); contents and texts are lines of the two formats
(`RawAssumption`, `TextAssumption`); the file of `XDPBAN_PREFIX_DB` holds entries, at least one, if it can be loaded
(`ExplicitAssumption`).

## Sampler

### Correspondence

| Model | Code |
|---|---|
| `ring`, `XdpSample` | the ring buffer and `xdp_sampler.c` for a packet that the draw picks |
| `events`, `ReadRing` | the channel and the goroutine that fills it, dropping what does not fit |
| `pc`, `flowStats`, `Aggregate`, `ReportSamples`, `PostEnds`, `Export`, `Clear` | the main loop's `select` in `main`, `reportSamples`, `netflowExporter.export` and `encode` |
| `requests`, `ReceiveSamples`, `RequestLost` | `POST /api/v1/samples` on the wire; an abandoned one may still arrive |
| `reports`, `Window`, `Totals`, `TopFlows` | `sampleBuffer`: `Put` and `TopFlows` |
| `flowSeq` | `flow_sequence`: the records the process has encoded |
| `expected`, `missing`, `regressed` | the collector, another process: the number after its last packet; what has been numbered since; whether the sampler has restarted since |

### Properties

- `CountedOnce`: no sampled packet is counted twice on its way to the window, and none is missing
  while nothing has been dropped.
- `GapsCountLosses`: the gap in `flow_sequence` is the number of records that were numbered and did not arrive,
  also when a write fails and when the number wraps. It does not count the records that a failed write
  abandons: they are never encoded and get no number. And it is false once after a restart of the sampler, which
  numbers from 0 again while the collector goes on, against the comment at
  `cmd/xdp-sampler/netflow.go:34`; from the first packet that arrives it is right again.
- `LoudestShown`: `TopFlows` against a definition that sorts nothing.
- `SamplingGoesOn`: every period ends, and neither channel nor ring stays full.

Fairness. The reader and the steps of a period are weakly fair: each call returns or times out.
`Aggregate` and `ReportSamples` are cases of one `select`, and Go picks at random among those that
are ready, so each is strongly fair. The network is not.

Left out: the map `flow_table` and the totals, which nobody reads; bytes and times of a flow, which go the same way as
its packets; the layout of a NetFlow record.

### Proof

`Sampler_proofs`: `TypeOK`, `CountedOnce`, `GapsCountLosses`, `LoudestShown`, for any flows, buffer sizes and
numbers of packets.

A packet is in one place at a time: ring, channel, sums of the running period, one request, one report of the
window. `CountInv` adds these up per flow and is followed through every step; the lemmas `InSeq...`,
`Requests...` and `Window...` say what adding, taking and displacing does to each summand. It needs
`StampInv`: requests are a set, and a report whose time stamp were not new could vanish in it. The type of
`periods` needs `BoundInv`: every period took a packet at least. `GapsCountLosses` is inductive; the step that numbers a
packet rests on `RestOfSum`, arithmetic modulo `SequenceSpace` from the uniqueness of quotient and rest.

`LoudestShown` joins two halves. `Totals` folds the reports of the window into one sum per pair, by induction over the
reports folded so far; `TopFlows` sorts the pairs by that sum and cuts the list, and a sorted arrangement of a
finite set exists, misses nothing and repeats nothing (`SortedExists`, `SortedHasAll` in `Sums`). That no pair shows more than was
sampled of it comes from `CountInv`. Like `Merged`, `TopFlows` picks any arrangement in
descending order, as `sort.Slice` leaves equal sums in any.

`FlowsAssumption`: finitely many flows, as sums are over finite sets.

## Runs of the newer modules

| Run | Instance | Shows |
|---|---|---|
| `Scoped_quota` | 2 users, 1 host, 2 selectors, 2 databases, 2 rules, 2 handlers | the books of the quota, resizing, restarts with and without the restored quota, refinement |
| `Scoped_overlap` | the same without faults | violated: live rules above the high-water mark |
| `Executor_maps` | 2 sources, 2 hosts, 2 nested prefixes, 6 orders, 2 rows, small maps | verdicts, acked orders, full maps, restart, liveness |
| `Users_races` | 2 names, 2 roles, 2 sessions, 2 handlers | the last administrator, revoked sessions |
| `Prefix_reload` | 3-bit addresses, 2 files, 2 formats, 2 override texts of which one is refused, 2 tasks | overlapping syncs, uploads, saves and scans; exact expansion |
| `Sampler_window` | 3 packets, 2 pairs, 2 ports | losses and late reports, ranking, no hang |

Bounds.

- `Scoped_quota`: the races are between two handlers, over one rule or over the last free entries. `HighWater = 3`
  admits both rules of the first database and not the grown one of the second; one rule grows and the
  other shrinks. `MCBudget` spends, in one behaviour, at most one failure or restart and one new database
  or edit of the protected set; what follows a restart that left the quota astray is not explored, as no property
  of the quota speaks of it (types and refinement are proved there too). Handlers are symmetric; no liveness is checked.
- `Executor_maps`: two rows let an order meet the one before it in every combination of the payloads; `BatchSize = 1`
  makes the poll choose; a global map of one entry and a source map of two fill up. Two ticks
  let a lifetime of one pass before and after the next order.
- `Users_races`: two users suffice for "the last administrator" and for a handler racing the
  removal of its own actor; a reset of the password once separates the old one from the new.
- `Prefix_reload`: with three bits both ends of the space, touching and overlapping ranges and a RIR count that
  wraps all occur. One write may fail half-way; after that the properties that depend on it are
  given up anyway. `MCApart` keeps a torn file and a mixed scan out of one behaviour, as each gives the same
  conjunct up. A mangled line is a good one with another address or one that is refused. The file of `XDPBAN_PREFIX_DB` has overlapping entries.
- `Sampler_window`: three packets make two flows of one pair and one of another, so there are two reports and a
  third that displaces the first; `MaxRecords = 2` splits an export; `SequenceSpace = 4` wraps.

Deadlock is not checked in any of them: each may stop when nobody does anything and the bounds are spent.

## A fourth divergence

4. Overlapping decisions on one rule let a later submission pass the high-water mark (`Scoped_overlap`). `internal/quota/quota.go:84`
   says that counting on submission keeps concurrent submissions from exceeding it together, and
   `ENGINEERING.md:261` repeats it. Two decisions on one rule at once, an approval and a rejection, give
   the quota back and leave the rule active; an ordinary submission after them then fits where it should not.

Read in the code and not the subject of a run:

- `Reload` (`internal/prefixdb/sync.go:232`) reports a loaded main database and ignored overrides when the overrides
  cannot be read, but returns before installing anything.
- `XDPBAN_PREFIX_DB` is said to have priority (`cmd/xdpban/main.go:111`); the `Reload` that follows replaces it
  by the active file whenever that one is readable. `LoadPrefixDB` models this.
- "No address is attributed twice" (`internal/prefixdb/sync.go:375`) does not hold between override lines that overlap
  each other, nor between overlapping entries of a file.
- `restoreQuota` (`internal/web/services.go:25`) looks at no error of its queries and starts from nothing when they fail,
  which its own comment (`services.go:14`) calls the way to over-approval. `Restart` of `ScopedBan` models this.
- A save of the overrides during a `Reload` can install a mix of both texts (`internal/web/prefixdb.go:157` and
  `internal/prefixdb/sync.go:389`). `Rewritten` and `Scanned` model this.
- `flow_sequence` "must be monotonic" (`cmd/xdp-sampler/netflow.go:34`), but a restart of the sampler resets it. `RestartSampler` models this.
- NetFlow addresses leave byte-reversed: the sampler's event holds them as the kernel read them
  (`cmd/xdp-sampler/main.go:265`) and `cmd/xdp-sampler/netflow.go:120` writes them as host-order numbers.
- The sampling interval in the NetFlow header has 14 bits (`cmd/xdp-sampler/netflow.go:115`): 16384 and more are cut.
- A file with IPv6 ranges only replaces the active one and then cannot be loaded; the error of the
  final flush is dropped (`internal/prefixdb/sync.go:258`).

## Not modelled

Reports, HTML templates, profiling, embedding of the compiled programs, benchmarks and deployment: they
change no state that another part depends on. `internal/resolution` only produces a text shown to the user. `MaybeDecay` and
`StillAttacking` are called by nothing. `query.go` and the pages that list rows read only. Opening and
migrating the database happens before any of the modelled steps.

## What the proofs leave to TLC

Every module that has behaviour has a module of proofs; each of its theorems holds for every value of the
constants that meets the module's assumptions, and TLC evaluates the assumptions in the runs. All inductive
invariants were also checked by TLC on instances like those of the runs. `Sums` proves its lemmas by
the smallest counterexample: the subsets of a finite set are well-founded under strict inclusion
(`FS_StrictSubsetOrderingWellFounded`), which takes the place of an induction over sets.

Folds over sequences are treated the same way: `FoldOf` is the function by which `FoldLeft` is defined, `FoldExists`
builds it and `FoldValues` unfolds it by one element.

Only model-checked:

- liveness under fairness: `ApprovalExecuted`, `PendingIsHandled`, `SyncEnds`, `SamplingGoesOn`. The prover has no
  rule for fairness that could be used here.
- the four runs that expect a violation, which exhibit one behaviour each.
