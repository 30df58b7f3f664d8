------------------------------ MODULE Executor ------------------------------
(***************************************************************************)
(* From a dispatch row to a dropped packet: the executor loop that polls   *)
(* the dispatches table and writes the kernel maps (cmd/xdpban/exec_loop.go*)
(* and executor.go, internal/banmap/layout.go), the HTTP endpoints that    *)
(* mark the same rows (internal/web/api.go), and the XDP program that      *)
(* reads the maps for every packet (bpf/xdp_filter.c).                     *)
(*                                                                         *)
(* One goroutine runs the loop.  Packets, HTTP calls, new dispatches and   *)
(* the clock come between any two of its writes; the maps and what the     *)
(* loop keeps in memory are gone when the process is, the rows are not.    *)
(* Packet counters, last_error, attempts, acked_at and the audit rows of   *)
(* the marks are left out: nothing decides by them.                        *)
(***************************************************************************)
EXTENDS Naturals, Sequences, FiniteSets

CONSTANTS
    Addrs,          \* source addresses
    Hosts,          \* destination addresses
    Prefixes,       \* IPv4 prefixes, masked
    Cover,          \* Cover[p]: the addresses in p
    Targets,        \* target strings of single-target orders
    Parse,          \* Parse[t]: ParseIPv4Prefix(t), NoPrefix where it fails (IPv6)
    Payloads,       \* the orders that approvals may produce
    MaxDispatches,  \* bound: rows of dispatches
    BatchSize,      \* LIMIT of the poll (50)
    GlobalCap, TargetCap, SrcCap,   \* max_entries of the three maps
    MaxTargetId,    \* bound: target ids one process hands out
    MaxClock,       \* bound: clock ticks
    MaxFaults,      \* bound: failing UPDATEs of the loop
    MaxCrashes,     \* bound: process deaths
    MaxCalls,       \* bound: calls of the ack and fail endpoints
    NoPrefix, NoHost

Ids == 1..MaxDispatches
TargetIds == 1..MaxTargetId

\* A single-target order has a target string and no host; a scoped one has a host and
\* the prefixes its selector resolved to.  ttl 0 is permanent.
PayloadSet == [target: Targets, host: Hosts \cup {NoHost},
               prefixes: Seq(Prefixes), ttl: Nat]

ASSUME PrefixAssumption ==      \* prefixes are nested or disjoint, and distinct
    \A p, q \in Prefixes :
        /\ Cover[p] \in SUBSET Addrs
        /\ Cover[p] \cap Cover[q] \in {{}, Cover[p], Cover[q]}
        /\ Cover[p] = Cover[q] => p = q
ASSUME PayloadAssumption ==
    /\ Parse \in [Targets -> Prefixes \cup {NoPrefix}]
    /\ Payloads \subseteq PayloadSet
    /\ NoPrefix \notin Prefixes /\ NoHost \notin Hosts
ASSUME BoundAssumption ==
    /\ \A n \in {GlobalCap, TargetCap, SrcCap, MaxClock, MaxFaults, MaxCrashes,
                 MaxCalls, MaxDispatches, MaxTargetId} : n \in Nat
    /\ BatchSize \in Nat \ {0}
    /\ IsFiniteSet(Hosts) /\ IsFiniteSet(Prefixes)
ASSUME TargetIdAssumption ==    \* ids have 32 bits and never run out before the map is full
    TargetCap <= MaxTargetId

VARIABLES
    dispatch,       \* dispatches, in the order of their primary keys
    globalBans,     \* kernel map src_ban_global
    targetHosts,    \* kernel map target_hosts, 0 where there is no entry
    srcBans,        \* kernel map src_ban
    targetIDs,      \* banMaps.targetIDs, 0 where there is none
    nextTargetID,   \* banMaps.nextTargetID
    loop,           \* where runExecutorLoop stands
    clock,          \* bpf_ktime_get_ns, the time since the system started
    promised,       \* history: deadlines of the orders this process has acked
    faults, crashes, calls  \* how much of the bounds is used up

kernel == <<globalBans, targetHosts, srcBans>>
memory == <<targetIDs, nextTargetID>>
bounds == <<faults, crashes, calls>>
vars == <<dispatch, kernel, memory, loop, clock, promised, bounds>>

-----------------------------------------------------------------------------
(* Rows and map entries *)

DispatchRow == [payload: Payloads, state: {"pending", "acked", "failed"}]

\* ban_value: its deadline, 0 for ever.  "by" is history, the dispatch row that wrote the
\* entry; rule_id of the code is the row's ReqID, an id that bans and scoped rules share
\* and that decides nothing, and it is left out like the hits.  An absent key of a map is
\* mapped to NoEntry.
Entry == [exp: Nat, by: Ids]
NoEntry == [exp |-> 0, by |-> 0]
Entries == Entry \cup {NoEntry}

Loop == [pc: {"down", "idle", "next", "global", "target", "source", "mark"},
         batch: SUBSET Ids, cur: 0..MaxDispatches, val: Entries,
         tid: 0..MaxTargetId, left: Seq(Prefixes), ok: BOOLEAN]
LoopAt(pc, batch, cur, val, tid, left, ok) ==
    [pc |-> pc, batch |-> batch, cur |-> cur, val |-> val, tid |-> tid,
     left |-> left, ok |-> ok]
Waiting(pc, batch) == LoopAt(pc, batch, 0, NoEntry, 0, <<>>, FALSE)

TypeOK ==
    /\ dispatch \in Seq(DispatchRow) /\ Len(dispatch) <= MaxDispatches
    /\ globalBans \in [Prefixes -> Entries]
    /\ targetHosts \in [Hosts -> 0..MaxTargetId]
    /\ srcBans \in [TargetIds -> [Prefixes -> Entries]]
    /\ targetIDs \in [Hosts -> 0..MaxTargetId]
    /\ nextTargetID \in 1..(MaxTargetId + 1)
    /\ loop \in Loop
    /\ clock \in 1..(MaxClock + 1)
    /\ promised \in [Ids -> Entries]
    /\ faults \in 0..MaxFaults /\ crashes \in 0..MaxCrashes /\ calls \in 0..MaxCalls

\* The program creates its own maps each time it starts (startExecutor, newBanMaps):
\* what an earlier process wrote is gone, and so are the ids it handed out.
NoBans == [p \in Prefixes |-> NoEntry]
NoIds == [h \in Hosts |-> 0]
NoScopedBans == [t \in TargetIds |-> NoBans]

Init ==
    /\ dispatch = <<>>
    /\ globalBans = NoBans /\ targetHosts = NoIds /\ srcBans = NoScopedBans
    /\ targetIDs = NoIds /\ nextTargetID = 1
    /\ loop = Waiting("idle", {})
    /\ clock = 1
    /\ promised = [i \in Ids |-> NoEntry]
    /\ faults = 0 /\ crashes = 0 /\ calls = 0

-----------------------------------------------------------------------------
(* The XDP program *)

\* is_expired, negated: 0 never expires.
Live(e) == e # NoEntry /\ (e.exp = 0 \/ clock <= e.exp)

\* LPM_TRIE lookup of a full-length key: the entry of the longest prefix that covers s.
Lookup(entries, s) ==
    LET matching == {p \in Prefixes : entries[p] # NoEntry /\ s \in Cover[p]}
    IN  IF matching = {} THEN NoEntry
        ELSE entries[CHOOSE p \in matching :
                        \A q \in matching : Cover[p] \subseteq Cover[q]]

\* xdp_filter: the entry that decides on a packet from s to d.  A hit in the global
\* map ends the search, an expired one too.
Decider(s, d) ==
    LET g == Lookup(globalBans, s)
    IN  IF g # NoEntry THEN g
        ELSE IF targetHosts[d] = 0 THEN NoEntry
        ELSE Lookup(srcBans[targetHosts[d]], s)

Drops(s, d) == Live(Decider(s, d))

-----------------------------------------------------------------------------
(* Helpers of the loop *)

Pending == {i \in DOMAIN dispatch : dispatch[i].state = "pending"}
Order(i) == dispatch[i].payload
IsScoped(o) == o.host # NoHost

\* A target string stands for the masked prefix it spells; the key of the global map is
\* that prefix, so different spellings share an entry.
ParseIPv4Prefix(t) == Parse[t]
GlobalKey(o) == ParseIPv4Prefix(o.target)

\* banmap.KtimeDeadline, called when the order is applied, not when it was approved.
KtimeDeadline(ttl) == IF ttl = 0 THEN 0 ELSE clock + ttl

Size(entries) == Cardinality({k \in DOMAIN entries : entries[k] # NoEntry})
Targeted == Cardinality({h \in Hosts : targetHosts[h] # 0})
SrcSize == Cardinality({k \in TargetIds \X Prefixes : srcBans[k[1]][k[2]] # NoEntry})

\* bpf_map_update_elem: a full map takes no new key, and whether a full trie lets a key
\* it holds be overwritten depends on the kernel; memory may run out at any time.
PutSucceeds(size, cap, old) == (size < cap \/ old # NoEntry) /\ UNCHANGED faults
PutFails(size, cap) ==
    \/ size >= cap /\ UNCHANGED faults
    \/ faults < MaxFaults /\ faults' = faults + 1

\* Mutant: the id is left out of the key.
PutSrcShared(tid, p) ==
    srcBans' = [t \in TargetIds |-> [srcBans[t] EXCEPT ![p] = loop.val]]

\* srcBans.Put under EncodeSrcKey: the target's id in full, then the source prefix.
PutSrc(tid, p) ==
    srcBans' = [srcBans EXCEPT ![tid] = [@ EXCEPT ![p] = loop.val]]

Become(l) == loop' = l
\* The order is done with, one way or the other; its row is marked next.
GoMark(ok) == Become(LoopAt("mark", loop.batch, loop.cur, loop.val, 0, <<>>, ok))
SetState(i, s) ==
    dispatch' = [dispatch EXCEPT ![i] = [payload |-> @.payload, state |-> s]]

-----------------------------------------------------------------------------
(* The executor loop *)

\* pollAndExecute's SELECT ... LIMIT, with no ORDER BY.  The rows are a snapshot: what
\* becomes of them before their turn comes is not looked at again.  A failed query and
\* an empty answer leave the loop as it was.
Poll ==
    /\ loop.pc = "idle"
    /\ \E S \in SUBSET Pending :
          /\ S # {}
          /\ Cardinality(S) = BatchSize \/ (S = Pending /\ Cardinality(S) < BatchSize)
          /\ Become(Waiting("next", S))
    /\ UNCHANGED <<dispatch, kernel, memory, clock, promised, bounds>>

\* Apply begins: the value is computed, and the payload's shape decides the path.  The
\* payload always parses as JSON, dispatch.Service having marshalled it.
Apply ==
    /\ loop.pc = "next"
    /\ \E i \in loop.batch :
          LET o == Order(i)
              val == [exp |-> KtimeDeadline(o.ttl), by |-> i]
              pc == IF IsScoped(o) THEN "target"
                    ELSE IF ParseIPv4Prefix(o.target) = NoPrefix THEN "mark" ELSE "global"
          IN  Become(LoopAt(pc, loop.batch \ {i}, i, val, 0, o.prefixes, FALSE))
    /\ UNCHANGED <<dispatch, kernel, memory, clock, promised, bounds>>

\* globalBans.Put: an existing entry of the same prefix is overwritten.
ApplyGlobal ==
    LET p == GlobalKey(Order(loop.cur))
    IN  /\ loop.pc = "global"
        /\ \/ /\ PutSucceeds(Size(globalBans), GlobalCap, globalBans[p])
              /\ globalBans' = [globalBans EXCEPT ![p] = loop.val]
              /\ GoMark(TRUE)
           \/ PutFails(Size(globalBans), GlobalCap) /\ GoMark(FALSE) /\ UNCHANGED globalBans
        /\ UNCHANGED <<dispatch, targetHosts, srcBans, memory, clock, promised, crashes, calls>>

\* Mutants: the id is not remembered; a failed Put is ignored.
EnsureTargetForgets ==
    LET h == Order(loop.cur).host
    IN  /\ loop.pc = "target"
        /\ Targeted < TargetCap \/ targetHosts[h] # 0
        /\ targetHosts' = [targetHosts EXCEPT ![h] = nextTargetID]
        /\ nextTargetID' = nextTargetID + 1
        /\ Become(LoopAt("source", loop.batch, loop.cur, loop.val, nextTargetID,
                         loop.left, FALSE))
        /\ UNCHANGED <<dispatch, globalBans, srcBans, targetIDs, clock, promised, bounds>>
EnsureTargetIgnoresFailure ==
    LET h == Order(loop.cur).host
        tid == IF targetIDs[h] # 0 THEN targetIDs[h] ELSE nextTargetID
    IN  /\ loop.pc = "target"
        /\ \/ targetHosts' = [targetHosts EXCEPT ![h] = tid] /\ UNCHANGED faults
           \/ PutFails(Targeted, TargetCap) /\ UNCHANGED targetHosts
        /\ targetIDs' = [targetIDs EXCEPT ![h] = tid]
        /\ nextTargetID' = IF targetIDs[h] # 0 THEN nextTargetID ELSE nextTargetID + 1
        /\ Become(LoopAt("source", loop.batch, loop.cur, loop.val, tid, loop.left, FALSE))
        /\ UNCHANGED <<dispatch, globalBans, srcBans, clock, promised, crashes, calls>>

\* ensureTarget: one id per host for the life of the process, remembered only once the
\* kernel has it.
EnsureTarget ==
    LET h == Order(loop.cur).host
        tid == IF targetIDs[h] # 0 THEN targetIDs[h] ELSE nextTargetID
        go == Become(LoopAt("source", loop.batch, loop.cur, loop.val, tid, loop.left, FALSE))
    IN  /\ loop.pc = "target"
        /\ \/ /\ targetIDs[h] # 0
              /\ go
              /\ UNCHANGED <<targetHosts, memory, faults>>
           \/ /\ targetIDs[h] = 0 /\ PutSucceeds(Targeted, TargetCap, NoEntry)
              /\ targetHosts' = [targetHosts EXCEPT ![h] = tid]
              /\ targetIDs' = [targetIDs EXCEPT ![h] = tid]
              /\ nextTargetID' = nextTargetID + 1
              /\ go
           \/ /\ targetIDs[h] = 0 /\ PutFails(Targeted, TargetCap)
              /\ GoMark(FALSE)
              /\ UNCHANGED <<targetHosts, memory>>
        /\ UNCHANGED <<dispatch, globalBans, srcBans, clock, promised, crashes, calls>>

\* applyScoped's loop: one Put per prefix; the first that fails ends it and leaves what
\* is written in place.
ApplyPrefix ==
    LET p == Head(loop.left)
    IN  /\ loop.pc = "source" /\ loop.left # <<>>
        /\ \/ /\ PutSucceeds(SrcSize, SrcCap, srcBans[loop.tid][p])
              /\ PutSrc(loop.tid, p)
              /\ Become(LoopAt("source", loop.batch, loop.cur, loop.val, loop.tid,
                               Tail(loop.left), FALSE))
           \/ PutFails(SrcSize, SrcCap) /\ GoMark(FALSE) /\ UNCHANGED srcBans
        /\ UNCHANGED <<dispatch, globalBans, targetHosts, memory, clock, promised, crashes, calls>>

ScopedDone ==
    /\ loop.pc = "source" /\ loop.left = <<>>
    /\ GoMark(TRUE)
    /\ UNCHANGED <<dispatch, kernel, memory, clock, promised, bounds>>

Onward == Become(Waiting(IF loop.batch = {} THEN "idle" ELSE "next", loop.batch))

\* Mutants: an order that cannot be applied is skipped without a mark; a state no
\* reader knows.
MarkAckedOnly ==
    LET i == loop.cur
    IN  /\ loop.pc = "mark"
        /\ IF loop.ok THEN SetState(i, "acked") /\ promised' = [promised EXCEPT ![i] = loop.val]
                      ELSE UNCHANGED <<dispatch, promised>>
        /\ Onward
        /\ UNCHANGED <<kernel, memory, clock, bounds>>
MarkMisspelt ==
    /\ loop.pc = "mark"
    /\ SetState(loop.cur, IF loop.ok THEN "ack" ELSE "failed")
    /\ Onward
    /\ UNCHANGED <<kernel, memory, clock, promised, bounds>>

\* markAcked and markFailed: an UPDATE by id, whatever the row's state is by now.  If
\* it fails the row stays as it is, and a pending one is applied again.
Mark ==
    LET i == loop.cur
    IN  /\ loop.pc = "mark"
        /\ \/ /\ SetState(i, IF loop.ok THEN "acked" ELSE "failed")
              /\ promised' = IF loop.ok THEN [promised EXCEPT ![i] = loop.val] ELSE promised
              /\ UNCHANGED faults
           \/ /\ faults < MaxFaults /\ faults' = faults + 1
              /\ UNCHANGED <<dispatch, promised>>
        /\ Onward
        /\ UNCHANGED <<kernel, memory, clock, crashes, calls>>

-----------------------------------------------------------------------------
(* The surroundings *)

\* dispatch.Service inserts a row after an approval.
CreateDispatch(o) ==
    /\ Len(dispatch) < MaxDispatches
    /\ dispatch' = Append(dispatch, [payload |-> o, state |-> "pending"])
    /\ UNCHANGED <<kernel, memory, loop, clock, promised, bounds>>

\* POST /api/v1/dispatch/:id/ack and /fail: the row is read only to see that it exists.
MarkByApi(i, s) ==
    /\ calls < MaxCalls
    /\ calls' = calls + 1
    /\ SetState(i, s)
    /\ UNCHANGED <<kernel, memory, loop, clock, promised, faults, crashes>>
MarkDispatchAck(i) == MarkByApi(i, "acked")
MarkDispatchFail(i) == MarkByApi(i, "failed")

Tick ==
    /\ clock <= MaxClock
    /\ clock' = clock + 1
    /\ UNCHANGED <<dispatch, kernel, memory, loop, promised, bounds>>

\* Mutant: the maps outlive the process and their ids do not.
CrashKeepsMaps ==
    /\ loop.pc # "down"
    /\ crashes < MaxCrashes
    /\ crashes' = crashes + 1
    /\ loop' = Waiting("down", {})
    /\ targetIDs' = NoIds /\ nextTargetID' = 1
    /\ promised' = [i \in Ids |-> NoEntry]
    /\ UNCHANGED <<dispatch, kernel, clock, faults, calls>>

\* The process dies, or is stopped: its XDP link and its maps go with it.
Crash ==
    /\ loop.pc # "down"
    /\ crashes < MaxCrashes
    /\ crashes' = crashes + 1
    /\ loop' = Waiting("down", {})
    /\ globalBans' = NoBans /\ targetHosts' = NoIds /\ srcBans' = NoScopedBans
    /\ targetIDs' = NoIds /\ nextTargetID' = 1
    /\ promised' = [i \in Ids |-> NoEntry]
    /\ UNCHANGED <<dispatch, clock, faults, calls>>

\* startExecutor: new maps, attached; every failure on the way ends the process.
StartExecutor ==
    /\ loop.pc = "down"
    /\ loop' = Waiting("idle", {})
    /\ UNCHANGED <<dispatch, kernel, memory, clock, promised, bounds>>

LoopStep ==
    \/ Poll \/ Apply \/ ApplyGlobal
    \/ EnsureTarget \/ ApplyPrefix \/ ScopedDone \/ Mark

Next ==
    \/ LoopStep
    \/ \E o \in Payloads : CreateDispatch(o)
    \/ \E i \in DOMAIN dispatch : MarkDispatchAck(i) \/ MarkDispatchFail(i)
    \/ Tick \/ Crash \/ StartExecutor

Spec == Init /\ [][Next]_vars

\* The ticker keeps firing while the process lives.  Nobody has to start it again.
FairSpec == Spec /\ WF_vars(LoopStep)

-----------------------------------------------------------------------------
(* Safety *)

\* Which packets an order is about.
Concerns(o, s, d) ==
    IF IsScoped(o)
    THEN d = o.host /\ \E k \in DOMAIN o.prefixes : s \in Cover[o.prefixes[k]]
    ELSE GlobalKey(o) # NoPrefix /\ s \in Cover[GlobalKey(o)]

\* No collateral (executor.go ensureTarget, layout.go EncodeSrcKey, KtimeDeadline): a
\* packet is dropped only by an entry whose order is about its source and its
\* destination, permanent or within that order's lifetime counted from now at most.
DropsOnlyOrdered ==
    \A s \in Addrs, d \in Hosts : Drops(s, d) =>
        LET e == Decider(s, d)
        IN  /\ e.by \in DOMAIN dispatch
            /\ Concerns(Order(e.by), s, d)
            /\ (e.exp = 0) = (Order(e.by).ttl = 0)
            /\ e.exp <= clock + Order(e.by).ttl

\* An order the loop acked stays in force until its deadline while the process lives,
\* through every later order, failure and full map.  One thing defeats it: the expired
\* entry of another order that is looked up first (xdp_filter.c 161 to 166).
AckedInForce ==
    \A i \in DOMAIN dispatch : Live(promised[i]) =>
        \A s \in Addrs, d \in Hosts : Concerns(Order(i), s, d) =>
            LET e == Decider(s, d)
            IN  Live(e) \/ (e # NoEntry /\ e.by # i)

\* Targets come first: between the two writes of a scoped order, after a failed
\* one and after a restart, no src_ban entry sits under an id the XDP program cannot
\* reach through target_hosts (executor.go 104 to 107, 148).
NoOrphanEntries ==
    \A t \in TargetIds, p \in Prefixes : srcBans[t][p] # NoEntry =>
        \E h \in Hosts : targetHosts[h] = t /\ targetIDs[h] = t

(* Liveness *)

\* Every order is attempted and marked as long as the process stays up, whatever the
\* order rows come in and however many exceed one poll's LIMIT.
PendingIsHandled ==
    \A i \in Ids :
        (i \in Pending /\ loop.pc # "down") ~> (i \notin Pending \/ loop.pc = "down")
=============================================================================
