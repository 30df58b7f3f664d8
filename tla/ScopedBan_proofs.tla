-------------------------- MODULE ScopedBan_proofs --------------------------
(***************************************************************************)
(* Proofs about scoped bans and their quota.  Two conditions govern what   *)
(* holds: most of it as long as no rule went astray, and that every active *)
(* rule is ordered as long as nothing fails and the database stays.        *)
(***************************************************************************)
EXTENDS ScopedBan, Sums, SequenceTheorems, TLAPS

-----------------------------------------------------------------------------
(* The inductive invariant *)

Drafting == {"reserve", "insert", "release"}
Sizing == {"resolve", "return", "take", "restore", "resize"}
Deciders == {"activate", "reject", "revoke"} \cup Sizing
Ordering == {"guard", "block", "lookup", "dispatch"}
Handling == Deciders \cup Ordering \cup {"giveback"}

At(pcs) == {h \in Handlers : job[h].pc \in pcs}

\* A draft has no key yet and is as large as its handler knows; a rule being handled
\* and a rule an order was given for exist.
IdInv ==
    /\ \A h \in At(Drafting) : /\ job[h].id = 0
                               /\ job[h].row.count = job[h].count
                               /\ job[h].row.state = "pending"
                               /\ job[h].row.approver = NoUser
    /\ \A h \in At(Handling) : job[h].id \in DOMAIN ban
    /\ \A d \in dispatch : d.ban \in DOMAIN ban

\* One handler at most decides about a rule, and it knows the size the rule has and
\* nearly the state.
DecideInv ==
    ~astray =>
        /\ \A h \in At(Deciders) : job[h].row.count = ban[job[h].id].count
        /\ \A g, h \in At(Deciders) : job[g].id = job[h].id => g = h
        /\ \A h \in At({"activate", "reject"}) : ban[job[h].id].state = "pending"
        /\ \A h \in At(Sizing) : ban[job[h].id].state = "active"
        /\ \A h \in At({"revoke"}) : ban[job[h].id].state \in {"active", "safety_blocked"}

\* The size is settled when the order is on its way.
OrderInv ==
    ~astray =>
        /\ \A h \in At(Ordering) : /\ ban[job[h].id].state # "pending"
                                   /\ job[h].count = ban[job[h].id].count
                                   /\ \A g \in At(Sizing) : job[g].id # job[h].id
        /\ \A d \in dispatch : /\ ban[d.ban].state # "pending"
                               /\ d.count = ban[d.ban].count
                               /\ \A g \in At(Sizing) : job[g].id # d.ban

\* The tracker accounts for the live rules, for what is in hand and for the rules X
\* blocked since the last restart.
Accounted(X) ==
    /\ tracker.prefixes = Committed + InHand + Total(X)
    /\ \A h \in At({"revoke"}) : ban[job[h].id].state = "safety_blocked" => job[h].id \in X
LedgerInv ==
    ~astray => /\ tracker.prefixes <= HighWater
               /\ \E X \in SUBSET RulesWith({"safety_blocked"}) : Accounted(X)

\* In calm conditions every size is the one of the database.
Calm == faults = 0 /\ crashes = 0 /\ swaps = 0
SizeInv ==
    Calm =>
        /\ pdb = NoDB => ban = <<>> /\ \A h \in Handlers : job[h] = NoJob
        /\ \A i \in DOMAIN ban : ban[i].count = Size[pdb][ban[i].sel]
        /\ \A h \in Handlers : job[h] # NoJob => job[h].row.count = Size[pdb][job[h].row.sel]
        /\ At({"release", "return", "take", "restore", "resize"}) = {}

\* And an active rule has its order or a handler on the way to it.
OrderedInv ==
    Calm =>
        \A i \in RulesWith({"active"}) :
            \/ \E d \in dispatch : d.ban = i
            \/ \E h \in At({"resolve"} \cup Ordering) : job[h].id = i

\* Four eyes: whoever approves is not the requester, and nothing is ordered unapproved.
GovernInv ==
    /\ \A h \in At({"activate"}) : /\ job[h].row.approver \in Users
                                   /\ job[h].row.approver # ban[job[h].id].requester
    /\ \A h \in At(Sizing \cup Ordering) : ban[job[h].id].approver # NoUser
    /\ \A d \in dispatch : ban[d.ban].approver # NoUser

IInv == TypeOK /\ IdInv /\ DecideInv /\ OrderInv /\ LedgerInv /\ SizeInv /\ OrderedInv /\ GovernInv

-----------------------------------------------------------------------------
(* What the jobs and rows are *)

LEMMA JobTypes ==
    ASSUME TypeOK, NEW h \in Handlers
    PROVE  /\ job[h].pc \in PCs
           /\ job[h] = NoJob <=> job[h].pc = "idle"
           /\ job[h] # NoJob => /\ job[h].id \in 0..MaxBans
                                /\ job[h].row \in Row
                                /\ job[h].count \in Nat
<1>1. job[h] \in Job
  BY DEF TypeOK
<1>2. CASE job[h] = NoJob
  BY <1>2 DEF NoJob, PCs
<1>3. CASE job[h] # NoJob
  <2>1. job[h] \in [pc: PCs \ {"idle"}, id: 0..MaxBans, row: Row, count: Nat]
    BY <1>1, <1>3 DEF Job
  <2>2. job[h].pc # "idle"
    BY <2>1
  <2>3. QED
    BY <1>3, <2>1, <2>2
<1>4. QED
  BY <1>2, <1>3

LEMMA RowTypes ==
    ASSUME TypeOK, NEW i \in DOMAIN ban
    PROVE  /\ ban[i] \in Row
           /\ i \in 1..Len(ban) /\ i \in 1..MaxBans
           /\ ban[i].count \in Nat /\ ban[i].state \in States
           /\ ban[i].requester \in Users
<1>1. ban \in Seq(Row) /\ Len(ban) <= MaxBans
  BY DEF TypeOK
<1>2. i \in 1..Len(ban) /\ ban[i] \in Row /\ Len(ban) \in Nat
  BY <1>1
<1>3. MaxBans \in Nat
  BY BoundAssumption
<1>4. i \in 1..MaxBans
  BY <1>1, <1>2, <1>3
<1>5. QED
  BY <1>2, <1>4 DEF Row

\* The handler goes on at pc with the same locals.
To(h, pc) ==
    /\ \A g \in Handlers \ {h} : job'[g] = job[g]
    /\ job'[h].pc = pc /\ job'[h].id = job[h].id
    /\ job'[h].row = job[h].row /\ job'[h].count = job[h].count
\* The handler is done.
Done(h) ==
    /\ \A g \in Handlers \ {h} : job'[g] = job[g]
    /\ job'[h] = NoJob /\ job'[h].pc = "idle"

LEMMA GotoIs ==
    ASSUME TypeOK, NEW h \in Handlers, job[h].pc # "idle",
           NEW pc \in PCs \ {"idle"}, Goto(h, pc)
    PROVE  To(h, pc) /\ job' \in [Handlers -> Job] /\ job'[h] # NoJob
<1>1. job' = [job EXCEPT ![h].pc = pc]
  BY DEF Goto
<1>2. job \in [Handlers -> Job] /\ job[h] # NoJob
  BY JobTypes DEF TypeOK
<1>3. job[h] \in [pc: PCs \ {"idle"}, id: 0..MaxBans, row: Row, count: Nat]
  BY <1>2 DEF Job
<1>4. job'[h] = [job[h] EXCEPT !.pc = pc]
  BY <1>1, <1>2
<1>5. job'[h] \in [pc: PCs \ {"idle"}, id: 0..MaxBans, row: Row, count: Nat]
  BY <1>3, <1>4
<1>6. job'[h].pc = pc /\ job'[h].id = job[h].id
      /\ job'[h].row = job[h].row /\ job'[h].count = job[h].count
  BY <1>3, <1>4
<1>7. job'[h] # NoJob
  BY <1>6 DEF NoJob
<1>8. job' \in [Handlers -> Job]
  BY <1>1, <1>2, <1>5 DEF Job
<1>9. QED
  BY <1>1, <1>2, <1>6, <1>7, <1>8 DEF To

LEMMA FinishIs ==
    ASSUME TypeOK, NEW h \in Handlers, Finish(h)
    PROVE  Done(h) /\ job' \in [Handlers -> Job]
  BY DEF TypeOK, Finish, Done, Job, NoJob

\* A new job.
LEMMA StartIs ==
    ASSUME TypeOK, NEW h \in Handlers, NEW pc \in PCs \ {"idle"}, NEW id \in 0..MaxBans,
           NEW row \in Row, NEW count \in Nat,
           job' = [job EXCEPT ![h] = [pc |-> pc, id |-> id, row |-> row, count |-> count]]
    PROVE  /\ \A g \in Handlers \ {h} : job'[g] = job[g]
           /\ job'[h].pc = pc /\ job'[h].id = id /\ job'[h].row = row /\ job'[h].count = count
           /\ job'[h] # NoJob
           /\ job' \in [Handlers -> Job]
<1>1. job \in [Handlers -> Job]
  BY DEF TypeOK
<1>2. job'[h] = [pc |-> pc, id |-> id, row |-> row, count |-> count]
  BY <1>1
<1>3. job'[h] \in Job
  BY <1>2 DEF Job
<1>4. job' \in [Handlers -> Job]
  BY <1>1, <1>3
<1>5. job'[h].pc # "idle"
  BY <1>2
<1>6. job'[h] # NoJob
  BY <1>5 DEF NoJob
<1>7. QED
  BY <1>1, <1>2, <1>4, <1>6

\* The row r changes its state, and nothing else; the approver may change, too.
Becomes(r, s, u) ==
    /\ DOMAIN ban' = DOMAIN ban
    /\ \A i \in DOMAIN ban \ {r} : ban'[i] = ban[i]
    /\ ban'[r].state = s /\ ban'[r].approver = u
    /\ ban'[r].count = ban[r].count /\ ban'[r].sel = ban[r].sel
    /\ ban'[r].requester = ban[r].requester

LEMMA RowIs ==
    ASSUME TypeOK, NEW r \in DOMAIN ban, NEW row \in Row
    PROVE  /\ [ban EXCEPT ![r] = row] \in Seq(Row)
           /\ Len([ban EXCEPT ![r] = row]) = Len(ban)
<1>1. ban \in Seq(Row) /\ DOMAIN ban = 1..Len(ban)
  BY DEF TypeOK
<1>2. QED
  BY <1>1, ExceptSeq

LEMMA StateIs ==
    ASSUME TypeOK, NEW r \in DOMAIN ban, NEW s \in States,
           ban' = [ban EXCEPT ![r].state = s]
    PROVE  /\ Becomes(r, s, ban[r].approver)
           /\ ban' \in Seq(Row) /\ Len(ban') = Len(ban)
<1>1. ban \in Seq(Row) /\ DOMAIN ban = 1..Len(ban) /\ ban[r] \in Row
  BY DEF TypeOK
<1>2. ban' = [ban EXCEPT ![r] = [ban[r] EXCEPT !.state = s]]
  OBVIOUS
<1>3. ban'[r] = [ban[r] EXCEPT !.state = s] /\ \A i \in DOMAIN ban \ {r} : ban'[i] = ban[i]
  BY <1>1, <1>2
<1>4. [ban[r] EXCEPT !.state = s] \in Row
  BY <1>1 DEF Row
<1>5. ban' \in Seq(Row) /\ Len(ban') = Len(ban)
  BY <1>2, <1>4, RowIs
<1>6. /\ ban'[r].state = s /\ ban'[r].approver = ban[r].approver
      /\ ban'[r].count = ban[r].count /\ ban'[r].sel = ban[r].sel
      /\ ban'[r].requester = ban[r].requester
  BY <1>1, <1>3 DEF Row
<1>7. DOMAIN ban' = DOMAIN ban
  BY <1>2
<1>8. QED
  BY <1>3, <1>5, <1>6, <1>7 DEF Becomes

LEMMA ActivationIs ==
    ASSUME TypeOK, NEW r \in DOMAIN ban, NEW u \in Users \cup {NoUser},
           ban' = [ban EXCEPT ![r].state = "active", ![r].approver = u]
    PROVE  /\ Becomes(r, "active", u)
           /\ ban' \in Seq(Row) /\ Len(ban') = Len(ban)
<1> DEFINE row == [ban[r] EXCEPT !.state = "active", !.approver = u]
<1>1. ban \in Seq(Row) /\ DOMAIN ban = 1..Len(ban) /\ ban[r] \in Row
  BY DEF TypeOK
<1>2. ban' = [ban EXCEPT ![r] = row]
  BY <1>1
<1>3. ban'[r] = row /\ \A i \in DOMAIN ban \ {r} : ban'[i] = ban[i]
  BY <1>1, <1>2
<1>4. row \in Row
  BY <1>1 DEF Row, States
<1>5. /\ row.state = "active" /\ row.approver = u
      /\ row.count = ban[r].count /\ row.sel = ban[r].sel
      /\ row.requester = ban[r].requester
  BY <1>1 DEF Row
<1>6. DOMAIN ban' = DOMAIN ban
  BY <1>2
<1> HIDE DEF row
<1>7. /\ [ban EXCEPT ![r] = row] \in Seq(Row)
      /\ Len([ban EXCEPT ![r] = row]) = Len(ban)
  BY <1>4, RowIs
<1>8. QED
  BY <1>2, <1>3, <1>5, <1>6, <1>7 DEF Becomes

LEMMA ResizeIs ==
    ASSUME TypeOK, NEW r \in DOMAIN ban, NEW n \in Nat,
           ban' = [ban EXCEPT ![r].count = n]
    PROVE  /\ DOMAIN ban' = DOMAIN ban
           /\ \A i \in DOMAIN ban \ {r} : ban'[i] = ban[i]
           /\ ban'[r].count = n /\ ban'[r].state = ban[r].state
           /\ ban'[r].approver = ban[r].approver /\ ban'[r].requester = ban[r].requester
           /\ ban' \in Seq(Row) /\ Len(ban') = Len(ban)
<1> DEFINE row == [ban[r] EXCEPT !.count = n]
<1>1. ban \in Seq(Row) /\ DOMAIN ban = 1..Len(ban) /\ ban[r] \in Row
  BY DEF TypeOK
<1>2. ban' = [ban EXCEPT ![r] = row]
  OBVIOUS
<1>3. ban'[r] = row /\ \A i \in DOMAIN ban \ {r} : ban'[i] = ban[i]
  BY <1>1, <1>2
<1>4. row \in Row
  BY <1>1 DEF Row
<1>5. /\ row.count = n /\ row.state = ban[r].state
      /\ row.approver = ban[r].approver /\ row.requester = ban[r].requester
  BY <1>1 DEF Row
<1>6. DOMAIN ban' = DOMAIN ban
  BY <1>2
<1> HIDE DEF row
<1>7. ban' \in Seq(Row) /\ Len(ban') = Len(ban)
  BY <1>2, <1>4, RowIs
<1>8. QED
  BY <1>3, <1>5, <1>6, <1>7

\* A row is added.
Grows(row) ==
    /\ DOMAIN ban' = DOMAIN ban \cup {Len(ban) + 1} /\ Len(ban) + 1 \notin DOMAIN ban
    /\ \A i \in DOMAIN ban : ban'[i] = ban[i]
    /\ ban'[Len(ban) + 1] = row

LEMMA AppendIs ==
    ASSUME TypeOK, NEW row \in Row, ban' = Append(ban, row)
    PROVE  Grows(row) /\ ban' \in Seq(Row) /\ Len(ban') = Len(ban) + 1
  BY AppendProperties DEF TypeOK, Grows

\* The quota's counters stay natural numbers.
LEMMA ReleaseType ==
    ASSUME TypeOK, NEW n \in Nat
    PROVE  /\ Release(n) \in Tracker
           /\ tracker.prefixes >= n => Release(n).prefixes = tracker.prefixes - n
<1>1. tracker.prefixes \in Nat /\ tracker.rules \in Nat
  BY DEF TypeOK, Tracker
<1>2. Max({0, tracker.prefixes - n}) \in Nat
  BY <1>1, MaxOfTwo
<1>3. Max({0, tracker.rules - 1}) \in Nat
  BY <1>1, MaxOfTwo
<1>4. tracker.prefixes >= n => Max({0, tracker.prefixes - n}) = tracker.prefixes - n
  BY <1>1, MaxOfTwo
<1>5. QED
  BY <1>2, <1>3, <1>4 DEF Release, Tracker

LEMMA ReserveType ==
    ASSUME TypeOK, NEW n \in Nat, Reserve(n, tracker')
    PROVE  /\ tracker' \in Tracker
           /\ tracker'.prefixes = tracker.prefixes + n
           /\ tracker'.prefixes <= HighWater
  BY DEF TypeOK, Reserve, Tracker

\* The rows are finitely many, so that their sizes have a sum.
LEMMA RowsFinite ==
    ASSUME TypeOK, NEW T \in SUBSET DOMAIN ban
    PROVE  IsFiniteSet(T)
<1>1. DOMAIN ban = 1..Len(ban) /\ Len(ban) \in Nat
  BY DEF TypeOK
<1>2. IsFiniteSet(1..Len(ban))
  BY <1>1, FS_Interval
<1>3. QED
  BY <1>1, <1>2, FS_Subset

LEMMA TotalType ==
    ASSUME TypeOK, NEW T \in SUBSET DOMAIN ban
    PROVE  Total(T) \in Nat
<1> DEFINE sizes == [i \in DOMAIN ban |-> ban[i].count]
<1>1. \A i \in T : sizes[i] \in Nat
  BY RowTypes
<1> HIDE DEF sizes
<1>2. SumFunctionOnSet(sizes, T) \in Nat
  BY <1>1, RowsFinite, SumOnSetNat
<1>3. QED
  BY <1>2 DEF Total, sizes

LEMMA RestoreType ==
    ASSUME TypeOK
    PROVE  RestoreQuota \in Tracker
<1>1. RulesWith({"pending", "active"}) \in SUBSET DOMAIN ban
  BY DEF RulesWith
<1>2. Total(RulesWith({"pending", "active"})) \in Nat
  BY <1>1, TotalType
<1>3. Cardinality(RulesWith({"pending", "active"})) \in Nat
  BY <1>1, RowsFinite, FS_CardinalityType
<1>4. QED
  BY <1>2, <1>3 DEF RestoreQuota, Tracker

-----------------------------------------------------------------------------
(* What each step does, and that the types are kept *)

LEMMA FaultIs ==
    ASSUME TypeOK, Fault
    PROVE  faults' \in 0..MaxFaults /\ faults' # 0
<1>1. MaxFaults \in Nat
  BY BoundAssumption
<1>2. QED
  BY <1>1 DEF TypeOK, Fault

LEMMA ReserveStep ==
    ASSUME TypeOK, NEW h \in Handlers, CreateReserve(h)
    PROVE  /\ TypeOK' /\ job[h].pc = "reserve"
           /\ UNCHANGED <<ban, dispatch, pdb, protected, faults, crashes, swaps, edits, astray>>
           /\ \/ /\ To(h, "insert") /\ job'[h] # NoJob
                 /\ tracker'.prefixes = tracker.prefixes + job[h].count
                 /\ tracker'.prefixes <= HighWater
              \/ Done(h) /\ UNCHANGED tracker
<1>1. /\ job[h].pc = "reserve"
      /\ UNCHANGED <<ban, dispatch, pdb, protected, faults, crashes, swaps, edits, astray>>
  BY DEF CreateReserve
<1>2. job[h].count \in Nat
  BY <1>1, JobTypes
<1>3. CASE Reserve(job[h].count, tracker') /\ Goto(h, "insert")
  <2>1. To(h, "insert") /\ job' \in [Handlers -> Job] /\ job'[h] # NoJob
    BY <1>1, <1>3, GotoIs DEF PCs
  <2>2. /\ tracker' \in Tracker
        /\ tracker'.prefixes = tracker.prefixes + job[h].count
        /\ tracker'.prefixes <= HighWater
    BY <1>2, <1>3, ReserveType
  <2>3. TypeOK'
    BY <1>1, <2>1, <2>2 DEF TypeOK
  <2>4. QED
    BY <1>1, <2>1, <2>2, <2>3
<1>4. CASE Finish(h) /\ UNCHANGED tracker
  <2>1. Done(h) /\ job' \in [Handlers -> Job]
    BY <1>4, FinishIs
  <2>2. TypeOK'
    BY <1>1, <1>4, <2>1 DEF TypeOK
  <2>3. QED
    BY <1>1, <1>4, <2>1, <2>2
<1>5. QED
  BY <1>3, <1>4 DEF CreateReserve

LEMMA InsertStep ==
    ASSUME TypeOK, NEW h \in Handlers, CreateInsert(h)
    PROVE  /\ TypeOK' /\ job[h].pc = "insert"
           /\ UNCHANGED <<dispatch, tracker, pdb, protected, crashes, swaps, edits, astray>>
           /\ \/ /\ Done(h) /\ UNCHANGED faults
                 /\ Grows(job[h].row)
              \/ /\ To(h, "release") /\ job'[h] # NoJob
                 /\ faults' # 0 /\ UNCHANGED ban
<1>1. /\ job[h].pc = "insert"
      /\ UNCHANGED <<dispatch, tracker, pdb, protected, crashes, swaps, edits, astray>>
  BY DEF CreateInsert
<1>2. job[h].row \in Row
  BY <1>1, JobTypes
<1>3. CASE Len(ban) < MaxBans /\ ban' = Append(ban, job[h].row) /\ Finish(h) /\ UNCHANGED faults
  <2>1. Done(h) /\ job' \in [Handlers -> Job]
    BY <1>3, FinishIs
  <2>2. Grows(job[h].row) /\ ban' \in Seq(Row) /\ Len(ban') = Len(ban) + 1
    BY <1>2, <1>3, AppendIs
  <2>3. Len(ban') <= MaxBans
    <3>1. MaxBans \in Nat
      BY BoundAssumption
    <3>2. Len(ban) \in Nat
      BY DEF TypeOK
    <3>3. QED
      BY <1>3, <2>2, <3>1, <3>2
  <2>4. TypeOK'
    BY <1>1, <1>3, <2>1, <2>2, <2>3 DEF TypeOK
  <2>5. QED
    BY <1>1, <1>3, <2>1, <2>2, <2>4
<1>4. CASE Fault /\ Goto(h, "release") /\ UNCHANGED ban
  <2>1. To(h, "release") /\ job' \in [Handlers -> Job] /\ job'[h] # NoJob
    BY <1>1, <1>4, GotoIs DEF PCs
  <2>2. faults' \in 0..MaxFaults /\ faults' # 0
    BY <1>4, FaultIs
  <2>3. TypeOK'
    BY <1>1, <1>4, <2>1, <2>2 DEF TypeOK
  <2>4. QED
    BY <1>1, <1>4, <2>1, <2>2, <2>3
<1>5. QED
  BY <1>3, <1>4 DEF CreateInsert

\* A handler that gives quota back and goes on at pc, or is done.
LEMMA ReleaseStep ==
    ASSUME TypeOK, NEW h \in Handlers, CreateRelease(h)
    PROVE  /\ TypeOK' /\ job[h].pc = "release" /\ Done(h)
           /\ tracker' = Release(job[h].count)
           /\ UNCHANGED <<ban, dispatch, pdb, protected, faults, crashes, swaps, edits, astray>>
<1>1. /\ job[h].pc = "release" /\ tracker' = Release(job[h].count)
      /\ UNCHANGED <<ban, dispatch, pdb, protected, faults, crashes, swaps, edits, astray>>
  BY DEF CreateRelease
<1>2. Done(h) /\ job' \in [Handlers -> Job]
  BY FinishIs DEF CreateRelease
<1>3. tracker' \in Tracker
  BY <1>1, JobTypes, ReleaseType
<1>4. QED
  BY <1>1, <1>2, <1>3 DEF TypeOK

LEMMA GiveBackStep ==
    ASSUME TypeOK, NEW h \in Handlers, GiveBack(h)
    PROVE  /\ TypeOK' /\ job[h].pc = "giveback" /\ Done(h)
           /\ tracker' = Release(job[h].row.count)
           /\ UNCHANGED <<ban, dispatch, pdb, protected, faults, crashes, swaps, edits, astray>>
<1>1. /\ job[h].pc = "giveback" /\ tracker' = Release(job[h].row.count)
      /\ UNCHANGED <<ban, dispatch, pdb, protected, faults, crashes, swaps, edits, astray>>
  BY DEF GiveBack
<1>2. Done(h) /\ job' \in [Handlers -> Job]
  BY FinishIs DEF GiveBack
<1>3. job[h].row.count \in Nat
  BY <1>1, JobTypes DEF Row
<1>4. tracker' \in Tracker
  BY <1>1, <1>3, ReleaseType
<1>5. QED
  BY <1>1, <1>2, <1>4 DEF TypeOK

LEMMA ReturnStep ==
    ASSUME TypeOK, NEW h \in Handlers, DriftReturn(h)
    PROVE  /\ TypeOK' /\ job[h].pc = "return" /\ To(h, "take") /\ job'[h] # NoJob
           /\ tracker' = Release(job[h].row.count)
           /\ UNCHANGED <<ban, dispatch, pdb, protected, faults, crashes, swaps, edits, astray>>
<1>1. /\ job[h].pc = "return" /\ tracker' = Release(job[h].row.count)
      /\ UNCHANGED <<ban, dispatch, pdb, protected, faults, crashes, swaps, edits, astray>>
  BY DEF DriftReturn
<1>2. To(h, "take") /\ job' \in [Handlers -> Job] /\ job'[h] # NoJob
  BY <1>1, GotoIs DEF DriftReturn, PCs
<1>3. job[h].row.count \in Nat
  BY <1>1, JobTypes DEF Row
<1>4. tracker' \in Tracker
  BY <1>1, <1>3, ReleaseType
<1>5. QED
  BY <1>1, <1>2, <1>4 DEF TypeOK

LEMMA TakeStep ==
    ASSUME TypeOK, NEW h \in Handlers, DriftTake(h)
    PROVE  /\ TypeOK' /\ job[h].pc = "take" /\ job'[h] # NoJob
           /\ UNCHANGED <<ban, dispatch, pdb, protected, faults, crashes, swaps, edits, astray>>
           /\ \/ /\ To(h, "resize")
                 /\ tracker'.prefixes = tracker.prefixes + job[h].count
                 /\ tracker'.prefixes <= HighWater
              \/ To(h, "restore") /\ UNCHANGED tracker
<1>1. /\ job[h].pc = "take"
      /\ UNCHANGED <<ban, dispatch, pdb, protected, faults, crashes, swaps, edits, astray>>
  BY DEF DriftTake
<1>2. job[h].count \in Nat
  BY <1>1, JobTypes
<1>3. CASE Reserve(job[h].count, tracker') /\ Goto(h, "resize")
  <2>1. To(h, "resize") /\ job' \in [Handlers -> Job] /\ job'[h] # NoJob
    BY <1>1, <1>3, GotoIs DEF PCs
  <2>2. /\ tracker' \in Tracker
        /\ tracker'.prefixes = tracker.prefixes + job[h].count
        /\ tracker'.prefixes <= HighWater
    BY <1>2, <1>3, ReserveType
  <2>3. TypeOK'
    BY <1>1, <2>1, <2>2 DEF TypeOK
  <2>4. QED
    BY <1>1, <2>1, <2>2, <2>3
<1>4. CASE Goto(h, "restore") /\ UNCHANGED tracker
  <2>1. To(h, "restore") /\ job' \in [Handlers -> Job] /\ job'[h] # NoJob
    BY <1>1, <1>4, GotoIs DEF PCs
  <2>2. TypeOK'
    BY <1>1, <1>4, <2>1 DEF TypeOK
  <2>3. QED
    BY <1>1, <1>4, <2>1, <2>2
<1>5. QED
  BY <1>3, <1>4 DEF DriftTake

LEMMA RestoreStep ==
    ASSUME TypeOK, NEW h \in Handlers, DriftRestore(h)
    PROVE  /\ TypeOK' /\ job[h].pc = "restore" /\ Done(h)
           /\ UNCHANGED <<ban, dispatch, pdb, protected, faults, crashes, swaps, edits>>
           /\ \/ /\ UNCHANGED astray
                 /\ tracker'.prefixes = tracker.prefixes + job[h].row.count
                 /\ tracker'.prefixes <= HighWater
              \/ astray' /\ UNCHANGED tracker
<1>1. /\ job[h].pc = "restore"
      /\ UNCHANGED <<ban, dispatch, pdb, protected, faults, crashes, swaps, edits>>
  BY DEF DriftRestore
<1>2. Done(h) /\ job' \in [Handlers -> Job]
  BY FinishIs DEF DriftRestore
<1>3. job[h].row.count \in Nat
  BY <1>1, JobTypes DEF Row
<1>4. CASE Reserve(job[h].row.count, tracker') /\ UNCHANGED astray
  <2>1. /\ tracker' \in Tracker
        /\ tracker'.prefixes = tracker.prefixes + job[h].row.count
        /\ tracker'.prefixes <= HighWater
    BY <1>3, <1>4, ReserveType
  <2>2. TypeOK'
    BY <1>1, <1>2, <1>4, <2>1 DEF TypeOK
  <2>3. QED
    BY <1>1, <1>2, <1>4, <2>1, <2>2
<1>5. CASE astray' = TRUE /\ UNCHANGED tracker
  <2>1. TypeOK'
    BY <1>1, <1>2, <1>5 DEF TypeOK
  <2>2. QED
    BY <1>1, <1>2, <1>5, <2>1
<1>6. QED
  BY <1>4, <1>5 DEF DriftRestore

LEMMA ResizeStep ==
    ASSUME TypeOK, IdInv, NEW h \in Handlers, DriftResize(h)
    PROVE  /\ TypeOK' /\ job[h].pc = "resize" /\ job[h].id \in DOMAIN ban
           /\ To(h, "guard") /\ job'[h] # NoJob /\ DOMAIN ban' = DOMAIN ban
           /\ UNCHANGED <<dispatch, tracker, pdb, protected, crashes, swaps, edits>>
           /\ \/ /\ UNCHANGED <<faults, astray>>
                 /\ \A i \in DOMAIN ban \ {job[h].id} : ban'[i] = ban[i]
                 /\ ban'[job[h].id].count = job[h].count
                 /\ ban'[job[h].id].state = ban[job[h].id].state
                 /\ ban'[job[h].id].approver = ban[job[h].id].approver
                 /\ ban'[job[h].id].requester = ban[job[h].id].requester
              \/ faults' # 0 /\ astray' /\ UNCHANGED ban
<1>1. /\ job[h].pc = "resize"
      /\ UNCHANGED <<dispatch, tracker, pdb, protected, crashes, swaps, edits>>
  BY DEF DriftResize
<1>2. To(h, "guard") /\ job' \in [Handlers -> Job] /\ job'[h] # NoJob
  BY <1>1, GotoIs DEF DriftResize, PCs
<1>3. job[h].id \in DOMAIN ban
  BY <1>1 DEF IdInv, At, Handling, Deciders, Sizing
<1>4. job[h].count \in Nat
  BY <1>1, JobTypes
<1>5. CASE ban' = [ban EXCEPT ![job[h].id].count = job[h].count] /\ UNCHANGED <<faults, astray>>
  <2>1. ban' \in Seq(Row) /\ Len(ban') = Len(ban) /\ DOMAIN ban' = DOMAIN ban
    BY <1>3, <1>4, <1>5, ResizeIs
  <2>2. TypeOK'
    BY <1>1, <1>2, <1>5, <2>1 DEF TypeOK
  <2>3. QED
    BY <1>1, <1>2, <1>3, <1>4, <1>5, <2>2, ResizeIs
<1>6. CASE Fault /\ astray' = TRUE /\ UNCHANGED ban
  <2>1. faults' \in 0..MaxFaults /\ faults' # 0
    BY <1>6, FaultIs
  <2>2. TypeOK'
    BY <1>1, <1>2, <1>6, <2>1 DEF TypeOK
  <2>3. QED
    BY <1>1, <1>2, <1>3, <1>6, <2>1, <2>2
<1>7. QED
  BY <1>5, <1>6 DEF DriftResize

LEMMA CheckStep ==
    ASSUME TypeOK, NEW h \in Handlers, SafetyCheck(h)
    PROVE  /\ TypeOK' /\ job[h].pc = "guard" /\ job'[h] # NoJob
           /\ To(h, "lookup") \/ To(h, "block")
           /\ UNCHANGED faults \/ faults' # 0
           /\ UNCHANGED <<ban, dispatch, tracker, pdb, protected, crashes, swaps, edits, astray>>
<1>1. /\ job[h].pc = "guard"
      /\ UNCHANGED <<ban, dispatch, tracker, pdb, protected, crashes, swaps, edits, astray>>
  BY DEF SafetyCheck
<1>2. /\ UNCHANGED faults \/ Fault
      /\ Goto(h, "lookup") \/ Goto(h, "block")
  BY DEF SafetyCheck, ReadProtected
<1>3. /\ To(h, "lookup") \/ To(h, "block")
      /\ job' \in [Handlers -> Job] /\ job'[h] # NoJob
  <2>1. CASE Goto(h, "lookup")
    BY <1>1, <2>1, GotoIs DEF PCs
  <2>2. CASE Goto(h, "block")
    BY <1>1, <2>2, GotoIs DEF PCs
  <2>3. QED
    BY <1>2, <2>1, <2>2
<1>4. faults' \in 0..MaxFaults /\ (UNCHANGED faults \/ faults' # 0)
  <2>1. CASE UNCHANGED faults
    BY <2>1 DEF TypeOK
  <2>2. CASE Fault
    BY <2>2, FaultIs
  <2>3. QED
    BY <1>2, <2>1, <2>2
<1>5. TypeOK'
  BY <1>1, <1>3, <1>4 DEF TypeOK
<1>6. QED
  BY <1>1, <1>3, <1>4, <1>5

LEMMA BlockStep ==
    ASSUME TypeOK, IdInv, NEW h \in Handlers, SafetyBlock(h)
    PROVE  /\ TypeOK' /\ job[h].pc = "block" /\ job[h].id \in DOMAIN ban /\ Done(h)
           /\ UNCHANGED <<dispatch, tracker, pdb, protected, crashes, swaps, edits, astray>>
           /\ \/ /\ UNCHANGED faults
                 /\ Becomes(job[h].id, "safety_blocked", ban[job[h].id].approver)
              \/ faults' # 0 /\ UNCHANGED ban
<1>1. /\ job[h].pc = "block"
      /\ UNCHANGED <<dispatch, tracker, pdb, protected, crashes, swaps, edits, astray>>
  BY DEF SafetyBlock
<1>2. Done(h) /\ job' \in [Handlers -> Job]
  BY FinishIs DEF SafetyBlock
<1>3. job[h].id \in DOMAIN ban
  BY <1>1 DEF IdInv, At, Handling, Ordering
<1>4. CASE ban' = [ban EXCEPT ![job[h].id].state = "safety_blocked"] /\ UNCHANGED faults
  <2>1. "safety_blocked" \in States
    BY DEF States
  <2>2. /\ ban' \in Seq(Row) /\ Len(ban') = Len(ban)
        /\ Becomes(job[h].id, "safety_blocked", ban[job[h].id].approver)
    BY <1>3, <1>4, <2>1, StateIs
  <2>3. TypeOK'
    BY <1>1, <1>2, <1>4, <2>2 DEF TypeOK
  <2>4. QED
    BY <1>1, <1>2, <1>3, <1>4, <2>2, <2>3
<1>5. CASE Fault /\ UNCHANGED ban
  <2>1. faults' \in 0..MaxFaults /\ faults' # 0
    BY <1>5, FaultIs
  <2>2. TypeOK'
    BY <1>1, <1>2, <1>5, <2>1 DEF TypeOK
  <2>3. QED
    BY <1>1, <1>2, <1>3, <1>5, <2>1, <2>2
<1>6. QED
  BY <1>4, <1>5 DEF SafetyBlock

LEMMA LookupStep ==
    ASSUME TypeOK, NEW h \in Handlers, DispatchLookup(h)
    PROVE  /\ TypeOK' /\ job[h].pc = "lookup"
           /\ \/ Done(h) /\ \E d \in dispatch : d.ban = job[h].id
              \/ To(h, "dispatch") /\ job'[h] # NoJob
           /\ UNCHANGED faults \/ faults' # 0
           /\ UNCHANGED <<ban, dispatch, tracker, pdb, protected, crashes, swaps, edits, astray>>
<1>1. /\ job[h].pc = "lookup"
      /\ UNCHANGED <<ban, dispatch, tracker, pdb, protected, crashes, swaps, edits, astray>>
  BY DEF DispatchLookup
<1>2. /\ UNCHANGED faults \/ Fault
      /\ \/ Goto(h, "dispatch")
         \/ Finish(h) /\ \E d \in dispatch : d.ban = job[h].id
  <2> DEFINE found == \E d \in dispatch : d.ban = job[h].id
  <2>1. \/ found /\ Finish(h) /\ UNCHANGED faults
        \/ Goto(h, "dispatch") /\ UNCHANGED faults
        \/ Fault /\ Goto(h, "dispatch")
    BY DEF DispatchLookup
  <2> HIDE DEF found
  <2>2. QED
    <3>1. found => \E d \in dispatch : d.ban = job[h].id
      BY DEF found
    <3>2. QED
      BY <2>1, <3>1
<1>3. /\ \/ Done(h) /\ \E d \in dispatch : d.ban = job[h].id
         \/ To(h, "dispatch") /\ job'[h] # NoJob
      /\ job' \in [Handlers -> Job]
  <2>1. CASE Goto(h, "dispatch")
    BY <1>1, <2>1, GotoIs DEF PCs
  <2>2. CASE Finish(h) /\ \E d \in dispatch : d.ban = job[h].id
    BY <2>2, FinishIs
  <2>3. QED
    BY <1>2, <2>1, <2>2
<1>4. faults' \in 0..MaxFaults /\ (UNCHANGED faults \/ faults' # 0)
  <2>1. CASE UNCHANGED faults
    BY <2>1 DEF TypeOK
  <2>2. CASE Fault
    BY <2>2, FaultIs
  <2>3. QED
    BY <1>2, <2>1, <2>2
<1>5. TypeOK'
  BY <1>1, <1>3, <1>4 DEF TypeOK
<1>6. QED
  BY <1>1, <1>3, <1>4, <1>5

LEMMA DispatchStep ==
    ASSUME TypeOK, IdInv, NEW h \in Handlers, CreateScopedDispatch(h)
    PROVE  /\ TypeOK' /\ job[h].pc = "dispatch" /\ job[h].id \in DOMAIN ban /\ Done(h)
           /\ UNCHANGED <<ban, tracker, pdb, protected, crashes, swaps, edits, astray>>
           /\ \/ /\ UNCHANGED faults
                 /\ dispatch' = dispatch \cup {[ban |-> job[h].id, count |-> job[h].count]}
              \/ faults' # 0 /\ UNCHANGED dispatch
<1>1. /\ job[h].pc = "dispatch"
      /\ UNCHANGED <<ban, tracker, pdb, protected, crashes, swaps, edits, astray>>
  BY DEF CreateScopedDispatch
<1>2. Done(h) /\ job' \in [Handlers -> Job]
  BY FinishIs DEF CreateScopedDispatch
<1>3. job[h].id \in DOMAIN ban
  BY <1>1 DEF IdInv, At, Handling, Ordering
<1>4. CASE /\ dispatch' = dispatch \cup {[ban |-> job[h].id, count |-> job[h].count]}
           /\ UNCHANGED faults
  <2>1. job[h].id \in 1..MaxBans /\ job[h].count \in Nat
    BY <1>1, <1>3, JobTypes, RowTypes
  <2>2. dispatch' \in SUBSET Dispatch
    BY <1>4, <2>1 DEF TypeOK, Dispatch
  <2>3. TypeOK'
    BY <1>1, <1>2, <1>4, <2>2 DEF TypeOK
  <2>4. QED
    BY <1>1, <1>2, <1>3, <1>4, <2>3
<1>5. CASE Fault /\ UNCHANGED dispatch
  <2>1. faults' \in 0..MaxFaults /\ faults' # 0
    BY <1>5, FaultIs
  <2>2. TypeOK'
    BY <1>1, <1>2, <1>5, <2>1 DEF TypeOK
  <2>3. QED
    BY <1>1, <1>2, <1>3, <1>5, <2>1, <2>2
<1>6. QED
  BY <1>4, <1>5 DEF CreateScopedDispatch

LEMMA CloseStep ==
    ASSUME TypeOK, IdInv, NEW h \in Handlers, NEW pc \in {"reject", "revoke"},
           NEW state \in States, Close(h, pc, state)
    PROVE  /\ TypeOK' /\ job[h].pc = pc /\ job[h].id \in DOMAIN ban
           /\ To(h, "giveback") /\ job'[h] # NoJob
           /\ UNCHANGED <<dispatch, tracker, pdb, protected, crashes, swaps, edits>>
           /\ \/ /\ UNCHANGED <<faults, astray>>
                 /\ Becomes(job[h].id, state, ban[job[h].id].approver)
              \/ faults' # 0 /\ astray' /\ UNCHANGED ban
<1>1. /\ job[h].pc = pc
      /\ UNCHANGED <<dispatch, tracker, pdb, protected, crashes, swaps, edits>>
  BY DEF Close
<1>2. To(h, "giveback") /\ job' \in [Handlers -> Job] /\ job'[h] # NoJob
  BY <1>1, GotoIs DEF Close, PCs
<1>3. job[h].id \in DOMAIN ban
  BY <1>1 DEF IdInv, At, Handling, Deciders
<1>4. CASE ban' = [ban EXCEPT ![job[h].id].state = state] /\ UNCHANGED <<faults, astray>>
  <2>1. /\ ban' \in Seq(Row) /\ Len(ban') = Len(ban)
        /\ Becomes(job[h].id, state, ban[job[h].id].approver)
    BY <1>3, <1>4, StateIs
  <2>2. TypeOK'
    BY <1>1, <1>2, <1>4, <2>1 DEF TypeOK
  <2>3. QED
    BY <1>1, <1>2, <1>3, <1>4, <2>1, <2>2
<1>5. CASE Fault /\ astray' = TRUE /\ UNCHANGED ban
  <2>1. faults' \in 0..MaxFaults /\ faults' # 0
    BY <1>5, FaultIs
  <2>2. TypeOK'
    BY <1>1, <1>2, <1>5, <2>1 DEF TypeOK
  <2>3. QED
    BY <1>1, <1>2, <1>3, <1>5, <2>1, <2>2
<1>6. QED
  BY <1>4, <1>5 DEF Close

LEMMA ActivateStep ==
    ASSUME TypeOK, IdInv, NEW h \in Handlers, ApproveUpdate(h)
    PROVE  /\ TypeOK' /\ job[h].pc = "activate" /\ job[h].id \in DOMAIN ban
           /\ UNCHANGED <<dispatch, tracker, pdb, protected, crashes, swaps, edits, astray>>
           /\ \/ /\ To(h, "resolve") /\ job'[h] # NoJob /\ UNCHANGED faults
                 /\ Becomes(job[h].id, "active", job[h].row.approver)
              \/ Done(h) /\ faults' # 0 /\ UNCHANGED ban
<1>1. /\ job[h].pc = "activate"
      /\ UNCHANGED <<dispatch, tracker, pdb, protected, crashes, swaps, edits, astray>>
  BY DEF ApproveUpdate
<1>2. job[h].id \in DOMAIN ban
  BY <1>1 DEF IdInv, At, Handling, Deciders
<1>3. job[h].row.approver \in Users \cup {NoUser}
  BY <1>1, JobTypes DEF Row
<1>4. CASE /\ ban' = [ban EXCEPT ![job[h].id].state = "active",
                                 ![job[h].id].approver = job[h].row.approver]
           /\ Goto(h, "resolve") /\ UNCHANGED faults
  <2>1. To(h, "resolve") /\ job' \in [Handlers -> Job] /\ job'[h] # NoJob
    BY <1>1, <1>4, GotoIs DEF PCs
  <2>2. /\ Becomes(job[h].id, "active", job[h].row.approver)
        /\ ban' \in Seq(Row) /\ Len(ban') = Len(ban)
    BY <1>2, <1>3, <1>4, ActivationIs
  <2>3. TypeOK'
    BY <1>1, <1>4, <2>1, <2>2 DEF TypeOK
  <2>4. QED
    BY <1>1, <1>2, <1>4, <2>1, <2>2, <2>3
<1>5. CASE Fault /\ Finish(h) /\ UNCHANGED ban
  <2>1. faults' \in 0..MaxFaults /\ faults' # 0
    BY <1>5, FaultIs
  <2>2. Done(h) /\ job' \in [Handlers -> Job]
    BY <1>5, FinishIs
  <2>3. TypeOK'
    BY <1>1, <1>5, <2>1, <2>2 DEF TypeOK
  <2>4. QED
    BY <1>1, <1>2, <1>5, <2>1, <2>2, <2>3
<1>6. QED
  BY <1>4, <1>5 DEF ApproveUpdate

LEMMA ResolveStep ==
    ASSUME TypeOK, NEW h \in Handlers, ApproveResolve(h)
    PROVE  /\ TypeOK' /\ job[h].pc = "resolve"
           /\ UNCHANGED <<ban, dispatch, tracker, pdb, protected, faults, crashes, swaps,
                          edits, astray>>
           /\ \/ pdb = NoDB /\ Done(h)
              \/ /\ pdb # NoDB /\ job'[h] # NoJob
                 /\ \A g \in Handlers \ {h} : job'[g] = job[g]
                 /\ job'[h].id = job[h].id /\ job'[h].row = job[h].row
                 /\ job'[h].count = Size[pdb][job[h].row.sel]
                 /\ \/ job'[h].pc = "guard" /\ job'[h].count = job[h].row.count
                    \/ job'[h].pc = "return" /\ job'[h].count # job[h].row.count
<1>1. /\ job[h].pc = "resolve"
      /\ UNCHANGED <<ban, dispatch, tracker, pdb, protected, faults, crashes, swaps,
                     edits, astray>>
  BY DEF ApproveResolve
<1>2. CASE pdb = NoDB /\ Finish(h)
  <2>1. Done(h) /\ job' \in [Handlers -> Job]
    BY <1>2, FinishIs
  <2>2. TypeOK'
    BY <1>1, <2>1 DEF TypeOK
  <2>3. QED
    BY <1>1, <1>2, <2>1, <2>2
<1> DEFINE n == Size[pdb][job[h].row.sel]
           pc == IF n = job[h].row.count THEN "guard" ELSE "return"
<1>3. CASE pdb # NoDB /\ job' = [job EXCEPT ![h].count = n, ![h].pc = pc]
  <2>1. job \in [Handlers -> Job] /\ job[h] # NoJob
    BY <1>1, JobTypes DEF TypeOK, NoJob
  <2>2. job[h] \in [pc: PCs \ {"idle"}, id: 0..MaxBans, row: Row, count: Nat]
    BY <2>1 DEF Job
  <2>3. n \in Nat
    <3>1. pdb \in Versions /\ job[h].row.sel \in Selectors
      BY <1>3, <2>2 DEF TypeOK, Row
    <3>2. QED
      BY <3>1, SizeAssumption
  <2>4. pc \in PCs \ {"idle"} /\ (pc = "guard" <=> n = job[h].row.count)
        /\ pc \in {"guard", "return"}
    BY DEF PCs
  <2> HIDE DEF n, pc
  <2>5. job' = [job EXCEPT ![h] = [job[h] EXCEPT !.count = n, !.pc = pc]]
    BY <1>3
  <2>6. job'[h] = [job[h] EXCEPT !.count = n, !.pc = pc]
    BY <2>1, <2>5
  <2>7. job'[h] \in [pc: PCs \ {"idle"}, id: 0..MaxBans, row: Row, count: Nat]
    BY <2>2, <2>3, <2>4, <2>6
  <2>8. /\ job'[h].pc = pc /\ job'[h].id = job[h].id
        /\ job'[h].row = job[h].row /\ job'[h].count = n
    BY <2>2, <2>6
  <2>9. job'[h] # NoJob
    BY <2>4, <2>8 DEF NoJob
  <2>10. job'[h] \in Job
    BY <2>7 DEF Job
  <2>11. job' \in [Handlers -> Job] /\ \A g \in Handlers \ {h} : job'[g] = job[g]
    BY <2>1, <2>5, <2>6, <2>10
  <2>12. TypeOK'
    BY <1>1, <2>11 DEF TypeOK
  <2>13. QED
    BY <1>1, <1>3, <2>4, <2>8, <2>9, <2>11, <2>12 DEF n
<1>4. QED
  BY <1>2, <1>3 DEF ApproveResolve

LEMMA CreateStep ==
    ASSUME TypeOK, NEW h \in Handlers, NEW u \in Users, NEW host \in Hosts,
           NEW s \in Selectors, NEW ack \in BOOLEAN, ScopedBanCreate(h, u, host, s, ack)
    PROVE  /\ TypeOK' /\ job[h].pc = "idle" /\ pdb # NoDB
           /\ UNCHANGED faults \/ faults' # 0
           /\ UNCHANGED <<ban, dispatch, tracker, pdb, protected, crashes, swaps, edits, astray>>
           /\ \A g \in Handlers \ {h} : job'[g] = job[g]
           /\ job'[h].pc = "reserve" /\ job'[h].id = 0 /\ job'[h] # NoJob
           /\ job'[h].row.count = job'[h].count
           /\ job'[h].row.count = Size[pdb][job'[h].row.sel]
           /\ job'[h].row.state = "pending" /\ job'[h].row.approver = NoUser
<1> DEFINE n == Size[pdb][s]
           row == [host |-> host, sel |-> s, count |-> n, state |-> "pending",
                   requester |-> u, approver |-> NoUser]
<1>1. /\ job[h] = NoJob /\ pdb # NoDB
      /\ UNCHANGED faults \/ Fault
      /\ UNCHANGED <<ban, dispatch, tracker, pdb, protected, crashes, swaps, edits, astray>>
      /\ job' = [job EXCEPT ![h] = [pc |-> "reserve", id |-> 0, row |-> row, count |-> n]]
  BY DEF ScopedBanCreate, ReadProtected
<1>2. n \in Nat
  <2>1. pdb \in Versions
    BY <1>1 DEF TypeOK
  <2>2. QED
    BY <2>1, SizeAssumption
<1>3. row \in Row
  BY <1>2 DEF Row, States
<1>4. /\ row.count = n /\ row.sel = s /\ row.state = "pending" /\ row.approver = NoUser
  OBVIOUS
<1>5. 0 \in 0..MaxBans
  <2>1. MaxBans \in Nat
    BY BoundAssumption
  <2>2. QED
    BY <2>1
<1>6. n = Size[pdb][s]
  OBVIOUS
<1>7. "reserve" \in PCs \ {"idle"}
  BY DEF PCs
<1> HIDE DEF n, row
<1>8. /\ \A g \in Handlers \ {h} : job'[g] = job[g]
      /\ job'[h].pc = "reserve" /\ job'[h].id = 0
      /\ job'[h].row = row /\ job'[h].count = n /\ job'[h] # NoJob
      /\ job' \in [Handlers -> Job]
  BY <1>1, <1>2, <1>3, <1>5, <1>7, StartIs
<1>12. faults' \in 0..MaxFaults /\ (UNCHANGED faults \/ faults' # 0)
  BY <1>1, FaultIs DEF TypeOK
<1>9. TypeOK'
  BY <1>1, <1>8, <1>12 DEF TypeOK
<1>10. job[h].pc = "idle"
  BY <1>1 DEF NoJob
<1>11. QED
  BY <1>1, <1>4, <1>6, <1>8, <1>9, <1>10, <1>12

\* A handler begins to decide about rule r, which is in the given state.
Begins(h, r, state, pc, approver) ==
    /\ job[h].pc = "idle" /\ r \in DOMAIN ban /\ ban[r].state = state
    /\ UNCHANGED <<ban, dispatch, tracker, pdb, protected, faults, crashes, swaps, edits>>
    /\ \A g \in Handlers \ {h} : job'[g] = job[g]
    /\ job'[h].pc = pc /\ job'[h].id = r /\ job'[h] # NoJob
    /\ job'[h].row.count = ban[r].count /\ job'[h].row.sel = ban[r].sel
    /\ job'[h].row.approver = approver
    /\ ~astray' => ~astray /\ \A g \in At(Deciders) : job[g].id # r

LEMMA DecideStep ==
    ASSUME TypeOK, NEW h \in Handlers, NEW u \in Users, NEW r \in 1..MaxBans,
           NEW state, NEW pc \in {"activate", "reject", "revoke"},
           NEW approver \in Users \cup {NoUser}, Decide(h, u, r, state, pc, approver)
    PROVE  TypeOK' /\ Begins(h, r, state, pc, approver)
<1> DEFINE row == [ban[r] EXCEPT !.approver = approver]
<1>1. /\ job[h] = NoJob /\ r \in DOMAIN ban /\ ban[r].state = state
      /\ UNCHANGED <<ban, dispatch, tracker, pdb, protected, faults, crashes, swaps, edits>>
      /\ job' = [job EXCEPT ![h] = [pc |-> pc, id |-> r, row |-> row, count |-> 0]]
      /\ astray' = (astray \/ Deciding(r))
  BY DEF Decide
<1>2. ban[r] \in Row
  BY <1>1, RowTypes
<1>3. row \in Row /\ row.count = ban[r].count /\ row.sel = ban[r].sel /\ row.approver = approver
  BY <1>2 DEF Row
<1>4. r \in 0..MaxBans
  <2>1. MaxBans \in Nat
    BY BoundAssumption
  <2>2. QED
    BY <2>1
<1>5. pc \in PCs \ {"idle"}
  BY DEF PCs
<1> HIDE DEF row
<1>6. /\ \A g \in Handlers \ {h} : job'[g] = job[g]
      /\ job'[h].pc = pc /\ job'[h].id = r /\ job'[h].row = row /\ job'[h] # NoJob
      /\ job' \in [Handlers -> Job]
  BY <1>1, <1>3, <1>4, <1>5, StartIs
<1>7. astray' \in BOOLEAN
  BY <1>1 DEF TypeOK
<1>8. TypeOK'
  BY <1>1, <1>6, <1>7 DEF TypeOK
<1>9. ~astray' => ~astray /\ \A g \in At(Deciders) : job[g].id # r
  BY <1>1 DEF Deciding, At, Deciders, Sizing
<1>10. job[h].pc = "idle"
  BY <1>1 DEF NoJob
<1>11. QED
  BY <1>1, <1>3, <1>6, <1>8, <1>9, <1>10 DEF Begins

LEMMA SwapStep ==
    ASSUME TypeOK, NEW v \in Versions, SetGlobal(v)
    PROVE  /\ TypeOK' /\ swaps' # 0
           /\ UNCHANGED <<ban, dispatch, tracker, protected, job, faults, crashes, edits, astray>>
<1>1. MaxSwaps \in Nat
  BY BoundAssumption
<1>2. swaps \in Nat /\ swaps' \in 0..MaxSwaps /\ swaps' # 0
  BY <1>1 DEF TypeOK, SetGlobal
<1>3. QED
  BY <1>2 DEF TypeOK, SetGlobal

LEMMA EditStep ==
    ASSUME TypeOK, NEW host \in Hosts, EditProtected(host)
    PROVE  /\ TypeOK'
           /\ UNCHANGED <<ban, dispatch, tracker, pdb, job, faults, crashes, swaps, astray>>
<1>1. MaxEdits \in Nat
  BY BoundAssumption
<1>2. edits' \in 0..MaxEdits
  BY <1>1 DEF TypeOK, EditProtected
<1>3. protected' \in SUBSET Hosts
  BY DEF TypeOK, EditProtected
<1>4. QED
  BY <1>2, <1>3 DEF TypeOK, EditProtected

LEMMA RestartStep ==
    ASSUME TypeOK, NEW v \in Versions \cup {NoDB}, Restart(v)
    PROVE  /\ TypeOK' /\ crashes' # 0
           /\ \A h \in Handlers : job'[h] = NoJob /\ job'[h].pc = "idle"
           /\ UNCHANGED <<ban, dispatch, protected, faults, swaps, edits>>
           /\ ~astray' => /\ ~astray /\ At({"take", "restore", "resize"}) = {}
                          /\ tracker' = RestoreQuota
<1>1. MaxCrashes \in Nat
  BY BoundAssumption
<1>2. crashes' \in 0..MaxCrashes /\ crashes' # 0
  BY <1>1 DEF TypeOK, Restart
<1>3. tracker' \in Tracker
  BY RestoreType DEF Restart, NoQuota, Tracker
<1>4. /\ job' \in [Handlers -> Job]
      /\ \A h \in Handlers : job'[h] = NoJob /\ job'[h].pc = "idle"
  BY DEF Restart, Job, NoJob
<1>5. /\ astray' \in BOOLEAN
      /\ ~astray' => /\ ~astray /\ At({"take", "restore", "resize"}) = {}
                     /\ tracker' = RestoreQuota
  BY DEF TypeOK, Restart, At
<1>6. pdb' \in Versions \cup {NoDB}
  BY DEF Restart
<1>7. UNCHANGED <<ban, dispatch, protected, faults, swaps, edits>>
  BY DEF Restart
<1>8. TypeOK'
  BY <1>2, <1>3, <1>4, <1>5, <1>6, <1>7 DEF TypeOK
<1>9. QED
  BY <1>2, <1>3, <1>4, <1>5, <1>7, <1>8

LEMMA RejectStep ==
    ASSUME TypeOK, IdInv, NEW h \in Handlers, RejectUpdate(h)
    PROVE  /\ TypeOK' /\ job[h].pc = "reject" /\ job[h].id \in DOMAIN ban
           /\ To(h, "giveback") /\ job'[h] # NoJob
           /\ UNCHANGED <<dispatch, tracker, pdb, protected, crashes, swaps, edits>>
           /\ \/ /\ UNCHANGED <<faults, astray>>
                 /\ Becomes(job[h].id, "rejected", ban[job[h].id].approver)
              \/ faults' # 0 /\ astray' /\ UNCHANGED ban
<1>1. "rejected" \in States /\ "reject" \in {"reject", "revoke"}
  BY DEF States
<1>2. QED
  BY <1>1, CloseStep DEF RejectUpdate

LEMMA RevokeStep ==
    ASSUME TypeOK, IdInv, NEW h \in Handlers, RevokeUpdate(h)
    PROVE  /\ TypeOK' /\ job[h].pc = "revoke" /\ job[h].id \in DOMAIN ban
           /\ To(h, "giveback") /\ job'[h] # NoJob
           /\ UNCHANGED <<dispatch, tracker, pdb, protected, crashes, swaps, edits>>
           /\ \/ /\ UNCHANGED <<faults, astray>>
                 /\ Becomes(job[h].id, "revoked", ban[job[h].id].approver)
              \/ faults' # 0 /\ astray' /\ UNCHANGED ban
<1>1. "revoked" \in States /\ "revoke" \in {"reject", "revoke"}
  BY DEF States
<1>2. QED
  BY <1>1, CloseStep DEF RevokeUpdate

LEMMA ApproveStep ==
    ASSUME TypeOK, NEW h \in Handlers, NEW u \in Users, NEW r \in 1..MaxBans,
           ScopedBanApprove(h, u, r)
    PROVE  TypeOK' /\ Begins(h, r, "pending", "activate", u) /\ ban[r].requester # u
<1>1. Decide(h, u, r, "pending", "activate", u) /\ ban[r].requester # u
  BY DEF ScopedBanApprove
<1>2. "activate" \in {"activate", "reject", "revoke"} /\ u \in Users \cup {NoUser}
  OBVIOUS
<1>3. QED
  BY <1>1, <1>2, DecideStep

LEMMA RefuseStep ==
    ASSUME TypeOK, NEW h \in Handlers, NEW u \in Users, NEW r \in 1..MaxBans,
           ScopedBanReject(h, u, r)
    PROVE  TypeOK' /\ Begins(h, r, "pending", "reject", NoUser)
<1>1. Decide(h, u, r, "pending", "reject", NoUser)
  BY DEF ScopedBanReject
<1>2. "reject" \in {"activate", "reject", "revoke"} /\ NoUser \in Users \cup {NoUser}
  OBVIOUS
<1>3. QED
  BY <1>1, <1>2, DecideStep

LEMMA WithdrawStep ==
    ASSUME TypeOK, NEW h \in Handlers, NEW u \in Users, NEW r \in 1..MaxBans,
           ScopedBanRevoke(h, u, r)
    PROVE  TypeOK' /\ Begins(h, r, "active", "revoke", NoUser)
<1>1. Decide(h, u, r, "active", "revoke", NoUser)
  BY DEF ScopedBanRevoke
<1>2. "revoke" \in {"activate", "reject", "revoke"} /\ NoUser \in Users \cup {NoUser}
  OBVIOUS
<1>3. QED
  BY <1>1, <1>2, DecideStep

LEMMA TypeKept ==
    ASSUME IInv, [Next]_vars
    PROVE  TypeOK'
<1>1. ASSUME NEW h \in Handlers, CreateReserve(h) PROVE TypeOK'
  BY <1>1, ReserveStep DEF IInv
<1>2. ASSUME NEW h \in Handlers, CreateInsert(h) PROVE TypeOK'
  BY <1>2, InsertStep DEF IInv
<1>3. ASSUME NEW h \in Handlers, CreateRelease(h) PROVE TypeOK'
  BY <1>3, ReleaseStep DEF IInv
<1>4. ASSUME NEW h \in Handlers, ApproveUpdate(h) PROVE TypeOK'
  BY <1>4, ActivateStep DEF IInv
<1>5. ASSUME NEW h \in Handlers, ApproveResolve(h) PROVE TypeOK'
  BY <1>5, ResolveStep DEF IInv
<1>6. ASSUME NEW h \in Handlers, DriftReturn(h) PROVE TypeOK'
  BY <1>6, ReturnStep DEF IInv
<1>7. ASSUME NEW h \in Handlers, DriftTake(h) PROVE TypeOK'
  BY <1>7, TakeStep DEF IInv
<1>8. ASSUME NEW h \in Handlers, DriftRestore(h) PROVE TypeOK'
  BY <1>8, RestoreStep DEF IInv
<1>9. ASSUME NEW h \in Handlers, DriftResize(h) PROVE TypeOK'
  BY <1>9, ResizeStep DEF IInv
<1>10. ASSUME NEW h \in Handlers, SafetyCheck(h) PROVE TypeOK'
  BY <1>10, CheckStep DEF IInv
<1>11. ASSUME NEW h \in Handlers, SafetyBlock(h) PROVE TypeOK'
  BY <1>11, BlockStep DEF IInv
<1>12. ASSUME NEW h \in Handlers, DispatchLookup(h) PROVE TypeOK'
  BY <1>12, LookupStep DEF IInv
<1>13. ASSUME NEW h \in Handlers, CreateScopedDispatch(h) PROVE TypeOK'
  BY <1>13, DispatchStep DEF IInv
<1>14. ASSUME NEW h \in Handlers, RejectUpdate(h) PROVE TypeOK'
  BY <1>14, RejectStep DEF IInv
<1>15. ASSUME NEW h \in Handlers, RevokeUpdate(h) PROVE TypeOK'
  BY <1>15, RevokeStep DEF IInv
<1>16. ASSUME NEW h \in Handlers, GiveBack(h) PROVE TypeOK'
  BY <1>16, GiveBackStep DEF IInv
<1>17. ASSUME NEW h \in Handlers, NEW u \in Users, NEW host \in Hosts,
              NEW s \in Selectors, NEW ack \in BOOLEAN,
            ScopedBanCreate(h, u, host, s, ack)
      PROVE  TypeOK'
  BY <1>17, CreateStep DEF IInv
<1>18. ASSUME NEW h \in Handlers, NEW u \in Users,
              NEW r \in 1..MaxBans, ScopedBanApprove(h, u, r)
      PROVE  TypeOK'
  BY <1>18, ApproveStep DEF IInv
<1>19. ASSUME NEW h \in Handlers, NEW u \in Users,
              NEW r \in 1..MaxBans, ScopedBanReject(h, u, r)
      PROVE  TypeOK'
  BY <1>19, RefuseStep DEF IInv
<1>20. ASSUME NEW h \in Handlers, NEW u \in Users,
              NEW r \in 1..MaxBans, ScopedBanRevoke(h, u, r)
      PROVE  TypeOK'
  BY <1>20, WithdrawStep DEF IInv
<1>21. ASSUME NEW v \in Versions, SetGlobal(v) PROVE TypeOK'
  BY <1>21, SwapStep DEF IInv
<1>22. ASSUME NEW host \in Hosts, EditProtected(host) PROVE TypeOK'
  BY <1>22, EditStep DEF IInv
<1>23. ASSUME NEW v \in Versions \cup {NoDB}, Restart(v) PROVE TypeOK'
  BY <1>23, RestartStep DEF IInv
<1>24. CASE UNCHANGED vars
  BY <1>24 DEF vars, IInv, TypeOK
<1>25. QED
  BY <1>1, <1>2, <1>3, <1>4, <1>5, <1>6, <1>7, <1>8, <1>9,
     <1>10, <1>11, <1>12, <1>13, <1>14, <1>15, <1>16, <1>17, <1>18,
     <1>19, <1>20, <1>21, <1>22, <1>23, <1>24
     DEF Next, Step, Arrive

-----------------------------------------------------------------------------
(* Rules and the handlers at work on them *)

LEMMA IdKept ==
    ASSUME IInv, [Next]_vars
    PROVE  IdInv'
<1> USE DEF IInv, IdInv, At, Drafting, Handling, Deciders, Sizing, Ordering, To, Done,
            Becomes, Begins, Grows
<1>1. ASSUME NEW h \in Handlers, CreateReserve(h) PROVE IdInv'
  BY <1>1, ReserveStep
<1>2. ASSUME NEW h \in Handlers, CreateInsert(h) PROVE IdInv'
  BY <1>2, InsertStep
<1>3. ASSUME NEW h \in Handlers, CreateRelease(h) PROVE IdInv'
  BY <1>3, ReleaseStep
<1>4. ASSUME NEW h \in Handlers, ApproveUpdate(h) PROVE IdInv'
  BY <1>4, ActivateStep
<1>5. ASSUME NEW h \in Handlers, ApproveResolve(h) PROVE IdInv'
  BY <1>5, ResolveStep
<1>6. ASSUME NEW h \in Handlers, DriftReturn(h) PROVE IdInv'
  BY <1>6, ReturnStep
<1>7. ASSUME NEW h \in Handlers, DriftTake(h) PROVE IdInv'
  BY <1>7, TakeStep
<1>8. ASSUME NEW h \in Handlers, DriftRestore(h) PROVE IdInv'
  BY <1>8, RestoreStep
<1>9. ASSUME NEW h \in Handlers, DriftResize(h) PROVE IdInv'
  BY <1>9, ResizeStep
<1>10. ASSUME NEW h \in Handlers, SafetyCheck(h) PROVE IdInv'
  BY <1>10, CheckStep
<1>11. ASSUME NEW h \in Handlers, SafetyBlock(h) PROVE IdInv'
  BY <1>11, BlockStep
<1>12. ASSUME NEW h \in Handlers, DispatchLookup(h) PROVE IdInv'
  BY <1>12, LookupStep
<1>13. ASSUME NEW h \in Handlers, CreateScopedDispatch(h) PROVE IdInv'
  BY <1>13, DispatchStep
<1>14. ASSUME NEW h \in Handlers, RejectUpdate(h) PROVE IdInv'
  BY <1>14, RejectStep
<1>15. ASSUME NEW h \in Handlers, RevokeUpdate(h) PROVE IdInv'
  BY <1>15, RevokeStep
<1>16. ASSUME NEW h \in Handlers, GiveBack(h) PROVE IdInv'
  BY <1>16, GiveBackStep
<1>17. ASSUME NEW h \in Handlers, NEW u \in Users, NEW host \in Hosts,
              NEW s \in Selectors, NEW ack \in BOOLEAN,
            ScopedBanCreate(h, u, host, s, ack)
      PROVE  IdInv'
  BY <1>17, CreateStep
<1>18. ASSUME NEW h \in Handlers, NEW u \in Users,
              NEW r \in 1..MaxBans, ScopedBanApprove(h, u, r)
      PROVE  IdInv'
  BY <1>18, ApproveStep
<1>19. ASSUME NEW h \in Handlers, NEW u \in Users,
              NEW r \in 1..MaxBans, ScopedBanReject(h, u, r)
      PROVE  IdInv'
  BY <1>19, RefuseStep
<1>20. ASSUME NEW h \in Handlers, NEW u \in Users,
              NEW r \in 1..MaxBans, ScopedBanRevoke(h, u, r)
      PROVE  IdInv'
  BY <1>20, WithdrawStep
<1>21. ASSUME NEW v \in Versions, SetGlobal(v) PROVE IdInv'
  BY <1>21, SwapStep
<1>22. ASSUME NEW host \in Hosts, EditProtected(host) PROVE IdInv'
  BY <1>22, EditStep
<1>23. ASSUME NEW v \in Versions \cup {NoDB}, Restart(v) PROVE IdInv'
  BY <1>23, RestartStep
<1>24. CASE UNCHANGED vars
  BY <1>24 DEF vars
<1>25. QED
  BY <1>1, <1>2, <1>3, <1>4, <1>5, <1>6, <1>7, <1>8, <1>9,
     <1>10, <1>11, <1>12, <1>13, <1>14, <1>15, <1>16, <1>17, <1>18,
     <1>19, <1>20, <1>21, <1>22, <1>23, <1>24
     DEF Next, Step, Arrive

LEMMA DecideKept ==
    ASSUME IInv, [Next]_vars
    PROVE  DecideInv'
<1> USE DEF IInv, IdInv, DecideInv, OrderInv, At, Drafting, Handling, Deciders,
            Sizing, Ordering, To, Done, Becomes, Begins, Grows
<1>1. ASSUME NEW h \in Handlers, CreateReserve(h) PROVE DecideInv'
  BY <1>1, ReserveStep
<1>2. ASSUME NEW h \in Handlers, CreateInsert(h) PROVE DecideInv'
  BY <1>2, InsertStep
<1>3. ASSUME NEW h \in Handlers, CreateRelease(h) PROVE DecideInv'
  BY <1>3, ReleaseStep
<1>4. ASSUME NEW h \in Handlers, ApproveUpdate(h) PROVE DecideInv'
  BY <1>4, ActivateStep
<1>5. ASSUME NEW h \in Handlers, ApproveResolve(h) PROVE DecideInv'
  BY <1>5, ResolveStep
<1>6. ASSUME NEW h \in Handlers, DriftReturn(h) PROVE DecideInv'
  BY <1>6, ReturnStep
<1>7. ASSUME NEW h \in Handlers, DriftTake(h) PROVE DecideInv'
  BY <1>7, TakeStep
<1>8. ASSUME NEW h \in Handlers, DriftRestore(h) PROVE DecideInv'
  BY <1>8, RestoreStep
<1>9. ASSUME NEW h \in Handlers, DriftResize(h) PROVE DecideInv'
  BY <1>9, ResizeStep
<1>10. ASSUME NEW h \in Handlers, SafetyCheck(h) PROVE DecideInv'
  BY <1>10, CheckStep
<1>11. ASSUME NEW h \in Handlers, SafetyBlock(h) PROVE DecideInv'
  BY <1>11, BlockStep
<1>12. ASSUME NEW h \in Handlers, DispatchLookup(h) PROVE DecideInv'
  BY <1>12, LookupStep
<1>13. ASSUME NEW h \in Handlers, CreateScopedDispatch(h) PROVE DecideInv'
  BY <1>13, DispatchStep
<1>14. ASSUME NEW h \in Handlers, RejectUpdate(h) PROVE DecideInv'
  BY <1>14, RejectStep
<1>15. ASSUME NEW h \in Handlers, RevokeUpdate(h) PROVE DecideInv'
  BY <1>15, RevokeStep
<1>16. ASSUME NEW h \in Handlers, GiveBack(h) PROVE DecideInv'
  BY <1>16, GiveBackStep
<1>17. ASSUME NEW h \in Handlers, NEW u \in Users, NEW host \in Hosts,
              NEW s \in Selectors, NEW ack \in BOOLEAN,
            ScopedBanCreate(h, u, host, s, ack)
      PROVE  DecideInv'
  BY <1>17, CreateStep
<1>18. ASSUME NEW h \in Handlers, NEW u \in Users,
              NEW r \in 1..MaxBans, ScopedBanApprove(h, u, r)
      PROVE  DecideInv'
  BY <1>18, ApproveStep
<1>19. ASSUME NEW h \in Handlers, NEW u \in Users,
              NEW r \in 1..MaxBans, ScopedBanReject(h, u, r)
      PROVE  DecideInv'
  BY <1>19, RefuseStep
<1>20. ASSUME NEW h \in Handlers, NEW u \in Users,
              NEW r \in 1..MaxBans, ScopedBanRevoke(h, u, r)
      PROVE  DecideInv'
  BY <1>20, WithdrawStep
<1>21. ASSUME NEW v \in Versions, SetGlobal(v) PROVE DecideInv'
  BY <1>21, SwapStep
<1>22. ASSUME NEW host \in Hosts, EditProtected(host) PROVE DecideInv'
  BY <1>22, EditStep
<1>23. ASSUME NEW v \in Versions \cup {NoDB}, Restart(v) PROVE DecideInv'
  BY <1>23, RestartStep
<1>24. CASE UNCHANGED vars
  BY <1>24 DEF vars
<1> HIDE DEF IInv, DecideInv
<1>25. QED
  BY <1>1, <1>2, <1>3, <1>4, <1>5, <1>6, <1>7, <1>8, <1>9,
     <1>10, <1>11, <1>12, <1>13, <1>14, <1>15, <1>16, <1>17, <1>18,
     <1>19, <1>20, <1>21, <1>22, <1>23, <1>24
     DEF Next, Step, Arrive

LEMMA OrderKept ==
    ASSUME IInv, [Next]_vars
    PROVE  OrderInv'
<1> USE DEF IInv, IdInv, DecideInv, OrderInv, At, Drafting, Handling, Deciders,
            Sizing, Ordering, To, Done, Becomes, Begins, Grows
<1>1. ASSUME NEW h \in Handlers, CreateReserve(h) PROVE OrderInv'
  BY <1>1, ReserveStep
<1>2. ASSUME NEW h \in Handlers, CreateInsert(h) PROVE OrderInv'
  BY <1>2, InsertStep
<1>3. ASSUME NEW h \in Handlers, CreateRelease(h) PROVE OrderInv'
  BY <1>3, ReleaseStep
<1>4. ASSUME NEW h \in Handlers, ApproveUpdate(h) PROVE OrderInv'
  BY <1>4, ActivateStep
<1>5. ASSUME NEW h \in Handlers, ApproveResolve(h) PROVE OrderInv'
  BY <1>5, ResolveStep
<1>6. ASSUME NEW h \in Handlers, DriftReturn(h) PROVE OrderInv'
  BY <1>6, ReturnStep
<1>7. ASSUME NEW h \in Handlers, DriftTake(h) PROVE OrderInv'
  BY <1>7, TakeStep
<1>8. ASSUME NEW h \in Handlers, DriftRestore(h) PROVE OrderInv'
  BY <1>8, RestoreStep
<1>9. ASSUME NEW h \in Handlers, DriftResize(h) PROVE OrderInv'
  BY <1>9, ResizeStep
<1>10. ASSUME NEW h \in Handlers, SafetyCheck(h) PROVE OrderInv'
  BY <1>10, CheckStep
<1>11. ASSUME NEW h \in Handlers, SafetyBlock(h) PROVE OrderInv'
  BY <1>11, BlockStep
<1>12. ASSUME NEW h \in Handlers, DispatchLookup(h) PROVE OrderInv'
  BY <1>12, LookupStep
<1>13. ASSUME NEW h \in Handlers, CreateScopedDispatch(h) PROVE OrderInv'
  BY <1>13, DispatchStep
<1>14. ASSUME NEW h \in Handlers, RejectUpdate(h) PROVE OrderInv'
  BY <1>14, RejectStep
<1>15. ASSUME NEW h \in Handlers, RevokeUpdate(h) PROVE OrderInv'
  BY <1>15, RevokeStep
<1>16. ASSUME NEW h \in Handlers, GiveBack(h) PROVE OrderInv'
  BY <1>16, GiveBackStep
<1>17. ASSUME NEW h \in Handlers, NEW u \in Users, NEW host \in Hosts,
              NEW s \in Selectors, NEW ack \in BOOLEAN,
            ScopedBanCreate(h, u, host, s, ack)
      PROVE  OrderInv'
  BY <1>17, CreateStep
<1>18. ASSUME NEW h \in Handlers, NEW u \in Users,
              NEW r \in 1..MaxBans, ScopedBanApprove(h, u, r)
      PROVE  OrderInv'
  BY <1>18, ApproveStep
<1>19. ASSUME NEW h \in Handlers, NEW u \in Users,
              NEW r \in 1..MaxBans, ScopedBanReject(h, u, r)
      PROVE  OrderInv'
  BY <1>19, RefuseStep
<1>20. ASSUME NEW h \in Handlers, NEW u \in Users,
              NEW r \in 1..MaxBans, ScopedBanRevoke(h, u, r)
      PROVE  OrderInv'
  BY <1>20, WithdrawStep
<1>21. ASSUME NEW v \in Versions, SetGlobal(v) PROVE OrderInv'
  BY <1>21, SwapStep
<1>22. ASSUME NEW host \in Hosts, EditProtected(host) PROVE OrderInv'
  BY <1>22, EditStep
<1>23. ASSUME NEW v \in Versions \cup {NoDB}, Restart(v) PROVE OrderInv'
  BY <1>23, RestartStep
<1>24. CASE UNCHANGED vars
  BY <1>24 DEF vars
<1>25. QED
  BY <1>1, <1>2, <1>3, <1>4, <1>5, <1>6, <1>7, <1>8, <1>9,
     <1>10, <1>11, <1>12, <1>13, <1>14, <1>15, <1>16, <1>17, <1>18,
     <1>19, <1>20, <1>21, <1>22, <1>23, <1>24
     DEF Next, Step, Arrive

LEMMA GovernKept ==
    ASSUME IInv, [Next]_vars
    PROVE  GovernInv'
<1> USE DEF IInv, IdInv, GovernInv, At, Drafting, Handling, Deciders, Sizing,
            Ordering, To, Done, Becomes, Begins, Grows
<1>1. ASSUME NEW h \in Handlers, CreateReserve(h) PROVE GovernInv'
  BY <1>1, ReserveStep
<1>2. ASSUME NEW h \in Handlers, CreateInsert(h) PROVE GovernInv'
  BY <1>2, InsertStep
<1>3. ASSUME NEW h \in Handlers, CreateRelease(h) PROVE GovernInv'
  BY <1>3, ReleaseStep
<1>4. ASSUME NEW h \in Handlers, ApproveUpdate(h) PROVE GovernInv'
  BY <1>4, ActivateStep, NoneAssumption
<1>5. ASSUME NEW h \in Handlers, ApproveResolve(h) PROVE GovernInv'
  BY <1>5, ResolveStep
<1>6. ASSUME NEW h \in Handlers, DriftReturn(h) PROVE GovernInv'
  BY <1>6, ReturnStep
<1>7. ASSUME NEW h \in Handlers, DriftTake(h) PROVE GovernInv'
  BY <1>7, TakeStep
<1>8. ASSUME NEW h \in Handlers, DriftRestore(h) PROVE GovernInv'
  BY <1>8, RestoreStep
<1>9. ASSUME NEW h \in Handlers, DriftResize(h) PROVE GovernInv'
  BY <1>9, ResizeStep
<1>10. ASSUME NEW h \in Handlers, SafetyCheck(h) PROVE GovernInv'
  BY <1>10, CheckStep
<1>11. ASSUME NEW h \in Handlers, SafetyBlock(h) PROVE GovernInv'
  BY <1>11, BlockStep
<1>12. ASSUME NEW h \in Handlers, DispatchLookup(h) PROVE GovernInv'
  BY <1>12, LookupStep
<1>13. ASSUME NEW h \in Handlers, CreateScopedDispatch(h) PROVE GovernInv'
  BY <1>13, DispatchStep
<1>14. ASSUME NEW h \in Handlers, RejectUpdate(h) PROVE GovernInv'
  BY <1>14, RejectStep
<1>15. ASSUME NEW h \in Handlers, RevokeUpdate(h) PROVE GovernInv'
  BY <1>15, RevokeStep
<1>16. ASSUME NEW h \in Handlers, GiveBack(h) PROVE GovernInv'
  BY <1>16, GiveBackStep
<1>17. ASSUME NEW h \in Handlers, NEW u \in Users, NEW host \in Hosts,
              NEW s \in Selectors, NEW ack \in BOOLEAN,
            ScopedBanCreate(h, u, host, s, ack)
      PROVE  GovernInv'
  BY <1>17, CreateStep
<1>18. ASSUME NEW h \in Handlers, NEW u \in Users,
              NEW r \in 1..MaxBans, ScopedBanApprove(h, u, r)
      PROVE  GovernInv'
  BY <1>18, ApproveStep
<1>19. ASSUME NEW h \in Handlers, NEW u \in Users,
              NEW r \in 1..MaxBans, ScopedBanReject(h, u, r)
      PROVE  GovernInv'
  BY <1>19, RefuseStep
<1>20. ASSUME NEW h \in Handlers, NEW u \in Users,
              NEW r \in 1..MaxBans, ScopedBanRevoke(h, u, r)
      PROVE  GovernInv'
  BY <1>20, WithdrawStep
<1>21. ASSUME NEW v \in Versions, SetGlobal(v) PROVE GovernInv'
  BY <1>21, SwapStep
<1>22. ASSUME NEW host \in Hosts, EditProtected(host) PROVE GovernInv'
  BY <1>22, EditStep
<1>23. ASSUME NEW v \in Versions \cup {NoDB}, Restart(v) PROVE GovernInv'
  BY <1>23, RestartStep
<1>24. CASE UNCHANGED vars
  BY <1>24 DEF vars
<1>25. QED
  BY <1>1, <1>2, <1>3, <1>4, <1>5, <1>6, <1>7, <1>8, <1>9,
     <1>10, <1>11, <1>12, <1>13, <1>14, <1>15, <1>16, <1>17, <1>18,
     <1>19, <1>20, <1>21, <1>22, <1>23, <1>24
     DEF Next, Step, Arrive

LEMMA SizeKept ==
    ASSUME IInv, [Next]_vars
    PROVE  SizeInv'
<1> USE DEF IInv, IdInv, SizeInv, Calm, NoJob, At, Drafting, Handling, Deciders,
            Sizing, Ordering, To, Done, Becomes, Begins, Grows
<1>1. ASSUME NEW h \in Handlers, CreateReserve(h) PROVE SizeInv'
  BY <1>1, ReserveStep
<1>2. ASSUME NEW h \in Handlers, CreateInsert(h) PROVE SizeInv'
  BY <1>2, InsertStep
<1>3. ASSUME NEW h \in Handlers, CreateRelease(h) PROVE SizeInv'
  BY <1>3, ReleaseStep
<1>4. ASSUME NEW h \in Handlers, ApproveUpdate(h) PROVE SizeInv'
  BY <1>4, ActivateStep
<1>5. ASSUME NEW h \in Handlers, ApproveResolve(h) PROVE SizeInv'
  BY <1>5, ResolveStep
<1>6. ASSUME NEW h \in Handlers, DriftReturn(h) PROVE SizeInv'
  BY <1>6, ReturnStep
<1>7. ASSUME NEW h \in Handlers, DriftTake(h) PROVE SizeInv'
  BY <1>7, TakeStep
<1>8. ASSUME NEW h \in Handlers, DriftRestore(h) PROVE SizeInv'
  BY <1>8, RestoreStep
<1>9. ASSUME NEW h \in Handlers, DriftResize(h) PROVE SizeInv'
  BY <1>9, ResizeStep
<1>10. ASSUME NEW h \in Handlers, SafetyCheck(h) PROVE SizeInv'
  BY <1>10, CheckStep
<1>11. ASSUME NEW h \in Handlers, SafetyBlock(h) PROVE SizeInv'
  BY <1>11, BlockStep
<1>12. ASSUME NEW h \in Handlers, DispatchLookup(h) PROVE SizeInv'
  BY <1>12, LookupStep
<1>13. ASSUME NEW h \in Handlers, CreateScopedDispatch(h) PROVE SizeInv'
  BY <1>13, DispatchStep
<1>14. ASSUME NEW h \in Handlers, RejectUpdate(h) PROVE SizeInv'
  BY <1>14, RejectStep
<1>15. ASSUME NEW h \in Handlers, RevokeUpdate(h) PROVE SizeInv'
  BY <1>15, RevokeStep
<1>16. ASSUME NEW h \in Handlers, GiveBack(h) PROVE SizeInv'
  BY <1>16, GiveBackStep
<1>17. ASSUME NEW h \in Handlers, NEW u \in Users, NEW host \in Hosts,
              NEW s \in Selectors, NEW ack \in BOOLEAN,
            ScopedBanCreate(h, u, host, s, ack)
      PROVE  SizeInv'
  BY <1>17, CreateStep
<1>18. ASSUME NEW h \in Handlers, NEW u \in Users,
              NEW r \in 1..MaxBans, ScopedBanApprove(h, u, r)
      PROVE  SizeInv'
  BY <1>18, ApproveStep
<1>19. ASSUME NEW h \in Handlers, NEW u \in Users,
              NEW r \in 1..MaxBans, ScopedBanReject(h, u, r)
      PROVE  SizeInv'
  BY <1>19, RefuseStep
<1>20. ASSUME NEW h \in Handlers, NEW u \in Users,
              NEW r \in 1..MaxBans, ScopedBanRevoke(h, u, r)
      PROVE  SizeInv'
  BY <1>20, WithdrawStep
<1>21. ASSUME NEW v \in Versions, SetGlobal(v) PROVE SizeInv'
  BY <1>21, SwapStep
<1>22. ASSUME NEW host \in Hosts, EditProtected(host) PROVE SizeInv'
  BY <1>22, EditStep
<1>23. ASSUME NEW v \in Versions \cup {NoDB}, Restart(v) PROVE SizeInv'
  BY <1>23, RestartStep
<1>24. CASE UNCHANGED vars
  BY <1>24 DEF vars
<1>25. QED
  BY <1>1, <1>2, <1>3, <1>4, <1>5, <1>6, <1>7, <1>8, <1>9,
     <1>10, <1>11, <1>12, <1>13, <1>14, <1>15, <1>16, <1>17, <1>18,
     <1>19, <1>20, <1>21, <1>22, <1>23, <1>24
     DEF Next, Step, Arrive

LEMMA OrderedKept ==
    ASSUME IInv, [Next]_vars
    PROVE  OrderedInv'
<1> USE DEF IInv, IdInv, SizeInv, OrderedInv, Calm, NoJob, RulesWith, At, Drafting,
            Handling, Deciders, Sizing, Ordering, To, Done, Becomes, Begins, Grows
<1>1. ASSUME NEW h \in Handlers, CreateReserve(h) PROVE OrderedInv'
  BY <1>1, ReserveStep
<1>2. ASSUME NEW h \in Handlers, CreateInsert(h) PROVE OrderedInv'
  BY <1>2, InsertStep
<1>3. ASSUME NEW h \in Handlers, CreateRelease(h) PROVE OrderedInv'
  BY <1>3, ReleaseStep
<1>4. ASSUME NEW h \in Handlers, ApproveUpdate(h) PROVE OrderedInv'
  BY <1>4, ActivateStep
<1>5. ASSUME NEW h \in Handlers, ApproveResolve(h) PROVE OrderedInv'
  BY <1>5, ResolveStep
<1>6. ASSUME NEW h \in Handlers, DriftReturn(h) PROVE OrderedInv'
  BY <1>6, ReturnStep
<1>7. ASSUME NEW h \in Handlers, DriftTake(h) PROVE OrderedInv'
  BY <1>7, TakeStep
<1>8. ASSUME NEW h \in Handlers, DriftRestore(h) PROVE OrderedInv'
  BY <1>8, RestoreStep
<1>9. ASSUME NEW h \in Handlers, DriftResize(h) PROVE OrderedInv'
  BY <1>9, ResizeStep
<1>10. ASSUME NEW h \in Handlers, SafetyCheck(h) PROVE OrderedInv'
  BY <1>10, CheckStep
<1>11. ASSUME NEW h \in Handlers, SafetyBlock(h) PROVE OrderedInv'
  BY <1>11, BlockStep
<1>12. ASSUME NEW h \in Handlers, DispatchLookup(h) PROVE OrderedInv'
  BY <1>12, LookupStep
<1>13. ASSUME NEW h \in Handlers, CreateScopedDispatch(h) PROVE OrderedInv'
  <2>1. CASE dispatch' = dispatch \cup {[ban |-> job[h].id, count |-> job[h].count]}
    <3> DEFINE d == [ban |-> job[h].id, count |-> job[h].count]
    <3>1. d \in dispatch' /\ dispatch \subseteq dispatch' /\ d.ban = job[h].id
      BY <2>1
    <3> HIDE DEF d
    <3>2. QED
      BY <1>13, <3>1, DispatchStep
         DEF IInv, IdInv, OrderedInv, Calm, RulesWith, At, Ordering, Done
  <2>2. CASE faults' # 0
    BY <2>2 DEF OrderedInv, Calm
  <2>3. QED
    BY <1>13, <2>1, <2>2, DispatchStep DEF IInv
<1>14. ASSUME NEW h \in Handlers, RejectUpdate(h) PROVE OrderedInv'
  BY <1>14, RejectStep
<1>15. ASSUME NEW h \in Handlers, RevokeUpdate(h) PROVE OrderedInv'
  BY <1>15, RevokeStep
<1>16. ASSUME NEW h \in Handlers, GiveBack(h) PROVE OrderedInv'
  BY <1>16, GiveBackStep
<1>17. ASSUME NEW h \in Handlers, NEW u \in Users, NEW host \in Hosts,
              NEW s \in Selectors, NEW ack \in BOOLEAN,
            ScopedBanCreate(h, u, host, s, ack)
      PROVE  OrderedInv'
  BY <1>17, CreateStep
<1>18. ASSUME NEW h \in Handlers, NEW u \in Users,
              NEW r \in 1..MaxBans, ScopedBanApprove(h, u, r)
      PROVE  OrderedInv'
  BY <1>18, ApproveStep
<1>19. ASSUME NEW h \in Handlers, NEW u \in Users,
              NEW r \in 1..MaxBans, ScopedBanReject(h, u, r)
      PROVE  OrderedInv'
  BY <1>19, RefuseStep
<1>20. ASSUME NEW h \in Handlers, NEW u \in Users,
              NEW r \in 1..MaxBans, ScopedBanRevoke(h, u, r)
      PROVE  OrderedInv'
  BY <1>20, WithdrawStep
<1>21. ASSUME NEW v \in Versions, SetGlobal(v) PROVE OrderedInv'
  BY <1>21, SwapStep
<1>22. ASSUME NEW host \in Hosts, EditProtected(host) PROVE OrderedInv'
  BY <1>22, EditStep
<1>23. ASSUME NEW v \in Versions \cup {NoDB}, Restart(v) PROVE OrderedInv'
  BY <1>23, RestartStep
<1>24. CASE UNCHANGED vars
  BY <1>24 DEF vars
<1>25. QED
  BY <1>1, <1>2, <1>3, <1>4, <1>5, <1>6, <1>7, <1>8, <1>9,
     <1>10, <1>11, <1>12, <1>13, <1>14, <1>15, <1>16, <1>17, <1>18,
     <1>19, <1>20, <1>21, <1>22, <1>23, <1>24
     DEF Next, Step, Arrive

-----------------------------------------------------------------------------
(* Sums of sizes, and of what is in hand *)

Sizes == [i \in DOMAIN ban |-> ban[i].count]
Live == RulesWith({"pending", "active"})

LEMMA TotalIs ==
    ASSUME NEW T
    PROVE  Total(T) = SumFunctionOnSet(Sizes, T)
  BY DEF Total, Sizes

LEMMA SizesTypes ==
    ASSUME TypeOK
    PROVE  /\ Live \in SUBSET DOMAIN ban
           /\ Committed = SumFunctionOnSet(Sizes, Live)
           /\ \A T \in SUBSET DOMAIN ban :
                 /\ IsFiniteSet(T)
                 /\ \A i \in T : Sizes[i] \in Nat /\ Sizes[i] = ban[i].count
                 /\ SumFunctionOnSet(Sizes, T) \in Nat
<1>1. ASSUME NEW T \in SUBSET DOMAIN ban
      PROVE  /\ IsFiniteSet(T)
             /\ \A i \in T : Sizes[i] \in Nat /\ Sizes[i] = ban[i].count
  BY RowsFinite, RowTypes DEF Sizes
<1>2. ASSUME NEW T \in SUBSET DOMAIN ban
      PROVE  SumFunctionOnSet(Sizes, T) \in Nat
  BY <1>1, SumOnSetNat
<1>3. QED
  BY <1>1, <1>2, TotalIs DEF Committed, Live, RulesWith

Holds(h) ==
    /\ Held(h) \in Int
    /\ job[h].pc \in {"insert", "release"} => Held(h) = job[h].count
    /\ job[h].pc = "giveback" => Held(h) = job[h].row.count
    /\ job[h].pc = "resize" => Held(h) = job[h].count - job[h].row.count
    /\ job[h].pc \in {"take", "restore"} => Held(h) = -job[h].row.count
    /\ job[h].pc \notin {"insert", "release", "giveback", "resize", "take", "restore"}
          => Held(h) = 0
    /\ Held(h) < 0 => /\ job[h].pc \in {"resize", "take", "restore"}
                      /\ 0 <= Held(h) + job[h].row.count

LEMMA HeldIs ==
    ASSUME TypeOK, NEW h \in Handlers
    PROVE  Holds(h)
<1>1. job[h] # NoJob => job[h].count \in Nat /\ job[h].row.count \in Nat
  BY JobTypes DEF Row
<1>2. job[h].pc # "idle" => job[h] # NoJob
  BY JobTypes
<1>3. CASE job[h].pc \in {"insert", "release"}
  BY <1>1, <1>2, <1>3 DEF Held, Holds
<1>4. CASE job[h].pc = "giveback"
  BY <1>1, <1>2, <1>4 DEF Held, Holds
<1>5. CASE job[h].pc = "resize"
  BY <1>1, <1>2, <1>5 DEF Held, Holds
<1>6. CASE job[h].pc \in {"take", "restore"}
  BY <1>1, <1>2, <1>6 DEF Held, Holds
<1>7. CASE job[h].pc \notin {"insert", "release", "giveback", "resize", "take", "restore"}
  BY <1>7 DEF Held, Holds
<1>8. QED
  BY <1>3, <1>4, <1>5, <1>6, <1>7

LEMMA HeldNext ==
    ASSUME TypeOK', NEW h \in Handlers
    PROVE  Holds(h)'
  BY HeldIs, PTL

InHands == [h \in Handlers |-> Held(h)]

LEMMA InHandIs ==
    InHand = SumFunctionOnSet(InHands, Handlers)
<1>1. DOMAIN InHands = Handlers
  BY DEF InHands
<1>2. QED
  BY <1>1, SumFunctionIsOnSet DEF InHand, InHands

LEMMA InHandType ==
    ASSUME TypeOK
    PROVE  InHand \in Int
<1>1. \A h \in Handlers : InHands[h] \in Int
  BY HeldIs DEF InHands, Holds
<1>2. QED
  BY <1>1, InHandIs, HandlersAssumption, SumOnSetType

\* When no quota is owed, something or nothing is in hand.
LEMMA InHandNat ==
    ASSUME TypeOK, At({"take", "restore", "resize"}) = {}
    PROVE  InHand \in Nat
<1>1. \A h \in Handlers : InHands[h] \in Nat
  BY HeldIs DEF InHands, At, Holds
<1>2. QED
  BY <1>1, InHandIs, HandlersAssumption, SumOnSetNat

\* A step of one handler changes what that one has in hand.
LEMMA InHandStep ==
    ASSUME TypeOK, TypeOK', NEW h \in Handlers, \A g \in Handlers \ {h} : job'[g] = job[g]
    PROVE  /\ InHand \in Int /\ InHand' \in Int /\ Held(h) \in Int /\ Held(h)' \in Int
           /\ InHand' = (InHand - Held(h)) + Held(h)'
<1>1. \A g \in Handlers : InHands[g] \in Int /\ InHands[g] = Held(g)
  BY HeldIs DEF InHands, Holds
<1>2. Held(h)' \in Int /\ InHands'[h] = Held(h)'
  BY HeldNext DEF InHands, Holds
<1>3. \A g \in Handlers \ {h} : InHands'[g] = InHands[g]
  BY DEF InHands, Held
<1>4. InHands'[h] \in Int
  BY <1>2
<1>5. SumFunctionOnSet(InHands', Handlers)
        = (SumFunctionOnSet(InHands, Handlers) - InHands[h]) + InHands'[h]
  BY <1>1, <1>3, <1>4, HandlersAssumption, SumOnSetUpdate
<1>6. InHand = SumFunctionOnSet(InHands, Handlers)
  BY InHandIs
<1>7. (InHand = SumFunctionOnSet(InHands, Handlers))'
  BY InHandIs, PTL
<1>8. InHand \in Int
  BY InHandType
<1>9. QED
  BY <1>1, <1>2, <1>5, <1>6, <1>7, <1>8

\* What the handlers owe the tracker, the live rules cover.
LEMMA LiveCovers ==
    ASSUME TypeOK, IdInv, DecideInv, ~astray
    PROVE  0 <= Committed + InHand
<1> DEFINE at == [h \in Handlers |-> job[h].id]
<1>1. \A h \in Handlers : InHands[h] \in Int /\ InHands[h] = Held(h)
  BY HeldIs DEF InHands, Holds
<1>2. ASSUME NEW h \in Handlers, InHands[h] < 0
      PROVE  h \in At(Sizing) /\ at[h] \in Live /\ 0 <= InHands[h] + Sizes[at[h]]
  <2>1. /\ job[h].pc \in {"resize", "take", "restore"}
        /\ 0 <= InHands[h] + job[h].row.count
    BY <1>1, <1>2, HeldIs DEF Holds
  <2>2. h \in At(Sizing) /\ h \in At(Deciders) /\ h \in At(Handling)
    BY <2>1 DEF At, Sizing, Deciders, Handling
  <2>3. /\ job[h].id \in DOMAIN ban /\ ban[job[h].id].state = "active"
        /\ job[h].row.count = ban[job[h].id].count
    BY <2>2 DEF IdInv, DecideInv
  <2>4. QED
    BY <2>1, <2>2, <2>3 DEF Live, RulesWith, Sizes
<1>3. ASSUME NEW g \in Handlers, NEW h \in Handlers, InHands[g] < 0, InHands[h] < 0,
             at[g] = at[h]
      PROVE  g = h
  <2>1. g \in At(Deciders) /\ h \in At(Deciders)
    BY <1>2, <1>3 DEF At, Deciders
  <2>2. QED
    BY <1>3, <2>1 DEF DecideInv
<1>4. IsFiniteSet(Live) /\ (\A i \in Live : Sizes[i] \in Nat)
      /\ Committed = SumFunctionOnSet(Sizes, Live)
  BY SizesTypes
<1> HIDE DEF at
<1>5. 0 <= SumFunctionOnSet(InHands, Handlers) + SumFunctionOnSet(Sizes, Live)
  BY <1>1, <1>2, <1>3, <1>4, HandlersAssumption, SumCovered
<1>6. InHand \in Int /\ Committed \in Int
  BY InHandType, SizesTypes
<1>7. QED
  BY <1>4, <1>5, <1>6, InHandIs

LEMMA SizesNext ==
    ASSUME TypeOK'
    PROVE  /\ Committed' = SumFunctionOnSet(Sizes', Live')
           /\ \A T : Total(T)' = SumFunctionOnSet(Sizes', T)
<1>1. (Committed = SumFunctionOnSet(Sizes, Live))'
  BY SizesTypes, PTL
<1>2. QED
  BY <1>1 DEF Total, Sizes

\* A rule changes its state: only the live rules are charged for.
LEMMA CommittedBecomes ==
    ASSUME TypeOK, TypeOK', NEW r \in DOMAIN ban, NEW s, NEW u, Becomes(r, s, u)
    PROVE  /\ s \in {"pending", "active"} /\ r \in Live => Committed' = Committed
           /\ s \notin {"pending", "active"} /\ r \notin Live => Committed' = Committed
           /\ s \notin {"pending", "active"} /\ r \in Live =>
                 Committed' = Committed - ban[r].count
           /\ \A T \in SUBSET DOMAIN ban :
                 SumFunctionOnSet(Sizes', T) = SumFunctionOnSet(Sizes, T)
<1>1. \A i \in DOMAIN ban : Sizes'[i] = Sizes[i]
  BY DEF Becomes, Sizes
<1>2. ASSUME NEW T \in SUBSET DOMAIN ban
      PROVE  SumFunctionOnSet(Sizes', T) = SumFunctionOnSet(Sizes, T)
  BY <1>1, SizesTypes, SumOnSetSame
<1>3. /\ s \in {"pending", "active"} /\ r \in Live => Live' = Live
      /\ s \notin {"pending", "active"} => Live' = Live \ {r}
  BY DEF Live, RulesWith, Becomes
<1>4. /\ Live \in SUBSET DOMAIN ban /\ Committed = SumFunctionOnSet(Sizes, Live)
      /\ IsFiniteSet(Live) /\ \A i \in Live : Sizes[i] \in Nat /\ Sizes[i] = ban[i].count
  BY SizesTypes
<1>5. Committed' = SumFunctionOnSet(Sizes', Live')
  BY SizesNext
<1>6. CASE s \in {"pending", "active"} /\ r \in Live
  BY <1>2, <1>3, <1>4, <1>5, <1>6
<1>7. CASE s \notin {"pending", "active"} /\ r \notin Live
  BY <1>2, <1>3, <1>4, <1>5, <1>7
<1>8. CASE s \notin {"pending", "active"} /\ r \in Live
  <2>1. Live \ {r} \in SUBSET DOMAIN ban /\ Live' = Live \ {r}
    BY <1>3, <1>4, <1>8
  <2>2. Committed' = SumFunctionOnSet(Sizes, Live \ {r})
    BY <1>2, <1>5, <2>1
  <2>3. Committed = Sizes[r] + SumFunctionOnSet(Sizes, Live \ {r})
    BY <1>4, <1>8, SumOnSetPick
  <2>4. Sizes[r] = ban[r].count /\ Sizes[r] \in Nat
    BY <1>4, <1>8
  <2>5. SumFunctionOnSet(Sizes, Live \ {r}) \in Int
    BY <2>1, SizesTypes
  <2>6. QED
    BY <1>2, <1>8, <2>2, <2>3, <2>4, <2>5
<1>9. QED
  BY <1>2, <1>6, <1>7, <1>8

\* A new rule is charged for.
LEMMA CommittedGrows ==
    ASSUME TypeOK, TypeOK', NEW row \in Row, row.state = "pending", Grows(row)
    PROVE  /\ Committed' = Committed + row.count
           /\ \A T \in SUBSET DOMAIN ban :
                 SumFunctionOnSet(Sizes', T) = SumFunctionOnSet(Sizes, T)
<1> DEFINE x == Len(ban) + 1
<1>1. (\A i \in DOMAIN ban : Sizes'[i] = Sizes[i]) /\ Sizes'[x] = row.count
  BY DEF Grows, Sizes
<1>2. ASSUME NEW T \in SUBSET DOMAIN ban
      PROVE  SumFunctionOnSet(Sizes', T) = SumFunctionOnSet(Sizes, T)
  BY <1>1, SizesTypes, SumOnSetSame
<1>3. Live' = Live \cup {x} /\ x \notin Live
  BY DEF Live, RulesWith, Grows
<1>4. /\ Live \in SUBSET DOMAIN ban /\ Committed = SumFunctionOnSet(Sizes, Live)
      /\ IsFiniteSet(Live) /\ \A i \in Live : Sizes[i] \in Nat
  BY SizesTypes
<1>5. Committed' = SumFunctionOnSet(Sizes', Live')
  BY SizesNext
<1>6. row.count \in Nat
  BY DEF Row
<1> HIDE DEF x
<1>7. \A i \in Live \cup {x} : Sizes'[i] \in Int
  BY <1>1, <1>4, <1>6
<1>8. SumFunctionOnSet(Sizes', Live \cup {x}) = Sizes'[x] + SumFunctionOnSet(Sizes', Live)
  BY <1>3, <1>4, <1>7, SumOnSetAdd
<1>9. SumFunctionOnSet(Sizes', Live) = Committed /\ Committed \in Int
  BY <1>2, <1>4, SizesTypes
<1>10. Committed' = row.count + Committed
  BY <1>1, <1>3, <1>5, <1>8, <1>9
<1>11. QED
  BY <1>2, <1>6, <1>9, <1>10

\* A live rule is resized.
LEMMA CommittedResized ==
    ASSUME TypeOK, TypeOK', NEW r \in Live, NEW n \in Nat, DOMAIN ban' = DOMAIN ban,
           \A i \in DOMAIN ban \ {r} : ban'[i] = ban[i],
           ban'[r].count = n, ban'[r].state = ban[r].state
    PROVE  /\ Committed' = (Committed - ban[r].count) + n
           /\ \A T \in SUBSET (DOMAIN ban \ {r}) :
                 SumFunctionOnSet(Sizes', T) = SumFunctionOnSet(Sizes, T)
<1>1. r \in DOMAIN ban
  BY SizesTypes
<1>2. (\A i \in DOMAIN ban \ {r} : Sizes'[i] = Sizes[i]) /\ Sizes'[r] = n
  BY <1>1 DEF Sizes
<1>3. ASSUME NEW T \in SUBSET (DOMAIN ban \ {r})
      PROVE  SumFunctionOnSet(Sizes', T) = SumFunctionOnSet(Sizes, T)
  <2>1. IsFiniteSet(T)
    BY SizesTypes
  <2>2. QED
    BY <1>2, <2>1, SumOnSetSame
<1>4. Live' = Live
  BY DEF Live, RulesWith
<1>5. /\ Live \in SUBSET DOMAIN ban /\ Committed = SumFunctionOnSet(Sizes, Live)
      /\ IsFiniteSet(Live) /\ \A i \in Live : Sizes[i] \in Nat /\ Sizes[i] = ban[i].count
  BY SizesTypes
<1>6. SumFunctionOnSet(Sizes', Live) = (SumFunctionOnSet(Sizes, Live) - Sizes[r]) + Sizes'[r]
  <2>1. (\A y \in Live : Sizes[y] \in Int) /\ Sizes'[r] \in Int
        /\ \A y \in Live \ {r} : Sizes'[y] = Sizes[y]
    BY <1>2, <1>5
  <2>2. QED
    BY <1>5, <2>1, SumOnSetUpdate
<1>7. Committed' = SumFunctionOnSet(Sizes', Live')
  BY SizesNext
<1>8. QED
  BY <1>2, <1>3, <1>4, <1>5, <1>6, <1>7

-----------------------------------------------------------------------------
(* The ledger *)

LEMMA LedgerNumbers ==
    ASSUME IInv, ~astray
    PROVE  \E X \in SUBSET RulesWith({"safety_blocked"}) :
              /\ tracker.prefixes = (Committed + InHand) + SumFunctionOnSet(Sizes, X)
              /\ \A h \in At({"revoke"}) :
                    ban[job[h].id].state = "safety_blocked" => job[h].id \in X
              /\ tracker.prefixes <= HighWater /\ tracker.prefixes \in Nat
              /\ Committed \in Nat /\ InHand \in Int /\ SumFunctionOnSet(Sizes, X) \in Nat
              /\ X \in SUBSET DOMAIN ban
<1>1. PICK X \in SUBSET RulesWith({"safety_blocked"}) : Accounted(X)
  BY DEF IInv, LedgerInv
<1>2. X \in SUBSET DOMAIN ban
  BY DEF RulesWith
<1>3. TypeOK /\ tracker.prefixes \in Nat /\ tracker.prefixes <= HighWater
  BY DEF IInv, LedgerInv, TypeOK, Tracker
<1>4. SumFunctionOnSet(Sizes, X) \in Nat /\ Committed \in Nat
  BY <1>2, <1>3, SizesTypes
<1>5. InHand \in Int
  BY <1>3, InHandType
<1>6. Total(X) = SumFunctionOnSet(Sizes, X)
  BY TotalIs
<1>7. QED
  BY <1>1, <1>2, <1>3, <1>4, <1>5, <1>6 DEF Accounted

LEMMA LedgerNext ==
    ASSUME TypeOK', NEW X, X \subseteq RulesWith({"safety_blocked"})',
           tracker'.prefixes = (Committed' + InHand') + SumFunctionOnSet(Sizes', X),
           \A h \in At({"revoke"})' : ban'[job'[h].id].state = "safety_blocked" => job'[h].id \in X,
           tracker'.prefixes <= HighWater
    PROVE  LedgerInv'
<1>1. Total(X)' = SumFunctionOnSet(Sizes', X)
  BY SizesNext
<1>2. Accounted(X)'
  BY <1>1 DEF Accounted
<1>3. QED
  BY <1>2 DEF LedgerInv

\* What stays with the rows as they are: the tracker and the hand move together.
LEMMA LedgerMoves ==
    ASSUME IInv, TypeOK', ~astray, UNCHANGED ban, NEW h \in Handlers,
           \A g \in Handlers \ {h} : job'[g] = job[g],
           tracker'.prefixes = tracker.prefixes + (Held(h)' - Held(h)),
           tracker'.prefixes <= HighWater,
           job'[h].pc = "revoke" => ban[job'[h].id].state = "active"
    PROVE  LedgerInv'
<1>1. PICK X \in SUBSET RulesWith({"safety_blocked"}) :
              /\ tracker.prefixes = (Committed + InHand) + SumFunctionOnSet(Sizes, X)
              /\ \A g \in At({"revoke"}) :
                    ban[job[g].id].state = "safety_blocked" => job[g].id \in X
              /\ Committed \in Nat /\ SumFunctionOnSet(Sizes, X) \in Nat
  BY LedgerNumbers
<1>2. /\ InHand \in Int /\ InHand' \in Int /\ Held(h) \in Int /\ Held(h)' \in Int
      /\ InHand' = (InHand - Held(h)) + Held(h)'
  BY InHandStep DEF IInv
<1>3. Committed' = Committed /\ Sizes' = Sizes
      /\ RulesWith({"safety_blocked"})' = RulesWith({"safety_blocked"})
  BY DEF Committed, Total, RulesWith, Sizes
<1>4. tracker'.prefixes = (Committed' + InHand') + SumFunctionOnSet(Sizes', X)
  BY <1>1, <1>2, <1>3
<1>5. \A g \in At({"revoke"})' : ban'[job'[g].id].state = "safety_blocked" => job'[g].id \in X
  BY <1>1 DEF At
<1>6. QED
  BY <1>1, <1>3, <1>4, <1>5, LedgerNext

\* The tracker never cuts a release off at zero.
LEMMA ReleaseWhole ==
    ASSUME IInv, TypeOK', IdInv', DecideInv', ~astray, ~astray', UNCHANGED ban,
           NEW h \in Handlers, \A g \in Handlers \ {h} : job'[g] = job[g],
           NEW n \in Nat, Held(h)' = Held(h) - n, tracker' = Release(n)
    PROVE  /\ tracker'.prefixes = tracker.prefixes + (Held(h)' - Held(h))
           /\ tracker'.prefixes <= HighWater
<1>1. PICK X \in SUBSET RulesWith({"safety_blocked"}) :
              /\ tracker.prefixes = (Committed + InHand) + SumFunctionOnSet(Sizes, X)
              /\ tracker.prefixes <= HighWater /\ tracker.prefixes \in Nat
              /\ Committed \in Nat /\ SumFunctionOnSet(Sizes, X) \in Nat
  BY LedgerNumbers
<1>2. /\ InHand \in Int /\ InHand' \in Int /\ Held(h) \in Int /\ Held(h)' \in Int
      /\ InHand' = (InHand - Held(h)) + Held(h)'
  BY InHandStep DEF IInv
<1>3. Committed' = Committed
  BY DEF Committed, Total, RulesWith
<1>4. (0 <= Committed + InHand)'
  BY LiveCovers, PTL
<1>5. tracker.prefixes >= n
  BY <1>1, <1>2, <1>3, <1>4
<1>6. tracker'.prefixes = tracker.prefixes - n
  BY <1>5, ReleaseType DEF IInv
<1>7. HighWater \in Nat
  BY LimitAssumption
<1>8. QED
  BY <1>1, <1>2, <1>6, <1>7

\* A rule leaves the live ones, or is live before and after.
LEMMA LedgerBecomes ==
    ASSUME IInv, TypeOK', ~astray, UNCHANGED tracker, NEW h \in Handlers,
           \A g \in Handlers \ {h} : job'[g] = job[g],
           NEW r \in DOMAIN ban, NEW s, NEW u, Becomes(r, s, u), r \in Live,
           job'[h].pc # "revoke",
           \/ s \in {"pending", "active"} /\ Held(h)' = Held(h)
           \/ s \in {"rejected", "revoked"} /\ Held(h)' = Held(h) + ban[r].count
           \/ s = "safety_blocked" /\ Held(h)' = Held(h)
    PROVE  LedgerInv'
<1>1. PICK X \in SUBSET RulesWith({"safety_blocked"}) :
              /\ tracker.prefixes = (Committed + InHand) + SumFunctionOnSet(Sizes, X)
              /\ \A g \in At({"revoke"}) :
                    ban[job[g].id].state = "safety_blocked" => job[g].id \in X
              /\ tracker.prefixes <= HighWater
              /\ Committed \in Nat /\ SumFunctionOnSet(Sizes, X) \in Nat
              /\ X \in SUBSET DOMAIN ban
  BY LedgerNumbers
<1>2. /\ InHand \in Int /\ InHand' \in Int /\ Held(h) \in Int /\ Held(h)' \in Int
      /\ InHand' = (InHand - Held(h)) + Held(h)'
  BY InHandStep DEF IInv
<1>3. TypeOK /\ ban[r].count \in Nat /\ r \notin X
  <2>1. TypeOK
    BY DEF IInv
  <2>2. QED
    BY <2>1, RowTypes DEF Live, RulesWith
<1>4. /\ s \in {"pending", "active"} => Committed' = Committed
      /\ s \notin {"pending", "active"} => Committed' = Committed - ban[r].count
      /\ \A T \in SUBSET DOMAIN ban :
            SumFunctionOnSet(Sizes', T) = SumFunctionOnSet(Sizes, T)
  BY <1>3, CommittedBecomes
<1>5. \A g \in At({"revoke"})' : g # h /\ g \in At({"revoke"}) /\ job'[g] = job[g]
                                  /\ job[g].id \in DOMAIN ban
  BY DEF At, IInv, IdInv, Handling, Deciders
<1>6. CASE s = "safety_blocked"
  <2> DEFINE Y == X \cup {r}
  <2>1. SumFunctionOnSet(Sizes, Y) = Sizes[r] + SumFunctionOnSet(Sizes, X)
    <3>1. /\ IsFiniteSet(X)
          /\ \A i \in X \cup {r} : Sizes[i] \in Nat
      BY <1>1, <1>3, SizesTypes
    <3>2. \A i \in X \cup {r} : Sizes[i] \in Int
      BY <3>1
    <3>3. QED
      BY <1>3, <3>1, <3>2, SumOnSetAdd
  <2>2. Sizes[r] = ban[r].count
    BY DEF Sizes
  <2>3. Y \in SUBSET DOMAIN ban
    BY <1>1
  <2>4. Y \subseteq RulesWith({"safety_blocked"})'
    BY <1>1, <1>6 DEF RulesWith, Becomes
  <2>5. \A g \in At({"revoke"})' : ban'[job'[g].id].state = "safety_blocked" => job'[g].id \in Y
    BY <1>1, <1>5 DEF Becomes
  <2> HIDE DEF Y
  <2>6. tracker'.prefixes = (Committed' + InHand') + SumFunctionOnSet(Sizes', Y)
    BY <1>1, <1>2, <1>3, <1>4, <1>6, <2>1, <2>2, <2>3
  <2>7. QED
    BY <1>1, <2>4, <2>5, <2>6, LedgerNext
<1>7. CASE s # "safety_blocked"
  <2>1. X \subseteq RulesWith({"safety_blocked"})'
    BY <1>1, <1>3 DEF RulesWith, Becomes
  <2>2. \A g \in At({"revoke"})' : ban'[job'[g].id].state = "safety_blocked" => job'[g].id \in X
    BY <1>1, <1>5, <1>7 DEF Becomes
  <2>3. tracker'.prefixes = (Committed' + InHand') + SumFunctionOnSet(Sizes', X)
    BY <1>1, <1>2, <1>3, <1>4, <1>7
  <2>4. QED
    BY <1>1, <2>1, <2>2, <2>3, LedgerNext
<1>8. QED
  BY <1>6, <1>7

\* The guard blocks a rule that is not live any more.
LEMMA LedgerBlocks ==
    ASSUME IInv, TypeOK', ~astray, UNCHANGED tracker, NEW h \in Handlers,
           \A g \in Handlers \ {h} : job'[g] = job[g],
           NEW r \in DOMAIN ban, NEW u, Becomes(r, "safety_blocked", u), r \notin Live,
           job'[h].pc # "revoke", Held(h)' = Held(h)
    PROVE  LedgerInv'
<1>1. PICK X \in SUBSET RulesWith({"safety_blocked"}) :
              /\ tracker.prefixes = (Committed + InHand) + SumFunctionOnSet(Sizes, X)
              /\ \A g \in At({"revoke"}) :
                    ban[job[g].id].state = "safety_blocked" => job[g].id \in X
              /\ tracker.prefixes <= HighWater
              /\ Committed \in Nat /\ SumFunctionOnSet(Sizes, X) \in Nat
              /\ X \in SUBSET DOMAIN ban
  BY LedgerNumbers
<1>2. /\ InHand \in Int /\ InHand' \in Int /\ Held(h) \in Int
      /\ InHand' = (InHand - Held(h)) + Held(h)'
  BY InHandStep DEF IInv
<1>3. /\ Committed' = Committed
      /\ \A T \in SUBSET DOMAIN ban :
            SumFunctionOnSet(Sizes', T) = SumFunctionOnSet(Sizes, T)
  BY CommittedBecomes DEF IInv
<1>4. X \subseteq RulesWith({"safety_blocked"})'
  BY <1>1 DEF RulesWith, Becomes
<1>5. ASSUME NEW g \in At({"revoke"})', ban'[job'[g].id].state = "safety_blocked"
      PROVE  job'[g].id \in X
  <2>1. g # h /\ g \in At({"revoke"}) /\ job'[g] = job[g] /\ job[g].id \in DOMAIN ban
    BY DEF At, IInv, IdInv, Handling, Deciders
  <2>2. ban[job[g].id].state \in {"active", "safety_blocked"}
    BY <2>1 DEF IInv, DecideInv
  <2>3. ban[job[g].id].state = "safety_blocked"
    BY <1>5, <2>1, <2>2 DEF Live, RulesWith, Becomes
  <2>4. QED
    BY <1>1, <2>1, <2>3
<1>6. tracker'.prefixes = (Committed' + InHand') + SumFunctionOnSet(Sizes', X)
  BY <1>1, <1>2, <1>3
<1>7. QED
  BY <1>1, <1>4, <1>5, <1>6, LedgerNext

\* A rule the guard blocked is revoked all the same: what it was charged comes to hand.
LEMMA LedgerRevokes ==
    ASSUME IInv, TypeOK', ~astray, UNCHANGED tracker, NEW h \in Handlers,
           \A g \in Handlers \ {h} : job'[g] = job[g],
           job[h].pc = "revoke", job'[h].pc # "revoke", job[h].id \in DOMAIN ban,
           NEW u, Becomes(job[h].id, "revoked", u),
           ban[job[h].id].state = "safety_blocked",
           Held(h)' = Held(h) + ban[job[h].id].count
    PROVE  LedgerInv'
<1> DEFINE r == job[h].id
<1>1. PICK X \in SUBSET RulesWith({"safety_blocked"}) :
              /\ tracker.prefixes = (Committed + InHand) + SumFunctionOnSet(Sizes, X)
              /\ \A g \in At({"revoke"}) :
                    ban[job[g].id].state = "safety_blocked" => job[g].id \in X
              /\ tracker.prefixes <= HighWater
              /\ Committed \in Nat /\ SumFunctionOnSet(Sizes, X) \in Nat
              /\ X \in SUBSET DOMAIN ban
  BY LedgerNumbers
<1>2. /\ InHand \in Int /\ InHand' \in Int /\ Held(h) \in Int /\ Held(h)' \in Int
      /\ InHand' = (InHand - Held(h)) + Held(h)'
  BY InHandStep DEF IInv
<1>3. /\ Committed' = Committed
      /\ \A T \in SUBSET DOMAIN ban :
            SumFunctionOnSet(Sizes', T) = SumFunctionOnSet(Sizes, T)
  <2>1. r \notin Live
    BY DEF Live, RulesWith
  <2>2. QED
    BY <2>1, CommittedBecomes DEF IInv
<1>4. r \in X
  BY <1>1 DEF At
<1> DEFINE Y == X \ {r}
<1>5. Y \subseteq RulesWith({"safety_blocked"})'
  BY <1>1 DEF RulesWith, Becomes
<1>6. ASSUME NEW g \in At({"revoke"})', ban'[job'[g].id].state = "safety_blocked"
      PROVE  job'[g].id \in Y
  <2>1. g # h /\ g \in At({"revoke"}) /\ job'[g] = job[g] /\ job[g].id \in DOMAIN ban
    BY DEF At, IInv, IdInv, Handling, Deciders
  <2>2. g \in At(Deciders) /\ h \in At(Deciders)
    BY <2>1 DEF At, Deciders
  <2>3. job[g].id # r
    BY <2>1, <2>2 DEF IInv, DecideInv
  <2>4. QED
    BY <1>1, <1>6, <2>1, <2>3 DEF Becomes
<1>7. SumFunctionOnSet(Sizes, X) = Sizes[r] + SumFunctionOnSet(Sizes, Y)
  <2>1. IsFiniteSet(X) /\ \A i \in X : Sizes[i] \in Nat
    BY <1>1, SizesTypes DEF IInv
  <2>2. \A i \in X : Sizes[i] \in Int
    BY <2>1
  <2>3. QED
    BY <1>4, <2>1, <2>2, SumOnSetPick
<1>8. /\ Sizes[r] = ban[r].count /\ Sizes[r] \in Nat
      /\ SumFunctionOnSet(Sizes, Y) \in Nat
      /\ SumFunctionOnSet(Sizes', Y) = SumFunctionOnSet(Sizes, Y)
  <2>1. Y \in SUBSET DOMAIN ban
    BY <1>1
  <2>2. SumFunctionOnSet(Sizes', Y) = SumFunctionOnSet(Sizes, Y)
    BY <1>3, <2>1
  <2>3. SumFunctionOnSet(Sizes, Y) \in Nat
    BY <2>1, SizesTypes DEF IInv
  <2>4. Sizes[r] = ban[r].count /\ Sizes[r] \in Nat
    BY <1>1, <1>4, SizesTypes DEF IInv
  <2>5. QED
    BY <2>2, <2>3, <2>4
<1> HIDE DEF Y
<1>9. tracker'.prefixes = (Committed' + InHand') + SumFunctionOnSet(Sizes', Y)
  BY <1>1, <1>2, <1>3, <1>7, <1>8
<1>10. QED
  BY <1>1, <1>5, <1>6, <1>9, LedgerNext

\* A rule is resized, and what its handler held in hand is settled.
LEMMA LedgerResizes ==
    ASSUME IInv, TypeOK', ~astray, UNCHANGED tracker, NEW h \in Handlers,
           \A g \in Handlers \ {h} : job'[g] = job[g], job'[h].pc # "revoke",
           NEW r \in Live, NEW n \in Nat, DOMAIN ban' = DOMAIN ban,
           \A i \in DOMAIN ban \ {r} : ban'[i] = ban[i],
           ban'[r].count = n, ban'[r].state = ban[r].state,
           Held(h)' = Held(h) - (n - ban[r].count)
    PROVE  LedgerInv'
<1>1. PICK X \in SUBSET RulesWith({"safety_blocked"}) :
              /\ tracker.prefixes = (Committed + InHand) + SumFunctionOnSet(Sizes, X)
              /\ \A g \in At({"revoke"}) :
                    ban[job[g].id].state = "safety_blocked" => job[g].id \in X
              /\ tracker.prefixes <= HighWater
              /\ Committed \in Nat /\ SumFunctionOnSet(Sizes, X) \in Nat
  BY LedgerNumbers
<1>2. /\ InHand \in Int /\ InHand' \in Int /\ Held(h) \in Int /\ Held(h)' \in Int
      /\ InHand' = (InHand - Held(h)) + Held(h)'
  BY InHandStep DEF IInv
<1>3. r \in DOMAIN ban /\ X \in SUBSET (DOMAIN ban \ {r}) /\ ban[r].count \in Nat
  <2>1. r \in DOMAIN ban /\ X \in SUBSET (DOMAIN ban \ {r})
    BY DEF Live, RulesWith
  <2>2. QED
    BY <2>1, RowTypes DEF IInv
<1>4. Committed' = (Committed - ban[r].count) + n
      /\ SumFunctionOnSet(Sizes', X) = SumFunctionOnSet(Sizes, X)
  BY <1>3, CommittedResized DEF IInv
<1>5. RulesWith({"safety_blocked"})' = RulesWith({"safety_blocked"})
  BY DEF RulesWith
<1>6. \A g \in At({"revoke"})' : ban'[job'[g].id].state = "safety_blocked" => job'[g].id \in X
  <2>1. \A g \in At({"revoke"})' : g # h /\ g \in At({"revoke"}) /\ job'[g] = job[g]
                                    /\ job[g].id \in DOMAIN ban
    BY DEF At, IInv, IdInv, Handling, Deciders
  <2>2. QED
    BY <1>1, <2>1
<1>7. tracker'.prefixes = (Committed' + InHand') + SumFunctionOnSet(Sizes', X)
  BY <1>1, <1>2, <1>3, <1>4
<1>8. QED
  BY <1>1, <1>5, <1>6, <1>7, LedgerNext

\* A new rule has what its handler held in hand.
LEMMA LedgerGrows ==
    ASSUME IInv, TypeOK', ~astray, UNCHANGED tracker, NEW h \in Handlers,
           \A g \in Handlers \ {h} : job'[g] = job[g], job'[h].pc # "revoke",
           NEW row \in Row, row.state = "pending", Grows(row),
           Held(h)' = Held(h) - row.count
    PROVE  LedgerInv'
<1>1. PICK X \in SUBSET RulesWith({"safety_blocked"}) :
              /\ tracker.prefixes = (Committed + InHand) + SumFunctionOnSet(Sizes, X)
              /\ \A g \in At({"revoke"}) :
                    ban[job[g].id].state = "safety_blocked" => job[g].id \in X
              /\ tracker.prefixes <= HighWater
              /\ Committed \in Nat /\ SumFunctionOnSet(Sizes, X) \in Nat
              /\ X \in SUBSET DOMAIN ban
  BY LedgerNumbers
<1>2. /\ InHand \in Int /\ InHand' \in Int /\ Held(h) \in Int /\ Held(h)' \in Int
      /\ InHand' = (InHand - Held(h)) + Held(h)'
  BY InHandStep DEF IInv
<1>3. Committed' = Committed + row.count /\ row.count \in Nat
      /\ SumFunctionOnSet(Sizes', X) = SumFunctionOnSet(Sizes, X)
  BY <1>1, CommittedGrows DEF IInv, Row
<1>4. X \subseteq RulesWith({"safety_blocked"})'
  BY <1>1 DEF RulesWith, Grows
<1>5. \A g \in At({"revoke"})' : ban'[job'[g].id].state = "safety_blocked" => job'[g].id \in X
  <2>1. \A g \in At({"revoke"})' : g # h /\ g \in At({"revoke"}) /\ job'[g] = job[g]
                                    /\ job[g].id \in DOMAIN ban
    BY DEF At, IInv, IdInv, Handling, Deciders
  <2>2. QED
    BY <1>1, <2>1 DEF Grows
<1>6. tracker'.prefixes = (Committed' + InHand') + SumFunctionOnSet(Sizes', X)
  BY <1>1, <1>2, <1>3
<1>7. QED
  BY <1>1, <1>4, <1>5, <1>6, LedgerNext

\* A restart recomputes the sum of the live rules, and X is forgotten.
LEMMA LedgerRestarts ==
    ASSUME IInv, TypeOK', ~astray, At({"take", "restore", "resize"}) = {},
           UNCHANGED ban, tracker' = RestoreQuota,
           \A h \in Handlers : job'[h] = NoJob /\ job'[h].pc = "idle"
    PROVE  LedgerInv'
<1>1. PICK X \in SUBSET RulesWith({"safety_blocked"}) :
              /\ tracker.prefixes = (Committed + InHand) + SumFunctionOnSet(Sizes, X)
              /\ tracker.prefixes <= HighWater /\ tracker.prefixes \in Nat
              /\ Committed \in Nat /\ SumFunctionOnSet(Sizes, X) \in Nat
  BY LedgerNumbers
<1>2. InHand \in Nat
  BY InHandNat DEF IInv
<1>3. Committed <= HighWater
  <2>1. HighWater \in Nat
    BY LimitAssumption
  <2>2. QED
    BY <1>1, <1>2, <2>1
<1>4. Committed' = Committed /\ tracker'.prefixes = Committed
  BY DEF Committed, Total, RulesWith, RestoreQuota
<1>5. InHand' = 0
  <2>1. \A h \in Handlers : InHands'[h] = 0
    <3>1. SUFFICES ASSUME NEW h \in Handlers PROVE Held(h)' = 0
      BY DEF InHands
    <3>2. job'[h].pc = "idle"
      OBVIOUS
    <3>3. Holds(h)'
      BY HeldNext
    <3>4. QED
      BY <3>2, <3>3 DEF Holds
  <2>2. (InHand = SumFunctionOnSet(InHands, Handlers))'
    BY InHandIs, PTL
  <2>3. SumFunctionOnSet(InHands', Handlers) = 0
    BY <2>1, HandlersAssumption, SumOnSetZero
  <2>4. QED
    BY <2>2, <2>3
<1>6. SumFunctionOnSet(Sizes', {}) = 0
  BY SumOnSetEmpty
<1>7. \A h \in At({"revoke"})' : ban'[job'[h].id].state = "safety_blocked" => job'[h].id \in {}
  BY DEF At
<1>8. tracker'.prefixes = (Committed' + InHand') + SumFunctionOnSet(Sizes', {})
  BY <1>1, <1>4, <1>5, <1>6
<1>9. QED
  BY <1>3, <1>4, <1>7, <1>8, LedgerNext

LEMMA LedgerSame ==
    ASSUME LedgerInv, UNCHANGED <<ban, tracker, job, astray>>
    PROVE  LedgerInv'
<1>1. \A S : RulesWith(S)' = RulesWith(S)
  BY DEF RulesWith
<1>2. \A T : Total(T)' = Total(T)
  BY DEF Total
<1>3. Committed' = Committed
  BY DEF Committed, Total, RulesWith
<1>4. InHand' = InHand
  BY DEF InHand, Held
<1>5. \A X : Accounted(X) => Accounted(X)'
  BY <1>2, <1>3, <1>4 DEF Accounted, At
<1>6. QED
  BY <1>1, <1>5 DEF LedgerInv

LEMMA LedgerStays ==
    ASSUME IInv, TypeOK', ~astray, UNCHANGED <<ban, tracker>>, NEW h \in Handlers,
           \A g \in Handlers \ {h} : job'[g] = job[g], Held(h)' = Held(h),
           job'[h].pc = "revoke" => ban[job'[h].id].state = "active"
    PROVE  LedgerInv'
<1>1. tracker.prefixes \in Nat /\ tracker.prefixes <= HighWater
  BY LedgerNumbers
<1>2. Held(h) \in Int
  BY HeldIs DEF IInv, Holds
<1>3. tracker'.prefixes = tracker.prefixes + (Held(h)' - Held(h))
  BY <1>1, <1>2
<1>4. QED
  BY <1>1, <1>3, LedgerMoves

LEMMA LedgerKept ==
    ASSUME IInv, [Next]_vars
    PROVE  LedgerInv'
<1>1. ASSUME NEW h \in Handlers, CreateReserve(h) PROVE LedgerInv'
  <2> SUFFICES ASSUME ~astray' PROVE LedgerInv'
    BY DEF LedgerInv
  <2>1. TypeOK /\ IdInv /\ TypeOK'
    BY <1>1, ReserveStep DEF IInv
  <2>2. Holds(h) /\ Holds(h)'
    BY <2>1, HeldIs, HeldNext
  <2>3. CASE Done(h) /\ UNCHANGED tracker
    BY <1>1, <2>1, <2>2, <2>3, ReserveStep, LedgerStays DEF Done, Holds
  <2>4. CASE /\ To(h, "insert")
             /\ tracker'.prefixes = tracker.prefixes + job[h].count
             /\ tracker'.prefixes <= HighWater
    <3>1. Held(h) = 0 /\ Held(h)' = job[h].count
      BY <1>1, <2>1, <2>2, <2>4, ReserveStep DEF To, Holds
    <3>2. tracker'.prefixes = tracker.prefixes + (Held(h)' - Held(h))
      BY <2>2, <2>4, <3>1 DEF Holds
    <3>3. QED
      BY <1>1, <2>1, <2>4, <3>2, ReserveStep, LedgerMoves DEF To
  <2>5. QED
    BY <1>1, <2>1, <2>3, <2>4, ReserveStep
<1>2. ASSUME NEW h \in Handlers, CreateInsert(h) PROVE LedgerInv'
  <2> SUFFICES ASSUME ~astray' PROVE LedgerInv'
    BY DEF LedgerInv
  <2>1. TypeOK /\ IdInv /\ TypeOK'
    BY <1>2, InsertStep DEF IInv
  <2>2. Holds(h) /\ Holds(h)'
    BY <2>1, HeldIs, HeldNext
  <2>3. CASE Done(h) /\ Grows(job[h].row)
    <3>1. job[h].row \in Row /\ job[h].row.state = "pending"
          /\ job[h].row.count = job[h].count /\ job[h].count \in Nat
      BY <1>2, <2>1, InsertStep, JobTypes DEF IdInv, At, Drafting
    <3>2. Held(h)' = Held(h) - job[h].row.count /\ job'[h].pc # "revoke"
      BY <1>2, <2>1, <2>2, <2>3, <3>1, InsertStep DEF Done, Holds
    <3>3. QED
      BY <1>2, <2>1, <2>3, <3>1, <3>2, InsertStep, LedgerGrows DEF Done
  <2>4. CASE To(h, "release") /\ UNCHANGED ban
    BY <1>2, <2>1, <2>2, <2>4, InsertStep, LedgerStays DEF To, Holds
  <2>5. QED
    BY <1>2, <2>1, <2>3, <2>4, InsertStep
<1>3. ASSUME NEW h \in Handlers, CreateRelease(h) PROVE LedgerInv'
  <2> SUFFICES ASSUME ~astray' PROVE LedgerInv'
    BY DEF LedgerInv
  <2>1. TypeOK /\ IdInv /\ TypeOK'
    BY <1>3, ReleaseStep DEF IInv
  <2>2. Holds(h) /\ Holds(h)'
    BY <2>1, HeldIs, HeldNext
  <2>3. IdInv' /\ DecideInv'
    BY <1>3, IdKept, DecideKept DEF Next, Step
  <2>4. job[h].count \in Nat /\ Held(h)' = Held(h) - job[h].count /\ job'[h].pc # "revoke"
    BY <1>3, <2>1, <2>2, ReleaseStep, JobTypes DEF Done, Holds, Row
  <2>5. \A g \in Handlers \ {h} : job'[g] = job[g]
    BY <1>3, <2>1, ReleaseStep DEF Done
  <2>6. ~astray /\ UNCHANGED ban /\ tracker' = Release(job[h].count)
    BY <1>3, <2>1, ReleaseStep
  <2>7. /\ tracker'.prefixes = tracker.prefixes + (Held(h)' - Held(h))
        /\ tracker'.prefixes <= HighWater
    BY <2>1, <2>3, <2>4, <2>5, <2>6, ReleaseWhole
  <2>8. QED
    BY <2>1, <2>4, <2>5, <2>6, <2>7, LedgerMoves
<1>4. ASSUME NEW h \in Handlers, ApproveUpdate(h) PROVE LedgerInv'
  <2> SUFFICES ASSUME ~astray' PROVE LedgerInv'
    BY DEF LedgerInv
  <2>1. TypeOK /\ IdInv /\ TypeOK'
    BY <1>4, ActivateStep DEF IInv
  <2>2. Holds(h) /\ Holds(h)'
    BY <2>1, HeldIs, HeldNext
  <2>3. CASE Done(h) /\ UNCHANGED ban
    BY <1>4, <2>1, <2>2, <2>3, ActivateStep, LedgerStays DEF Done, Holds
  <2>4. CASE To(h, "resolve") /\ Becomes(job[h].id, "active", job[h].row.approver)
    <3>1. job[h].id \in Live
      BY <1>4, <2>1, ActivateStep DEF IInv, DecideInv, At, Live, RulesWith
    <3>2. Held(h)' = Held(h) /\ job'[h].pc # "revoke"
      BY <1>4, <2>1, <2>2, <2>4, ActivateStep DEF To, Holds
    <3>3. QED
      BY <1>4, <2>1, <2>4, <3>1, <3>2, ActivateStep, LedgerBecomes DEF To
  <2>5. QED
    BY <1>4, <2>1, <2>3, <2>4, ActivateStep
<1>5. ASSUME NEW h \in Handlers, ApproveResolve(h) PROVE LedgerInv'
  <2> SUFFICES ASSUME ~astray' PROVE LedgerInv'
    BY DEF LedgerInv
  <2>1. TypeOK /\ IdInv /\ TypeOK'
    BY <1>5, ResolveStep DEF IInv
  <2>2. Holds(h) /\ Holds(h)'
    BY <2>1, HeldIs, HeldNext
  <2>3. Held(h)' = Held(h) /\ job'[h].pc # "revoke"
    BY <1>5, <2>1, <2>2, ResolveStep DEF Done, Holds
  <2>4. \A g \in Handlers \ {h} : job'[g] = job[g]
    BY <1>5, <2>1, ResolveStep DEF Done
  <2>5. QED
    BY <1>5, <2>1, <2>3, <2>4, ResolveStep, LedgerStays
<1>6. ASSUME NEW h \in Handlers, DriftReturn(h) PROVE LedgerInv'
  <2> SUFFICES ASSUME ~astray' PROVE LedgerInv'
    BY DEF LedgerInv
  <2>1. TypeOK /\ IdInv /\ TypeOK'
    BY <1>6, ReturnStep DEF IInv
  <2>2. Holds(h) /\ Holds(h)'
    BY <2>1, HeldIs, HeldNext
  <2>3. IdInv' /\ DecideInv'
    BY <1>6, IdKept, DecideKept DEF Next, Step
  <2>4. job[h].row.count \in Nat /\ Held(h)' = Held(h) - job[h].row.count /\ job'[h].pc # "revoke"
    BY <1>6, <2>1, <2>2, ReturnStep, JobTypes DEF To, Holds, Row
  <2>5. \A g \in Handlers \ {h} : job'[g] = job[g]
    BY <1>6, <2>1, ReturnStep DEF To
  <2>6. ~astray /\ UNCHANGED ban /\ tracker' = Release(job[h].row.count)
    BY <1>6, <2>1, ReturnStep
  <2>7. /\ tracker'.prefixes = tracker.prefixes + (Held(h)' - Held(h))
        /\ tracker'.prefixes <= HighWater
    BY <2>1, <2>3, <2>4, <2>5, <2>6, ReleaseWhole
  <2>8. QED
    BY <2>1, <2>4, <2>5, <2>6, <2>7, LedgerMoves
<1>7. ASSUME NEW h \in Handlers, DriftTake(h) PROVE LedgerInv'
  <2> SUFFICES ASSUME ~astray' PROVE LedgerInv'
    BY DEF LedgerInv
  <2>1. TypeOK /\ IdInv /\ TypeOK'
    BY <1>7, TakeStep DEF IInv
  <2>2. Holds(h) /\ Holds(h)'
    BY <2>1, HeldIs, HeldNext
  <2>3. CASE To(h, "restore") /\ UNCHANGED tracker
    BY <1>7, <2>1, <2>2, <2>3, TakeStep, LedgerStays DEF To, Holds
  <2>4. CASE /\ To(h, "resize")
             /\ tracker'.prefixes = tracker.prefixes + job[h].count
             /\ tracker'.prefixes <= HighWater
    <3>1. job[h].count \in Nat /\ job[h].row.count \in Nat /\ tracker.prefixes \in Nat
      BY <1>7, <2>1, TakeStep, JobTypes DEF Row, TypeOK, Tracker
    <3>2. Held(h) = -job[h].row.count /\ Held(h)' = job[h].count - job[h].row.count
      BY <1>7, <2>1, <2>2, <2>4, TakeStep DEF To, Holds
    <3>3. tracker'.prefixes = tracker.prefixes + (Held(h)' - Held(h))
      BY <2>4, <3>1, <3>2
    <3>4. QED
      BY <1>7, <2>1, <2>4, <3>3, TakeStep, LedgerMoves DEF To
  <2>5. QED
    BY <1>7, <2>1, <2>3, <2>4, TakeStep
<1>8. ASSUME NEW h \in Handlers, DriftRestore(h) PROVE LedgerInv'
  <2> SUFFICES ASSUME ~astray' PROVE LedgerInv'
    BY DEF LedgerInv
  <2>1. TypeOK /\ IdInv /\ TypeOK'
    BY <1>8, RestoreStep DEF IInv
  <2>2. Holds(h) /\ Holds(h)'
    BY <2>1, HeldIs, HeldNext
  <2>3. /\ UNCHANGED astray
        /\ tracker'.prefixes = tracker.prefixes + job[h].row.count
        /\ tracker'.prefixes <= HighWater
    BY <1>8, <2>1, RestoreStep
  <2>4. job[h].row.count \in Nat /\ tracker.prefixes \in Nat
    BY <1>8, <2>1, RestoreStep, JobTypes DEF Row, TypeOK, Tracker
  <2>5. Held(h) = -job[h].row.count /\ Held(h)' = 0
    BY <1>8, <2>1, <2>2, RestoreStep DEF Done, Holds
  <2>6. tracker'.prefixes = tracker.prefixes + (Held(h)' - Held(h))
    BY <2>3, <2>4, <2>5
  <2>7. QED
    BY <1>8, <2>1, <2>3, <2>6, RestoreStep, LedgerMoves DEF Done
<1>9. ASSUME NEW h \in Handlers, DriftResize(h) PROVE LedgerInv'
  <2> SUFFICES ASSUME ~astray' PROVE LedgerInv'
    BY DEF LedgerInv
  <2>1. TypeOK /\ IdInv /\ TypeOK'
    BY <1>9, ResizeStep DEF IInv
  <2>2. Holds(h) /\ Holds(h)'
    BY <2>1, HeldIs, HeldNext
  <2>3. /\ UNCHANGED <<faults, astray>>
        /\ \A i \in DOMAIN ban \ {job[h].id} : ban'[i] = ban[i]
        /\ ban'[job[h].id].count = job[h].count
        /\ ban'[job[h].id].state = ban[job[h].id].state
    BY <1>9, <2>1, ResizeStep
  <2>4. job[h].id \in Live /\ job[h].row.count = ban[job[h].id].count
    BY <1>9, <2>1, <2>3, ResizeStep
    DEF IInv, DecideInv, At, Deciders, Sizing, Live, RulesWith
  <2>5. job[h].count \in Nat /\ job[h].row.count \in Nat
    BY <1>9, <2>1, ResizeStep, JobTypes DEF Row
  <2>6. Held(h) = job[h].count - job[h].row.count /\ Held(h)' = 0
    BY <1>9, <2>1, <2>2, ResizeStep DEF To, Holds
  <2>7. Held(h)' = Held(h) - (job[h].count - ban[job[h].id].count)
    BY <2>4, <2>5, <2>6
  <2>8. QED
    BY <1>9, <2>1, <2>3, <2>4, <2>5, <2>7, ResizeStep, LedgerResizes DEF To
<1>10. ASSUME NEW h \in Handlers, SafetyCheck(h) PROVE LedgerInv'
  <2> SUFFICES ASSUME ~astray' PROVE LedgerInv'
    BY DEF LedgerInv
  <2>1. TypeOK /\ IdInv /\ TypeOK'
    BY <1>10, CheckStep DEF IInv
  <2>2. Holds(h) /\ Holds(h)'
    BY <2>1, HeldIs, HeldNext
  <2>3. Held(h)' = Held(h) /\ job'[h].pc # "revoke"
    BY <1>10, <2>1, <2>2, CheckStep DEF To, Done, Holds
  <2>4. \A g \in Handlers \ {h} : job'[g] = job[g]
    BY <1>10, <2>1, CheckStep DEF To, Done
  <2>5. QED
    BY <1>10, <2>1, <2>3, <2>4, CheckStep, LedgerStays
<1>11. ASSUME NEW h \in Handlers, SafetyBlock(h) PROVE LedgerInv'
  <2> SUFFICES ASSUME ~astray' PROVE LedgerInv'
    BY DEF LedgerInv
  <2>1. TypeOK /\ IdInv /\ TypeOK'
    BY <1>11, BlockStep DEF IInv
  <2>2. Holds(h) /\ Holds(h)'
    BY <2>1, HeldIs, HeldNext
  <2>3. Held(h)' = Held(h) /\ job'[h].pc # "revoke"
    BY <1>11, <2>1, <2>2, BlockStep DEF Done, Holds
  <2>4. \A g \in Handlers \ {h} : job'[g] = job[g]
    BY <1>11, <2>1, BlockStep DEF Done
  <2>5. CASE UNCHANGED ban
    BY <1>11, <2>1, <2>3, <2>4, <2>5, BlockStep, LedgerStays
  <2>6. CASE Becomes(job[h].id, "safety_blocked", ban[job[h].id].approver)
    <3>1. CASE job[h].id \in Live
      BY <1>11, <2>1, <2>3, <2>4, <2>6, <3>1, BlockStep, LedgerBecomes
    <3>2. CASE job[h].id \notin Live
      BY <1>11, <2>1, <2>3, <2>4, <2>6, <3>2, BlockStep, LedgerBlocks
    <3>3. QED
      BY <3>1, <3>2
  <2>7. QED
    BY <1>11, <2>1, <2>5, <2>6, BlockStep
<1>12. ASSUME NEW h \in Handlers, DispatchLookup(h) PROVE LedgerInv'
  <2> SUFFICES ASSUME ~astray' PROVE LedgerInv'
    BY DEF LedgerInv
  <2>1. TypeOK /\ IdInv /\ TypeOK'
    BY <1>12, LookupStep DEF IInv
  <2>2. Holds(h) /\ Holds(h)'
    BY <2>1, HeldIs, HeldNext
  <2>3. Held(h)' = Held(h) /\ job'[h].pc # "revoke"
    BY <1>12, <2>1, <2>2, LookupStep DEF To, Done, Holds
  <2>4. \A g \in Handlers \ {h} : job'[g] = job[g]
    BY <1>12, <2>1, LookupStep DEF To, Done
  <2>5. QED
    BY <1>12, <2>1, <2>3, <2>4, LookupStep, LedgerStays
<1>13. ASSUME NEW h \in Handlers, CreateScopedDispatch(h) PROVE LedgerInv'
  <2> SUFFICES ASSUME ~astray' PROVE LedgerInv'
    BY DEF LedgerInv
  <2>1. TypeOK /\ IdInv /\ TypeOK'
    BY <1>13, DispatchStep DEF IInv
  <2>2. Holds(h) /\ Holds(h)'
    BY <2>1, HeldIs, HeldNext
  <2>3. Held(h)' = Held(h) /\ job'[h].pc # "revoke"
    BY <1>13, <2>1, <2>2, DispatchStep DEF To, Done, Holds
  <2>4. \A g \in Handlers \ {h} : job'[g] = job[g]
    BY <1>13, <2>1, DispatchStep DEF To, Done
  <2>5. QED
    BY <1>13, <2>1, <2>3, <2>4, DispatchStep, LedgerStays
<1>14. ASSUME NEW h \in Handlers, RejectUpdate(h) PROVE LedgerInv'
  <2> SUFFICES ASSUME ~astray' PROVE LedgerInv'
    BY DEF LedgerInv
  <2>1. TypeOK /\ IdInv /\ TypeOK'
    BY <1>14, RejectStep DEF IInv
  <2>2. Holds(h) /\ Holds(h)'
    BY <2>1, HeldIs, HeldNext
  <2>3. /\ UNCHANGED astray
        /\ Becomes(job[h].id, "rejected", ban[job[h].id].approver)
    BY <1>14, <2>1, RejectStep
  <2>4. job[h].id \in Live /\ job[h].row.count = ban[job[h].id].count
    BY <1>14, <2>1, <2>3, RejectStep DEF IInv, DecideInv, At, Deciders, Live, RulesWith
  <2>5. Held(h)' = Held(h) + ban[job[h].id].count
    BY <1>14, <2>1, <2>2, <2>4, RejectStep DEF To, Holds
  <2>6. QED
    BY <1>14, <2>1, <2>3, <2>4, <2>5, RejectStep, LedgerBecomes DEF To
<1>15. ASSUME NEW h \in Handlers, RevokeUpdate(h) PROVE LedgerInv'
  <2> SUFFICES ASSUME ~astray' PROVE LedgerInv'
    BY DEF LedgerInv
  <2>1. TypeOK /\ IdInv /\ TypeOK'
    BY <1>15, RevokeStep DEF IInv
  <2>2. Holds(h) /\ Holds(h)'
    BY <2>1, HeldIs, HeldNext
  <2>3. /\ UNCHANGED astray
        /\ Becomes(job[h].id, "revoked", ban[job[h].id].approver)
    BY <1>15, <2>1, RevokeStep
  <2>4. /\ job[h].row.count = ban[job[h].id].count
        /\ ban[job[h].id].state \in {"active", "safety_blocked"}
    BY <1>15, <2>1, <2>3, RevokeStep DEF IInv, DecideInv, At, Deciders
  <2>5. Held(h)' = Held(h) + ban[job[h].id].count
    BY <1>15, <2>1, <2>2, <2>4, RevokeStep DEF To, Holds
  <2>6. CASE ban[job[h].id].state = "active"
    <3>1. job[h].id \in Live
      BY <1>15, <2>1, <2>6, RevokeStep DEF Live, RulesWith
    <3>2. QED
      BY <1>15, <2>1, <2>3, <2>5, <3>1, RevokeStep, LedgerBecomes DEF To
  <2>7. CASE ban[job[h].id].state = "safety_blocked"
    BY <1>15, <2>1, <2>3, <2>5, <2>7, RevokeStep, LedgerRevokes DEF To
  <2>8. QED
    BY <2>4, <2>6, <2>7
<1>16. ASSUME NEW h \in Handlers, GiveBack(h) PROVE LedgerInv'
  <2> SUFFICES ASSUME ~astray' PROVE LedgerInv'
    BY DEF LedgerInv
  <2>1. TypeOK /\ IdInv /\ TypeOK'
    BY <1>16, GiveBackStep DEF IInv
  <2>2. Holds(h) /\ Holds(h)'
    BY <2>1, HeldIs, HeldNext
  <2>3. IdInv' /\ DecideInv'
    BY <1>16, IdKept, DecideKept DEF Next, Step
  <2>4. job[h].row.count \in Nat /\ Held(h)' = Held(h) - job[h].row.count /\ job'[h].pc # "revoke"
    BY <1>16, <2>1, <2>2, GiveBackStep, JobTypes DEF Done, Holds, Row
  <2>5. \A g \in Handlers \ {h} : job'[g] = job[g]
    BY <1>16, <2>1, GiveBackStep DEF Done
  <2>6. ~astray /\ UNCHANGED ban /\ tracker' = Release(job[h].row.count)
    BY <1>16, <2>1, GiveBackStep
  <2>7. /\ tracker'.prefixes = tracker.prefixes + (Held(h)' - Held(h))
        /\ tracker'.prefixes <= HighWater
    BY <2>1, <2>3, <2>4, <2>5, <2>6, ReleaseWhole
  <2>8. QED
    BY <2>1, <2>4, <2>5, <2>6, <2>7, LedgerMoves
<1>17. ASSUME NEW h \in Handlers, NEW u \in Users, NEW host \in Hosts,
              NEW s \in Selectors, NEW ack \in BOOLEAN,
            ScopedBanCreate(h, u, host, s, ack)
      PROVE  LedgerInv'
  <2> SUFFICES ASSUME ~astray' PROVE LedgerInv'
    BY DEF LedgerInv
  <2>1. TypeOK /\ IdInv /\ TypeOK'
    BY <1>17, CreateStep DEF IInv
  <2>2. Holds(h) /\ Holds(h)'
    BY <2>1, HeldIs, HeldNext
  <2>3. Held(h)' = Held(h) /\ job'[h].pc # "revoke"
    BY <1>17, <2>1, <2>2, CreateStep DEF Holds
  <2>4. QED
    BY <1>17, <2>1, <2>3, CreateStep, LedgerStays
<1>18. ASSUME NEW h \in Handlers, NEW u \in Users,
              NEW r \in 1..MaxBans, ScopedBanApprove(h, u, r)
      PROVE  LedgerInv'
  <2> SUFFICES ASSUME ~astray' PROVE LedgerInv'
    BY DEF LedgerInv
  <2>1. TypeOK /\ IdInv /\ TypeOK'
    BY <1>18, ApproveStep DEF IInv
  <2>2. Holds(h) /\ Holds(h)'
    BY <2>1, HeldIs, HeldNext
  <2>3. Held(h)' = Held(h)
        /\ (job'[h].pc = "revoke" => ban[job'[h].id].state = "active")
    BY <1>18, <2>1, <2>2, ApproveStep DEF Begins, Holds
  <2>4. QED
    BY <1>18, <2>1, <2>3, ApproveStep, LedgerStays DEF Begins
<1>19. ASSUME NEW h \in Handlers, NEW u \in Users,
              NEW r \in 1..MaxBans, ScopedBanReject(h, u, r)
      PROVE  LedgerInv'
  <2> SUFFICES ASSUME ~astray' PROVE LedgerInv'
    BY DEF LedgerInv
  <2>1. TypeOK /\ IdInv /\ TypeOK'
    BY <1>19, RefuseStep DEF IInv
  <2>2. Holds(h) /\ Holds(h)'
    BY <2>1, HeldIs, HeldNext
  <2>3. Held(h)' = Held(h)
        /\ (job'[h].pc = "revoke" => ban[job'[h].id].state = "active")
    BY <1>19, <2>1, <2>2, RefuseStep DEF Begins, Holds
  <2>4. QED
    BY <1>19, <2>1, <2>3, RefuseStep, LedgerStays DEF Begins
<1>20. ASSUME NEW h \in Handlers, NEW u \in Users,
              NEW r \in 1..MaxBans, ScopedBanRevoke(h, u, r)
      PROVE  LedgerInv'
  <2> SUFFICES ASSUME ~astray' PROVE LedgerInv'
    BY DEF LedgerInv
  <2>1. TypeOK /\ IdInv /\ TypeOK'
    BY <1>20, WithdrawStep DEF IInv
  <2>2. Holds(h) /\ Holds(h)'
    BY <2>1, HeldIs, HeldNext
  <2>3. Held(h)' = Held(h)
        /\ (job'[h].pc = "revoke" => ban[job'[h].id].state = "active")
    BY <1>20, <2>1, <2>2, WithdrawStep DEF Begins, Holds
  <2>4. QED
    BY <1>20, <2>1, <2>3, WithdrawStep, LedgerStays DEF Begins
<1>21. ASSUME NEW v \in Versions, SetGlobal(v) PROVE LedgerInv'
  BY <1>21, SwapStep, LedgerSame DEF IInv
<1>22. ASSUME NEW host \in Hosts, EditProtected(host) PROVE LedgerInv'
  BY <1>22, EditStep, LedgerSame DEF IInv
<1>23. ASSUME NEW v \in Versions \cup {NoDB}, Restart(v) PROVE LedgerInv'
  <2> SUFFICES ASSUME ~astray' PROVE LedgerInv'
    BY DEF LedgerInv
  <2>1. TypeOK
    BY DEF IInv
  <2>2. QED
    BY <1>23, <2>1, RestartStep, LedgerRestarts
<1>24. CASE UNCHANGED vars
  BY <1>24, LedgerSame DEF vars, IInv
<1>25. QED
  BY <1>1, <1>2, <1>3, <1>4, <1>5, <1>6, <1>7, <1>8, <1>9,
     <1>10, <1>11, <1>12, <1>13, <1>14, <1>15, <1>16, <1>17, <1>18,
     <1>19, <1>20, <1>21, <1>22, <1>23, <1>24
     DEF Next, Step, Arrive

-----------------------------------------------------------------------------
(* The invariant holds, and what it says *)

LEMMA InvInit ==
    ASSUME Init
    PROVE  IInv
<1>1. TypeOK
  <2>1. /\ 0 \in 0..MaxFaults /\ 0 \in 0..MaxCrashes /\ 0 \in 0..MaxSwaps
        /\ 0 \in 0..MaxEdits /\ 0 <= MaxBans
    <3>1. MaxFaults \in Nat /\ MaxCrashes \in Nat /\ MaxSwaps \in Nat /\ MaxEdits \in Nat
          /\ MaxBans \in Nat
      BY BoundAssumption
    <3>2. QED
      BY <3>1
  <2>2. <<>> \in Seq(Row) /\ Len(<<>>) = 0
    OBVIOUS
  <2>3. [prefixes |-> 0, rules |-> 0] \in Tracker
    BY DEF Tracker
  <2>4. [h \in Handlers |-> NoJob] \in [Handlers -> Job]
    BY DEF Job
  <2>5. QED
    BY <2>1, <2>2, <2>3, <2>4 DEF Init, TypeOK
<1>2. /\ \A h \in Handlers : job[h] = NoJob /\ job[h].pc = "idle"
      /\ DOMAIN ban = {} /\ ban = <<>> /\ dispatch = {} /\ tracker.prefixes = 0
  BY DEF Init, NoJob
<1>3. IdInv
  BY <1>2 DEF IdInv, At, Drafting, Handling, Deciders, Sizing, Ordering
<1>4. DecideInv
  BY <1>2 DEF DecideInv, At, Deciders, Sizing
<1>5. OrderInv
  BY <1>2 DEF OrderInv, At, Ordering
<1>6. SizeInv
  BY <1>2 DEF SizeInv, At
<1>7. OrderedInv
  BY <1>2 DEF OrderedInv, RulesWith
<1>8. GovernInv
  BY <1>2 DEF GovernInv, At, Sizing, Ordering
<1>9. LedgerInv
  <2>1. RulesWith({"safety_blocked"}) = {} /\ Live = {}
    BY <1>2 DEF RulesWith, Live
  <2>2. Total({}) = 0
    BY TotalIs, SumOnSetEmpty
  <2>3. Committed = 0
    BY <1>1, <2>1, SizesTypes, SumOnSetEmpty
  <2>4. InHand = 0
    <3>1. \A h \in Handlers : InHands[h] = 0
      BY <1>1, <1>2, HeldIs DEF InHands, Holds
    <3>2. QED
      BY <3>1, InHandIs, HandlersAssumption, SumOnSetZero
  <2>5. Accounted({})
    BY <1>2, <2>2, <2>3, <2>4 DEF Accounted, At
  <2>6. 0 <= HighWater
    BY LimitAssumption
  <2>7. QED
    BY <1>2, <2>5, <2>6 DEF LedgerInv
<1>10. QED
  BY <1>1, <1>3, <1>4, <1>5, <1>6, <1>7, <1>8, <1>9 DEF IInv

LEMMA InvNext ==
    ASSUME IInv, [Next]_vars
    PROVE  IInv'
  BY TypeKept, IdKept, DecideKept, OrderKept, LedgerKept, SizeKept, OrderedKept, GovernKept
     DEF IInv

LEMMA Invariance == Spec => []IInv
<1>1. Init => IInv
  BY InvInit
<1>2. IInv /\ [Next]_vars => IInv'
  BY InvNext
<1>3. QED
  BY <1>1, <1>2, PTL DEF Spec

\* The rows, the quota and the handlers' locals keep their types; in particular the
\* quota never goes below zero, which Tracker.Release cuts off.
THEOREM TypeCorrect == Spec => []TypeOK
<1>1. IInv => TypeOK
  BY DEF IInv
<1>2. QED
  BY <1>1, Invariance, PTL

\* The tracker of internal/quota accounts for the live rules and what the handlers
\* hold, and exceeds that by no more than the blocked rules, however the statements of
\* scopedBanCreate, Approve, Reject and Revoke interleave, as long as nothing goes astray;
\* a restart whose restoreQuota finds no rows where there are some is astray.
THEOREM LedgerHolds == Spec => []Ledger
<1>1. IInv => Ledger
  <2> SUFFICES ASSUME IInv, ~astray
               PROVE  /\ Committed + InHand <= tracker.prefixes
                      /\ tracker.prefixes <=
                            Committed + InHand + Total(RulesWith({"safety_blocked"}))
    BY DEF Ledger
  <2> DEFINE blocked == RulesWith({"safety_blocked"})
  <2>1. PICK X \in SUBSET blocked :
              /\ tracker.prefixes = (Committed + InHand) + SumFunctionOnSet(Sizes, X)
              /\ tracker.prefixes \in Nat
              /\ Committed \in Nat /\ InHand \in Int /\ SumFunctionOnSet(Sizes, X) \in Nat
    BY LedgerNumbers
  <2>2. blocked \in SUBSET DOMAIN ban
    BY DEF RulesWith
  <2> HIDE DEF blocked
  <2>3. /\ IsFiniteSet(blocked) /\ \A i \in blocked : Sizes[i] \in Nat
        /\ SumFunctionOnSet(Sizes, blocked) \in Nat
    BY <2>2, SizesTypes DEF IInv
  <2>4. SumFunctionOnSet(Sizes, X) <= SumFunctionOnSet(Sizes, blocked)
    BY <2>1, <2>3, SumOnSetMono
  <2>5. Total(blocked) = SumFunctionOnSet(Sizes, blocked)
    BY TotalIs
  <2>6. QED
    BY <2>1, <2>3, <2>4, <2>5 DEF blocked
<1>2. QED
  BY <1>1, Invariance, PTL

\* The live rules fit under the high-water mark, whatever comes in together, as long as
\* nothing goes astray: the check and the reservation of quota.go are separate, and a
\* restart recomputes the sum, from the rows or, when the query fails, from nothing.
THEOREM LiveFits == Spec => []LiveRulesFit
<1>1. IInv => LiveRulesFit
  <2> SUFFICES ASSUME IInv, ~astray PROVE Committed + InHand <= HighWater
    BY DEF LiveRulesFit
  <2>1. PICK X \in SUBSET RulesWith({"safety_blocked"}) :
              /\ tracker.prefixes = (Committed + InHand) + SumFunctionOnSet(Sizes, X)
              /\ tracker.prefixes <= HighWater
              /\ Committed \in Nat /\ InHand \in Int /\ SumFunctionOnSet(Sizes, X) \in Nat
    BY LedgerNumbers
  <2>2. HighWater \in Nat
    BY LimitAssumption
  <2>3. QED
    BY <2>1, <2>2
<1>2. QED
  BY <1>1, Invariance, PTL

\* An order carries as many prefixes as its row is charged for, although
\* scopedBanApprove resolves the selector again with the database of that moment.
THEOREM ChargedHolds == Spec => []OrderIsCharged
<1>1. IInv => OrderIsCharged
  BY DEF IInv, OrderInv, OrderIsCharged
<1>2. QED
  BY <1>1, Invariance, PTL

\* While nothing fails and the database stays, racing handlers leave no active rule
\* without its order.
THEOREM OrderedHolds == Spec => []ActiveIsOrdered
<1>1. IInv => ActiveIsOrdered
  BY DEF IInv, OrderedInv, Calm, ActiveIsOrdered, AtRest, At, NoJob, Ordering
<1>2. QED
  BY <1>1, Invariance, PTL

-----------------------------------------------------------------------------
(* Scoped bans implement GovernedBan *)

Requesters == [i \in 1..MaxBans |-> IF i \in DOMAIN ban THEN ban[i].requester ELSE NoUser]
Approvers == [i \in 1..MaxBans |-> IF i \in DOMAIN ban THEN ban[i].approver ELSE NoUser]
Ordered == {d.ban : d \in dispatch}

SamePeople ==
    /\ DOMAIN ban' = DOMAIN ban
    /\ \A i \in DOMAIN ban : /\ ban'[i].requester = ban[i].requester
                             /\ ban'[i].approver = ban[i].approver

LEMMA PeopleSame ==
    ASSUME SamePeople
    PROVE  Requesters' = Requesters /\ Approvers' = Approvers
  BY DEF SamePeople, Requesters, Approvers

LEMMA Unseen ==
    ASSUME SamePeople, UNCHANGED dispatch
    PROVE  UNCHANGED Governed!vars
<1>1. Requesters' = Requesters /\ Approvers' = Approvers
  BY PeopleSame
<1>2. QED
  BY <1>1 DEF Governed!vars, Requesters, Approvers

\* A new row is a submission.
LEMMA InsertSubmits ==
    ASSUME IInv, NEW h \in Handlers, CreateInsert(h)
    PROVE  [Governed!Next]_(Governed!vars)
<1> DEFINE x == Len(ban) + 1
           row == job[h].row
           u == row.requester
<1>1. TypeOK /\ IdInv
  BY DEF IInv
<1>2. CASE UNCHANGED ban
  <2>1. UNCHANGED dispatch
    BY <1>1, InsertStep
  <2>2. QED
    BY <1>2, <2>1, Unseen DEF SamePeople
<1>3. CASE Grows(row)
  <2>1. row.requester \in Users /\ row.approver = NoUser /\ UNCHANGED dispatch
    <3>1. job[h].pc = "insert" /\ UNCHANGED dispatch
      BY <1>1, InsertStep
    <3>2. row \in Row
      BY <1>1, <3>1, JobTypes
    <3>3. row.approver = NoUser
      BY <1>1, <3>1 DEF IdInv, At, Drafting
    <3>4. QED
      BY <3>1, <3>2, <3>3 DEF Row
  <2>2. x \in 1..MaxBans
    <3>1. TypeOK' /\ DOMAIN ban' = DOMAIN ban \cup {x}
      BY <1>1, <1>3, InsertStep DEF Grows
    <3>2. ban' \in Seq(Row) /\ Len(ban') <= MaxBans
      BY <3>1 DEF TypeOK
    <3>3. Len(ban') \in Nat /\ DOMAIN ban' = 1..Len(ban')
      BY <3>2
    <3>4. MaxBans \in Nat
      BY BoundAssumption
    <3>5. x \in 1..Len(ban')
      BY <3>1, <3>3
    <3> HIDE DEF x
    <3>6. QED
      BY <3>2, <3>3, <3>4, <3>5
  <2>3. x \notin DOMAIN ban /\ DOMAIN ban' = DOMAIN ban \cup {x} /\ ban'[x] = row
        /\ \A i \in DOMAIN ban : ban'[i] = ban[i]
    BY <1>3 DEF Grows
  <2> HIDE DEF x, row
  <2>4. Requesters[x] = NoUser
    BY <2>2, <2>3 DEF Requesters
  <2>5. Requesters' = [Requesters EXCEPT ![x] = u]
    BY <2>2, <2>3 DEF Requesters
  <2>6. Approvers' = Approvers
    BY <2>1, <2>2, <2>3 DEF Approvers
  <2>7. Governed!Next
    <3>1. PICK y \in 1..MaxBans : y = x
      BY <2>2
    <3>2. PICK v \in Users : v = u
      BY <2>1
    <3>3. Governed!Submit(y, v)
      BY <2>1, <2>4, <2>5, <2>6, <3>1, <3>2 DEF Governed!Submit, Requesters, Approvers
    <3>4. QED
      BY <3>3 DEF Governed!Next
  <2>8. QED
    BY <2>7
<1>4. QED
  BY <1>1, <1>2, <1>3, InsertStep

\* The UPDATE of an approval is an approval by another user.
LEMMA UpdateApproves ==
    ASSUME IInv, NEW h \in Handlers, ApproveUpdate(h)
    PROVE  [Governed!Next]_(Governed!vars)
<1> DEFINE r == job[h].id
           u == job[h].row.approver
<1>1. TypeOK /\ IdInv
  BY DEF IInv
<1>2. r \in DOMAIN ban /\ UNCHANGED dispatch /\ job[h].pc = "activate"
  BY <1>1, ActivateStep
<1>3. r \in 1..MaxBans /\ ban[r].requester \in Users
  BY <1>1, <1>2, RowTypes
<1>4. u \in Users /\ u # ban[r].requester
  BY <1>2 DEF IInv, GovernInv, At
<1>5. CASE UNCHANGED ban
  BY <1>2, <1>5, Unseen DEF SamePeople
<1>6. CASE Becomes(r, "active", u)
  <2> HIDE DEF r, u
  <2>1. Requesters[r] = ban[r].requester
    BY <1>2, <1>3 DEF Requesters
  <2>2. Requesters' = Requesters
    BY <1>2, <1>6 DEF Requesters, Becomes
  <2>3. Approvers' = [Approvers EXCEPT ![r] = u]
    BY <1>2, <1>3, <1>6 DEF Approvers, Becomes
  <2>4. Governed!Next
    <3>1. PICK q \in 1..MaxBans : q = r
      BY <1>3
    <3>2. PICK v \in Users : v = u
      BY <1>4
    <3>3. Governed!Approve(q, v)
      BY <1>2, <1>3, <1>4, <2>1, <2>2, <2>3, <3>1, <3>2, NoneAssumption
         DEF Governed!Approve, Requesters, Approvers
    <3>4. QED
      BY <3>3 DEF Governed!Next
  <2>5. QED
    BY <2>4
<1>7. QED
  BY <1>1, <1>5, <1>6, ActivateStep

LEMMA DispatchOrders ==
    ASSUME IInv, NEW h \in Handlers, CreateScopedDispatch(h)
    PROVE  [Governed!Next]_(Governed!vars)
<1> DEFINE r == job[h].id
<1>1. TypeOK /\ IdInv
  BY DEF IInv
<1>2. r \in DOMAIN ban /\ UNCHANGED ban /\ job[h].pc = "dispatch"
  BY <1>1, DispatchStep
<1>3. r \in 1..MaxBans
  BY <1>1, <1>2, RowTypes
<1>4. ban[r].approver # NoUser
  BY <1>2 DEF IInv, GovernInv, At, Ordering
<1>5. CASE UNCHANGED dispatch
  BY <1>2, <1>5, Unseen DEF SamePeople
<1>6. CASE dispatch' = dispatch \cup {[ban |-> r, count |-> job[h].count]}
  <2> DEFINE d == [ban |-> r, count |-> job[h].count]
  <2>1. d.ban = r /\ dispatch' = dispatch \cup {d}
    BY <1>6
  <2> HIDE DEF d, r
  <2>2. Ordered' = Ordered \cup {r}
    BY <2>1 DEF Ordered
  <2>3. Approvers[r] # NoUser
    BY <1>2, <1>3, <1>4 DEF Approvers
  <2>4. Requesters' = Requesters /\ Approvers' = Approvers
    BY <1>2 DEF Requesters, Approvers
  <2>5. Governed!Next
    <3>1. PICK q \in 1..MaxBans : q = r
      BY <1>3
    <3>2. Governed!Order(q)
      BY <2>2, <2>3, <2>4, <3>1 DEF Governed!Order, Requesters, Approvers, Ordered
    <3>3. QED
      BY <3>2 DEF Governed!Next
  <2>6. QED
    BY <2>5
<1>7. QED
  BY <1>1, <1>5, <1>6, DispatchStep

\* A rejection, a revocation, a veto and a new size change nobody's name.
LEMMA BecomesUnseen ==
    ASSUME NEW r \in DOMAIN ban, NEW s, Becomes(r, s, ban[r].approver), UNCHANGED dispatch
    PROVE  UNCHANGED Governed!vars
<1>1. SamePeople
  BY DEF Becomes, SamePeople
<1>2. QED
  BY <1>1, Unseen

LEMMA StepRefines ==
    ASSUME IInv, [Next]_vars
    PROVE  [Governed!Next]_(Governed!vars)
<1>1. CASE UNCHANGED <<ban, dispatch>>
  BY <1>1, Unseen DEF SamePeople
<1>2. TypeOK /\ IdInv
  BY DEF IInv
<1>3. ASSUME NEW h \in Handlers, Step(h)
      PROVE  [Governed!Next]_(Governed!vars)
  <2>1. CASE CreateInsert(h) \/ ApproveUpdate(h) \/ CreateScopedDispatch(h)
    BY <2>1, InsertSubmits, UpdateApproves, DispatchOrders
  <2>2. CASE DriftResize(h)
    <3>1. SamePeople /\ UNCHANGED dispatch
      BY <1>2, <2>2, ResizeStep DEF SamePeople
    <3>2. QED
      BY <3>1, Unseen
  <2>3. CASE SafetyBlock(h)
    BY <1>1, <1>2, <2>3, BlockStep, BecomesUnseen
  <2>4. CASE RejectUpdate(h)
    BY <1>1, <1>2, <2>4, RejectStep, BecomesUnseen
  <2>5. CASE RevokeUpdate(h)
    BY <1>1, <1>2, <2>5, RevokeStep, BecomesUnseen
  <2>6. CASE \/ CreateReserve(h) \/ CreateRelease(h) \/ ApproveResolve(h) \/ DriftReturn(h)
             \/ DriftTake(h) \/ DriftRestore(h) \/ SafetyCheck(h) \/ DispatchLookup(h)
             \/ GiveBack(h)
    BY <1>1, <2>6 DEF CreateReserve, CreateRelease, ApproveResolve, DriftReturn, DriftTake,
                      DriftRestore, SafetyCheck, DispatchLookup, GiveBack
  <2>7. QED
    BY <1>3, <2>1, <2>2, <2>3, <2>4, <2>5, <2>6 DEF Step
<1>4. ASSUME NEW h \in Handlers, NEW u \in Users, Arrive(h, u)
      PROVE  UNCHANGED <<ban, dispatch>>
  BY <1>4 DEF Arrive, ScopedBanCreate, ScopedBanApprove, ScopedBanReject, ScopedBanRevoke,
              Decide
<1>5. CASE \/ \E v \in Versions : SetGlobal(v)
           \/ \E host \in Hosts : EditProtected(host)
           \/ \E v \in Versions \cup {NoDB} : Restart(v)
  BY <1>1, <1>5 DEF SetGlobal, EditProtected, Restart
<1>6. CASE UNCHANGED vars
  BY <1>1, <1>6 DEF vars
<1>7. QED
  BY <1>1, <1>3, <1>4, <1>5, <1>6 DEF Next

\* Scoped bans keep the promise of GovernedBan as single-target bans do: one requester
\* for ever, approvals by others, no order without an approval.
THEOREM Refinement == Spec => RefinesGovernedBan
<1>1. Init => Governed!Init
  BY DEF Init, Governed!Init
<1>2. IInv /\ [Next]_vars => [Governed!Next]_(Governed!vars)
  BY StepRefines
<1>3. QED
  BY <1>1, <1>2, Invariance, PTL DEF Spec, RefinesGovernedBan, Governed!Spec
=============================================================================
