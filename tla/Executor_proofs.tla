-------------------------- MODULE Executor_proofs --------------------------
(***************************************************************************)
(* Proofs about Executor: the type invariant, NoOrphanEntries,             *)
(* DropsOnlyOrdered and AckedInForce hold for every set of addresses,      *)
(* hosts, prefixes and payloads, every capacity and every bound.           *)
(***************************************************************************)
EXTENDS Executor, SequenceTheorems, FiniteSetTheorems, TLAPS

-----------------------------------------------------------------------------
(* The inductive invariant *)

\* A value the loop computed for an order: permanent if the order is, and else within
\* its lifetime from now.
Ordered(e) ==
    /\ e.by \in DOMAIN dispatch
    /\ (e.exp = 0) = (Order(e.by).ttl = 0)
    /\ e.exp <= clock + Order(e.by).ttl

\* The kernel's table of ids is the loop's, one id per host, handed out in turn.
IdsInv ==
    /\ targetHosts = targetIDs
    /\ nextTargetID = Targeted + 1
    /\ \A h \in Hosts : targetIDs[h] < nextTargetID
    /\ \A g, h \in Hosts : targetIDs[g] = targetIDs[h] /\ targetIDs[g] # 0 => g = h

\* Every entry sits where its order wants it.
GlobalInv ==
    \A p \in Prefixes : globalBans[p] # NoEntry =>
        LET e == globalBans[p]
        IN  Ordered(e) /\ ~IsScoped(Order(e.by)) /\ GlobalKey(Order(e.by)) = p
ScopedInv ==
    \A t \in TargetIds, p \in Prefixes : srcBans[t][p] # NoEntry =>
        LET e == srcBans[t][p]
        IN  /\ Ordered(e) /\ IsScoped(Order(e.by))
            /\ targetIDs[Order(e.by).host] = t
            /\ \E k \in DOMAIN Order(e.by).prefixes : Order(e.by).prefixes[k] = p

\* Under a key of order i is an entry, the value e if it is of i, or another order's.
Kept(x, i, e) == x # NoEntry /\ (x.by = i => x = e)
InForce(i, e) ==
    IF IsScoped(Order(i))
    THEN LET t == targetIDs[Order(i).host]
         IN  /\ t # 0
             /\ \A k \in DOMAIN Order(i).prefixes : Kept(srcBans[t][Order(i).prefixes[k]], i, e)
    ELSE GlobalKey(Order(i)) # NoPrefix /\ Kept(globalBans[GlobalKey(Order(i))], i, e)

\* What the loop knows of the order it is working on.
Busy == loop.pc \in {"global", "target", "source", "mark"}
AtSource(o) ==
    /\ IsScoped(o)
    /\ loop.tid = targetIDs[o.host] /\ loop.tid # 0
    /\ \A m \in DOMAIN loop.left : \E k \in DOMAIN o.prefixes : loop.left[m] = o.prefixes[k]
    /\ \A k \in DOMAIN o.prefixes :
          \/ \E m \in DOMAIN loop.left : loop.left[m] = o.prefixes[k]
          \/ srcBans[loop.tid][o.prefixes[k]] = loop.val
LoopInv ==
    /\ loop.batch \subseteq DOMAIN dispatch
    /\ Busy =>
        /\ loop.cur \in DOMAIN dispatch /\ loop.cur \notin loop.batch
        /\ loop.val \in Entry /\ loop.val.by = loop.cur /\ Ordered(loop.val)
        /\ promised[loop.cur] = NoEntry
    /\ loop.pc = "global" =>
          ~IsScoped(Order(loop.cur)) /\ GlobalKey(Order(loop.cur)) # NoPrefix
    /\ loop.pc = "target" =>
          IsScoped(Order(loop.cur)) /\ loop.left = Order(loop.cur).prefixes
    /\ loop.pc = "source" => AtSource(Order(loop.cur))
    /\ loop.pc = "mark" /\ loop.ok => InForce(loop.cur, loop.val)

\* An acked order is not attempted again, and its entries stay.
PromiseInv ==
    \A i \in Ids : promised[i] # NoEntry =>
        /\ i \in DOMAIN dispatch /\ dispatch[i].state # "pending" /\ i \notin loop.batch
        /\ InForce(i, promised[i])

IInv == TypeOK /\ IdsInv /\ GlobalInv /\ ScopedInv /\ LoopInv /\ PromiseInv

-----------------------------------------------------------------------------
(* Orders and their rows *)

LEMMA OrderType ==
    ASSUME TypeOK, NEW i \in DOMAIN dispatch
    PROVE  /\ i \in Ids
           /\ Order(i) \in Payloads /\ Order(i).ttl \in Nat
           /\ Order(i).host \in Hosts \cup {NoHost} /\ Order(i).prefixes \in Seq(Prefixes)
           /\ GlobalKey(Order(i)) \in Prefixes \cup {NoPrefix}
<1>1. i \in Ids /\ dispatch[i] \in DispatchRow
  <2>1. dispatch \in Seq(DispatchRow) /\ Len(dispatch) <= MaxDispatches
    BY DEF TypeOK
  <2>2. MaxDispatches \in Nat
    BY BoundAssumption
  <2>3. QED
    BY <2>1, <2>2 DEF Ids
<1>2. Order(i) \in Payloads /\ Order(i) \in PayloadSet
  BY <1>1, PayloadAssumption DEF DispatchRow, Order
<1>3. QED
  BY <1>1, <1>2, PayloadAssumption DEF PayloadSet, GlobalKey, ParseIPv4Prefix

\* A row keeps its order for ever.
SameOrders ==
    \A i \in DOMAIN dispatch :
        i \in DOMAIN dispatch' /\ dispatch'[i].payload = dispatch[i].payload

LEMMA SetStateType ==
    ASSUME TypeOK, NEW i \in DOMAIN dispatch, NEW s \in {"acked", "failed"}, SetState(i, s)
    PROVE  /\ dispatch' \in Seq(DispatchRow) /\ Len(dispatch') = Len(dispatch)
           /\ SameOrders /\ DOMAIN dispatch' = DOMAIN dispatch
           /\ dispatch'[i].state # "pending"
           /\ \A k \in DOMAIN dispatch \ {i} : dispatch'[k] = dispatch[k]
<1> DEFINE row == [payload |-> dispatch[i].payload, state |-> s]
<1>1. row \in DispatchRow
  <2>1. dispatch[i] \in DispatchRow
    BY DEF TypeOK
  <2>2. QED
    BY <2>1 DEF DispatchRow
<1>2. dispatch' = [dispatch EXCEPT ![i] = row]
  BY DEF SetState
<1>3. i \in 1..Len(dispatch)
  BY DEF TypeOK
<1>4. /\ dispatch' \in Seq(DispatchRow) /\ Len(dispatch') = Len(dispatch)
      /\ \A k \in 1..Len(dispatch) : dispatch'[k] = IF k = i THEN row ELSE dispatch[k]
  BY <1>1, <1>2, <1>3, ExceptSeq DEF TypeOK
<1>5. DOMAIN dispatch' = 1..Len(dispatch) /\ DOMAIN dispatch = 1..Len(dispatch)
  BY <1>4 DEF TypeOK
<1>6. QED
  BY <1>3, <1>4, <1>5 DEF SameOrders

\* What the maps say is about rows, orders and the clock only.
LEMMA KernelFrame ==
    ASSUME IInv, SameOrders, UNCHANGED <<kernel, memory>>,
           clock' \in Nat, clock <= clock'
    PROVE  /\ IdsInv' /\ GlobalInv' /\ ScopedInv'
           /\ \A e : e.exp \in Nat /\ Ordered(e) => Ordered(e)'
           /\ \A i \in DOMAIN dispatch : \A e : InForce(i, e) => InForce(i, e)'
<1>1. /\ UNCHANGED <<globalBans, targetHosts, srcBans, targetIDs, nextTargetID>>
      /\ \A i \in DOMAIN dispatch : i \in DOMAIN dispatch' /\ Order(i)' = Order(i)
  BY DEF SameOrders, kernel, memory, Order
<1>2. ASSUME NEW e, e.exp \in Nat, Ordered(e) PROVE Ordered(e)'
  <2>1. e.by \in DOMAIN dispatch /\ Order(e.by).ttl \in Nat
    BY <1>2, OrderType DEF IInv, Ordered
  <2>2. clock \in Nat
    BY BoundAssumption DEF IInv, TypeOK
  <2>3. QED
    BY <1>1, <1>2, <2>1, <2>2 DEF Ordered
<1>3. IdsInv'
  BY <1>1 DEF IInv, IdsInv, Targeted
<1>4. GlobalInv'
  <2> SUFFICES ASSUME NEW p \in Prefixes, globalBans[p] # NoEntry
               PROVE  /\ Ordered(globalBans[p])'
                      /\ ~IsScoped(Order(globalBans[p].by))'
                      /\ GlobalKey(Order(globalBans[p].by))' = p
    BY <1>1 DEF GlobalInv
  <2>1. /\ Ordered(globalBans[p]) /\ ~IsScoped(Order(globalBans[p].by))
        /\ GlobalKey(Order(globalBans[p].by)) = p
    BY DEF IInv, GlobalInv
  <2>2. globalBans[p].exp \in Nat
    BY DEF IInv, TypeOK, Entries, Entry
  <2>3. QED
    BY <1>1, <1>2, <2>1, <2>2 DEF Ordered, IsScoped, GlobalKey
<1>5. ScopedInv'
  <2> SUFFICES ASSUME NEW t \in TargetIds, NEW p \in Prefixes, srcBans[t][p] # NoEntry
               PROVE  LET e == srcBans[t][p]
                      IN  /\ Ordered(e)' /\ IsScoped(Order(e.by))'
                          /\ targetIDs[Order(e.by)'.host] = t
                          /\ \E k \in DOMAIN Order(e.by)'.prefixes :
                                Order(e.by)'.prefixes[k] = p
    BY <1>1 DEF ScopedInv
  <2> DEFINE e == srcBans[t][p]
  <2>1. /\ Ordered(e) /\ IsScoped(Order(e.by))
        /\ targetIDs[Order(e.by).host] = t
        /\ \E k \in DOMAIN Order(e.by).prefixes : Order(e.by).prefixes[k] = p
    BY DEF IInv, ScopedInv
  <2>2. e.exp \in Nat
    BY DEF IInv, TypeOK, Entries, Entry
  <2>3. QED
    BY <1>1, <1>2, <2>1, <2>2 DEF Ordered, IsScoped
<1>6. ASSUME NEW i \in DOMAIN dispatch, NEW e, InForce(i, e) PROVE InForce(i, e)'
  BY <1>1, <1>6 DEF InForce, IsScoped, GlobalKey, Kept
<1>7. QED
  BY <1>2, <1>3, <1>4, <1>5, <1>6

\* The loop's knowledge is about the maps, not about what the rows have become.
LEMMA LoopFrame ==
    ASSUME IInv, SameOrders, UNCHANGED <<kernel, memory, loop, promised>>,
           clock' \in Nat, clock <= clock'
    PROVE  LoopInv'
<1>1. \A i \in DOMAIN dispatch : i \in DOMAIN dispatch' /\ Order(i)' = Order(i)
  BY DEF SameOrders, Order
<1>2. UNCHANGED <<globalBans, targetHosts, srcBans, targetIDs, nextTargetID>>
  BY DEF kernel, memory
<1>3. ASSUME Busy
      PROVE  /\ loop.cur \in DOMAIN dispatch' /\ loop.cur \notin loop.batch
             /\ loop.val \in Entry /\ loop.val.by = loop.cur /\ Ordered(loop.val)'
             /\ promised[loop.cur] = NoEntry
  <2>1. /\ loop.cur \in DOMAIN dispatch /\ loop.cur \notin loop.batch
        /\ loop.val \in Entry /\ loop.val.by = loop.cur /\ Ordered(loop.val)
        /\ promised[loop.cur] = NoEntry
    BY <1>3 DEF IInv, LoopInv
  <2>2. Ordered(loop.val)'
    <3>1. loop.val.exp \in Nat
      BY <2>1 DEF Entry
    <3>2. \A e : e.exp \in Nat /\ Ordered(e) => Ordered(e)'
      BY KernelFrame
    <3>3. ASSUME NEW e, e = loop.val PROVE Ordered(e)'
      BY <2>1, <3>1, <3>2, <3>3
    <3>4. QED
      BY <3>3 DEF Ordered
  <2>3. QED
    BY <1>1, <2>1, <2>2
<1>4. loop.pc = "global" => (~IsScoped(Order(loop.cur)) /\ GlobalKey(Order(loop.cur)) # NoPrefix)'
  BY <1>1 DEF IInv, LoopInv, Busy, IsScoped, GlobalKey
<1>5. loop.pc = "target" => (IsScoped(Order(loop.cur)) /\ loop.left = Order(loop.cur).prefixes)'
  BY <1>1 DEF IInv, LoopInv, Busy, IsScoped
<1>6. loop.pc = "source" => AtSource(Order(loop.cur))'
  <2> SUFFICES ASSUME loop.pc = "source" PROVE AtSource(Order(loop.cur))'
    OBVIOUS
  <2>1. AtSource(Order(loop.cur)) /\ loop.cur \in DOMAIN dispatch
    BY DEF IInv, LoopInv, Busy
  <2>2. QED
    BY <1>1, <1>2, <2>1 DEF AtSource, IsScoped
<1>7. loop.pc = "mark" /\ loop.ok => InForce(loop.cur, loop.val)'
  <2> SUFFICES ASSUME loop.pc = "mark", loop.ok PROVE InForce(loop.cur, loop.val)'
    OBVIOUS
  <2>1. InForce(loop.cur, loop.val) /\ loop.cur \in DOMAIN dispatch
    BY DEF IInv, LoopInv, Busy
  <2>2. QED
    BY <1>1, <1>2, <2>1 DEF InForce, IsScoped, GlobalKey, Kept
<1>8. loop.batch \subseteq DOMAIN dispatch'
  BY <1>1 DEF IInv, LoopInv
<1>9. QED
  BY <1>3, <1>4, <1>5, <1>6, <1>7, <1>8 DEF LoopInv, Busy

\* No row becomes pending again, and only pending ones are taken up.
LEMMA PromiseFrame ==
    ASSUME IInv, SameOrders, UNCHANGED <<kernel, memory, promised>>,
           clock' \in Nat, clock <= clock',
           \A i \in DOMAIN dispatch :
              dispatch'[i].state = "pending" => dispatch[i].state = "pending",
           loop'.batch \subseteq loop.batch \cup Pending
    PROVE  PromiseInv'
<1> SUFFICES ASSUME NEW i \in Ids, promised[i] # NoEntry
             PROVE  /\ i \in DOMAIN dispatch' /\ dispatch'[i].state # "pending"
                    /\ i \notin loop'.batch /\ InForce(i, promised[i])'
  BY DEF PromiseInv
<1>1. /\ i \in DOMAIN dispatch /\ dispatch[i].state # "pending" /\ i \notin loop.batch
      /\ InForce(i, promised[i])
  BY DEF IInv, PromiseInv
<1>2. InForce(i, promised[i])'
  <2>1. ASSUME NEW e, e = promised[i] PROVE InForce(i, e)'
    BY <1>1, <2>1, KernelFrame
  <2>2. QED
    BY <2>1 DEF InForce
<1>3. QED
  BY <1>1, <1>2 DEF SameOrders, Pending

-----------------------------------------------------------------------------
(* The surroundings *)

LEMMA CreateStep ==
    ASSUME IInv, NEW o \in Payloads, CreateDispatch(o)
    PROVE  IInv'
<1> DEFINE row == [payload |-> o, state |-> "pending"]
<1>1. /\ dispatch \in Seq(DispatchRow) /\ Len(dispatch) < MaxDispatches
      /\ clock \in Nat /\ MaxDispatches \in Nat
  <2>1. MaxDispatches \in Nat /\ MaxClock \in Nat
    BY BoundAssumption
  <2>2. QED
    BY <2>1 DEF IInv, TypeOK, CreateDispatch
<1>2. row \in DispatchRow
  BY DEF DispatchRow
<1>3. /\ dispatch' \in Seq(DispatchRow) /\ Len(dispatch') <= MaxDispatches
      /\ \A i \in DOMAIN dispatch : i \in DOMAIN dispatch' /\ dispatch'[i] = dispatch[i]
  BY <1>1, <1>2 DEF CreateDispatch
<1>4. SameOrders /\ UNCHANGED <<kernel, memory, loop, clock, promised, bounds>>
  BY <1>3 DEF SameOrders, CreateDispatch
<1>5. TypeOK'
  BY <1>3, <1>4 DEF IInv, TypeOK, kernel, memory, bounds
<1>6. loop'.batch \subseteq loop.batch \cup Pending
  BY <1>4
<1>7. QED
  BY <1>1, <1>3, <1>4, <1>5, <1>6, KernelFrame, LoopFrame, PromiseFrame DEF IInv

LEMMA MarkByApiStep ==
    ASSUME IInv, NEW i \in DOMAIN dispatch, NEW s \in {"acked", "failed"}, MarkByApi(i, s)
    PROVE  IInv'
<1>1. /\ dispatch' \in Seq(DispatchRow) /\ Len(dispatch') = Len(dispatch)
      /\ SameOrders /\ dispatch'[i].state # "pending"
      /\ \A k \in DOMAIN dispatch \ {i} : dispatch'[k] = dispatch[k]
  BY SetStateType DEF IInv, MarkByApi
<1>2. /\ UNCHANGED <<kernel, memory, loop, clock, promised, faults, crashes>>
      /\ loop'.batch \subseteq loop.batch \cup Pending
  BY DEF MarkByApi
<1>3. calls' \in 0..MaxCalls
  <2>1. MaxCalls \in Nat /\ calls \in 0..MaxCalls
    BY BoundAssumption DEF IInv, TypeOK
  <2>2. QED
    BY <2>1 DEF MarkByApi
<1>4. TypeOK'
  BY <1>1, <1>2, <1>3 DEF IInv, TypeOK, kernel, memory
<1>5. clock \in Nat
  BY BoundAssumption DEF IInv, TypeOK
<1>6. QED
  BY <1>1, <1>2, <1>4, <1>5, KernelFrame, LoopFrame, PromiseFrame DEF IInv

LEMMA TickStep ==
    ASSUME IInv, Tick
    PROVE  IInv'
<1>1. clock \in Nat /\ clock' = clock + 1 /\ clock' \in 1..(MaxClock + 1)
  <2>1. MaxClock \in Nat /\ clock \in 1..(MaxClock + 1)
    BY BoundAssumption DEF IInv, TypeOK
  <2>2. QED
    BY <2>1 DEF Tick
<1>2. UNCHANGED <<dispatch, kernel, memory, loop, promised, bounds>> /\ SameOrders
  BY DEF Tick, SameOrders
<1>3. TypeOK'
  BY <1>1, <1>2 DEF IInv, TypeOK, kernel, memory, bounds
<1>4. loop'.batch \subseteq loop.batch \cup Pending
  BY <1>2
<1>5. QED
  BY <1>1, <1>2, <1>3, <1>4, KernelFrame, LoopFrame, PromiseFrame DEF IInv

LEMMA StutterStep ==
    ASSUME IInv, UNCHANGED vars
    PROVE  IInv'
<1>1. UNCHANGED <<dispatch, kernel, memory, loop, clock, promised, bounds>> /\ SameOrders
  BY DEF vars, SameOrders
<1>2. TypeOK' /\ clock \in Nat /\ loop'.batch \subseteq loop.batch \cup Pending
  BY <1>1, BoundAssumption DEF IInv, TypeOK, kernel, memory, bounds
<1>3. QED
  BY <1>1, <1>2, KernelFrame, LoopFrame, PromiseFrame DEF IInv

\* The maps are empty, and so is what the loop knows of them.
LEMMA NoneTargeted == targetHosts = NoIds => Targeted = 0
<1> SUFFICES ASSUME targetHosts = NoIds PROVE Targeted = 0
  OBVIOUS
<1>1. {h \in Hosts : targetHosts[h] # 0} = {}
  BY DEF NoIds
<1>2. QED
  BY <1>1, FS_EmptySet DEF Targeted

\* Everything the maps and the loop promise, when there is nothing in them.
Empty ==
    /\ globalBans = NoBans /\ targetHosts = NoIds /\ srcBans = NoScopedBans
    /\ targetIDs = NoIds /\ nextTargetID = 1
    /\ promised = [i \in Ids |-> NoEntry]
    /\ loop \in {Waiting("idle", {}), Waiting("down", {})}

LEMMA EmptyInv ==
    ASSUME Empty
    PROVE  IdsInv /\ GlobalInv /\ ScopedInv /\ LoopInv /\ PromiseInv
<1>1. IdsInv
  BY NoneTargeted DEF Empty, IdsInv, NoIds
<1>2. GlobalInv /\ ScopedInv
  BY DEF Empty, GlobalInv, ScopedInv, NoBans, NoScopedBans
<1>3. LoopInv /\ PromiseInv
  BY DEF Empty, LoopInv, PromiseInv, Busy, Waiting, LoopAt
<1>4. QED
  BY <1>1, <1>2, <1>3

LEMMA WaitingType ==
    ASSUME NEW pc \in {"down", "idle", "next"}, NEW batch \in SUBSET Ids
    PROVE  /\ Waiting(pc, batch) \in Loop
           /\ Waiting(pc, batch).pc = pc /\ Waiting(pc, batch).batch = batch
<1>1. MaxTargetId \in Nat /\ MaxDispatches \in Nat
  BY BoundAssumption
<1>2. <<>> \in Seq(Prefixes) /\ NoEntry \in Entries
  BY DEF Entries
<1>3. QED
  BY <1>1, <1>2 DEF Waiting, LoopAt, Loop

LEMMA EmptyType ==
    ASSUME Empty
    PROVE  /\ globalBans \in [Prefixes -> Entries]
           /\ targetHosts \in [Hosts -> 0..MaxTargetId]
           /\ srcBans \in [TargetIds -> [Prefixes -> Entries]]
           /\ targetIDs \in [Hosts -> 0..MaxTargetId]
           /\ nextTargetID \in 1..(MaxTargetId + 1)
           /\ loop \in Loop
           /\ promised \in [Ids -> Entries]
<1>1. MaxTargetId \in Nat /\ MaxDispatches \in Nat
  BY BoundAssumption
<1>2. NoEntry \in Entries
  BY DEF Entries
<1>3. 0 \in 0..MaxTargetId
  BY <1>1
<1>4. loop \in Loop
  BY WaitingType DEF Empty
<1>5. QED
  BY <1>1, <1>2, <1>3, <1>4 DEF Empty, NoBans, NoIds, NoScopedBans

LEMMA CrashStep ==
    ASSUME IInv, Crash
    PROVE  IInv'
<1>1. Empty'
  BY DEF Crash, Empty
<1>2. crashes' \in 0..MaxCrashes
  <2>1. MaxCrashes \in Nat /\ crashes \in 0..MaxCrashes
    BY BoundAssumption DEF IInv, TypeOK
  <2>2. QED
    BY <2>1 DEF Crash
<1>3. (IdsInv /\ GlobalInv /\ ScopedInv /\ LoopInv /\ PromiseInv)'
  BY <1>1, EmptyInv, PTL
<1>4. (/\ globalBans \in [Prefixes -> Entries]
       /\ targetHosts \in [Hosts -> 0..MaxTargetId]
       /\ srcBans \in [TargetIds -> [Prefixes -> Entries]]
       /\ targetIDs \in [Hosts -> 0..MaxTargetId]
       /\ nextTargetID \in 1..(MaxTargetId + 1)
       /\ loop \in Loop
       /\ promised \in [Ids -> Entries])'
  BY <1>1, EmptyType, PTL
<1>5. TypeOK'
  BY <1>2, <1>4 DEF Crash, IInv, TypeOK
<1>6. QED
  BY <1>3, <1>5 DEF IInv

LEMMA StartStep ==
    ASSUME IInv, StartExecutor
    PROVE  IInv'
<1>1. UNCHANGED <<dispatch, kernel, memory, clock, promised, bounds>> /\ SameOrders
  BY DEF StartExecutor, SameOrders
<1>2. clock \in Nat
  <2>1. MaxClock \in Nat
    BY BoundAssumption
  <2>2. QED
    BY <2>1 DEF IInv, TypeOK
<1>3. loop' \in Loop /\ loop'.batch = {} /\ loop'.pc = "idle"
  BY WaitingType DEF StartExecutor
<1>4. TypeOK'
  BY <1>1, <1>3 DEF IInv, TypeOK, kernel, memory, bounds
<1>5. LoopInv'
  BY <1>3 DEF LoopInv, Busy
<1>6. QED
  BY <1>1, <1>2, <1>3, <1>4, <1>5, KernelFrame, PromiseFrame DEF IInv

LEMMA InvInit == Init => IInv
<1> SUFFICES ASSUME Init PROVE IInv
  OBVIOUS
<1>1. Empty
  BY DEF Init, Empty
<1>2. MaxDispatches \in Nat /\ MaxClock \in Nat /\ MaxFaults \in Nat /\ MaxCrashes \in Nat
      /\ MaxCalls \in Nat
  BY BoundAssumption
<1>3. TypeOK
  BY <1>1, <1>2, EmptyType DEF Init, TypeOK
<1>4. QED
  BY <1>1, <1>3, EmptyInv DEF IInv

-----------------------------------------------------------------------------
(* The loop *)

LEMMA LoopFields ==
    ASSUME IInv
    PROVE  /\ loop.batch \in SUBSET Ids /\ loop.cur \in 0..MaxDispatches
           /\ loop.val \in Entries /\ loop.tid \in 0..MaxTargetId
           /\ loop.left \in Seq(Prefixes) /\ loop.ok \in BOOLEAN
           /\ 0 \in 0..MaxTargetId /\ 0 \in 0..MaxDispatches /\ <<>> \in Seq(Prefixes)
           /\ MaxTargetId \in Nat /\ clock \in Nat /\ clock >= 1
<1>1. MaxTargetId \in Nat /\ MaxDispatches \in Nat /\ MaxClock \in Nat
  BY BoundAssumption
<1>2. loop \in Loop
  BY DEF IInv, TypeOK
<1>3. clock \in Nat /\ clock >= 1
  BY <1>1 DEF IInv, TypeOK
<1>4. QED
  BY <1>1, <1>2, <1>3 DEF Loop

LEMMA GoMarkType ==
    ASSUME IInv, NEW ok \in BOOLEAN, GoMark(ok)
    PROVE  /\ loop' \in Loop
           /\ loop'.pc = "mark" /\ loop'.batch = loop.batch /\ loop'.cur = loop.cur
           /\ loop'.val = loop.val /\ loop'.ok = ok
  BY LoopFields DEF GoMark, Become, LoopAt, Loop

LEMMA PollStep ==
    ASSUME IInv, Poll
    PROVE  IInv'
<1>1. PICK S \in SUBSET Pending : Become(Waiting("next", S))
  BY DEF Poll
<1>2. Pending \subseteq Ids /\ Pending \subseteq DOMAIN dispatch
  BY OrderType DEF Pending, IInv
<1>3. loop' \in Loop /\ loop'.batch = S /\ loop'.pc = "next"
  BY <1>1, <1>2, WaitingType DEF Become
<1>4. UNCHANGED <<dispatch, kernel, memory, clock, promised, bounds>> /\ SameOrders
  BY DEF Poll, SameOrders
<1>5. TypeOK'
  BY <1>3, <1>4 DEF IInv, TypeOK, kernel, memory, bounds
<1>6. LoopInv'
  BY <1>2, <1>3, <1>4 DEF LoopInv, Busy
<1>7. clock \in Nat
  BY LoopFields
<1>8. QED
  BY <1>3, <1>4, <1>5, <1>6, <1>7, KernelFrame, PromiseFrame DEF IInv

LEMMA ApplyStep ==
    ASSUME IInv, Apply
    PROVE  IInv'
<1> DEFINE val(i) == [exp |-> KtimeDeadline(Order(i).ttl), by |-> i]
           pc(i) == IF IsScoped(Order(i)) THEN "target"
                    ELSE IF ParseIPv4Prefix(Order(i).target) = NoPrefix THEN "mark" ELSE "global"
<1>1. PICK i \in loop.batch :
          loop' = LoopAt(pc(i), loop.batch \ {i}, i, val(i), 0, Order(i).prefixes, FALSE)
  BY DEF Apply, Become
<1>2. i \in DOMAIN dispatch /\ i \in Ids /\ i \in 0..MaxDispatches
  <2>1. i \in DOMAIN dispatch
    BY <1>1 DEF IInv, LoopInv
  <2>2. i \in Ids /\ MaxDispatches \in Nat
    BY <2>1, OrderType, BoundAssumption DEF IInv
  <2>3. QED
    BY <2>1, <2>2 DEF Ids
<1>3. Order(i).prefixes \in Seq(Prefixes) /\ Order(i).ttl \in Nat
  BY <1>2, OrderType DEF IInv
<1>4. /\ KtimeDeadline(Order(i).ttl) \in Nat
      /\ (KtimeDeadline(Order(i).ttl) = 0) = (Order(i).ttl = 0)
      /\ KtimeDeadline(Order(i).ttl) <= clock + Order(i).ttl
  BY <1>3, LoopFields DEF KtimeDeadline
<1>5. val(i) \in Entry /\ val(i).by = i /\ Ordered(val(i))
  BY <1>2, <1>4 DEF Entry, Ordered
<1>6. val(i) \in Entries
  BY <1>5 DEF Entries
<1>7. /\ loop' \in Loop
      /\ loop'.pc = pc(i) /\ loop'.batch = loop.batch \ {i} /\ loop'.cur = i
      /\ loop'.val = val(i) /\ loop'.left = Order(i).prefixes /\ loop'.ok = FALSE
  <2> HIDE DEF val, pc
  <2>1. pc(i) \in {"idle", "next", "global", "target", "source", "mark"}
    BY DEF pc
  <2>2. QED
    BY <1>1, <1>2, <1>3, <1>6, <2>1, LoopFields DEF LoopAt, Loop
<1>8. UNCHANGED <<dispatch, kernel, memory, clock, promised, bounds>> /\ SameOrders
  BY DEF Apply, SameOrders
<1>9. TypeOK'
  BY <1>7, <1>8 DEF IInv, TypeOK, kernel, memory, bounds
<1>10. promised[i] = NoEntry
  BY <1>1, <1>2 DEF IInv, PromiseInv
<1>11. LoopInv'
  <2> HIDE DEF val
  <2>1. /\ loop'.batch \subseteq DOMAIN dispatch' /\ loop'.cur \in DOMAIN dispatch'
        /\ loop'.cur \notin loop'.batch
        /\ loop'.val \in Entry /\ loop'.val.by = loop'.cur /\ promised'[loop'.cur] = NoEntry
    BY <1>2, <1>5, <1>7, <1>8, <1>10 DEF IInv, LoopInv
  <2>2. Ordered(loop.val)'
    BY <1>5, <1>7, <1>8 DEF Ordered, Order
  <2>3. loop'.pc = "global" =>
            ~IsScoped(Order(loop.cur))' /\ (GlobalKey(Order(loop.cur)) # NoPrefix)'
    BY <1>7, <1>8 DEF Order, IsScoped, GlobalKey
  <2>4. loop'.pc = "target" =>
            IsScoped(Order(loop.cur))' /\ (loop.left = Order(loop.cur).prefixes)'
    BY <1>7, <1>8 DEF Order, IsScoped
  <2>5. loop'.pc # "source" /\ ~loop'.ok
    BY <1>7
  <2>6. QED
    BY <2>1, <2>2, <2>3, <2>4, <2>5 DEF LoopInv
<1>12. loop'.batch \subseteq loop.batch \cup Pending
  BY <1>7
<1>13. clock \in Nat
  BY LoopFields
<1>14. QED
  BY <1>8, <1>9, <1>11, <1>12, <1>13, KernelFrame, PromiseFrame DEF IInv

LEMMA ScopedDoneStep ==
    ASSUME IInv, ScopedDone
    PROVE  IInv'
<1>1. /\ loop' \in Loop /\ loop'.pc = "mark" /\ loop'.batch = loop.batch
      /\ loop'.cur = loop.cur /\ loop'.val = loop.val
  BY GoMarkType DEF ScopedDone
<1>2. UNCHANGED <<dispatch, kernel, memory, clock, promised, bounds>> /\ SameOrders
  BY DEF ScopedDone, SameOrders
<1>3. TypeOK'
  BY <1>1, <1>2 DEF IInv, TypeOK, kernel, memory, bounds
<1>4. /\ loop.pc = "source" /\ loop.left = <<>> /\ AtSource(Order(loop.cur))
      /\ loop.batch \subseteq DOMAIN dispatch
      /\ loop.cur \in DOMAIN dispatch /\ loop.cur \notin loop.batch
      /\ loop.val \in Entry /\ loop.val.by = loop.cur /\ Ordered(loop.val)
      /\ promised[loop.cur] = NoEntry
  BY DEF ScopedDone, IInv, LoopInv, Busy
<1>5. InForce(loop.cur, loop.val)
  <2>1. loop.val # NoEntry
    BY <1>4 DEF Entry, NoEntry, Ids
  <2>2. QED
    BY <1>4, <2>1 DEF AtSource, InForce, Kept
<1>6. LoopInv'
  <2>1. InForce(loop.cur, loop.val)' /\ Ordered(loop.val)'
    BY <1>1, <1>2, <1>4, <1>5
       DEF InForce, Kept, Ordered, Order, IsScoped, GlobalKey, kernel, memory
  <2>2. QED
    BY <1>1, <1>2, <1>4, <2>1 DEF LoopInv
<1>7. clock \in Nat /\ loop'.batch \subseteq loop.batch \cup Pending
  BY <1>1, LoopFields
<1>8. QED
  BY <1>2, <1>3, <1>6, <1>7, KernelFrame, PromiseFrame DEF IInv

LEMMA MarkStep ==
    ASSUME IInv, Mark
    PROVE  IInv'
<1>1. /\ loop.pc = "mark"
      /\ UNCHANGED <<kernel, memory, clock, crashes, calls>>
      /\ loop' = Waiting(IF loop.batch = {} THEN "idle" ELSE "next", loop.batch)
  BY DEF Mark, Onward, Become
<1>2. loop' \in Loop /\ loop'.batch = loop.batch /\ loop'.pc \in {"idle", "next"}
  BY <1>1, LoopFields, WaitingType
<1>3. /\ loop.batch \subseteq DOMAIN dispatch
      /\ loop.cur \in DOMAIN dispatch /\ loop.cur \notin loop.batch
      /\ loop.val \in Entry
      /\ loop.ok => InForce(loop.cur, loop.val)
  BY <1>1 DEF IInv, LoopInv, Busy
<1>4. /\ dispatch' \in Seq(DispatchRow) /\ Len(dispatch') <= MaxDispatches /\ SameOrders
      /\ promised' \in [Ids -> Entries] /\ faults' \in 0..MaxFaults
      /\ \A i \in DOMAIN dispatch \ {loop.cur} : dispatch'[i] = dispatch[i]
      /\ \A i \in Ids \ {loop.cur} : promised'[i] = promised[i]
      /\ promised'[loop.cur] # NoEntry =>
            \/ promised'[loop.cur] = promised[loop.cur] /\ dispatch' = dispatch
            \/ /\ promised'[loop.cur] = promised[loop.cur]
               /\ dispatch'[loop.cur].state # "pending"
            \/ /\ loop.ok /\ promised'[loop.cur] = loop.val
               /\ dispatch'[loop.cur].state # "pending"
  <2>1. loop.cur \in Ids /\ loop.val \in Entries /\ promised \in [Ids -> Entries]
    BY <1>3, OrderType DEF IInv, TypeOK, Entries
  <2>2. CASE /\ SetState(loop.cur, IF loop.ok THEN "acked" ELSE "failed")
             /\ promised' = IF loop.ok THEN [promised EXCEPT ![loop.cur] = loop.val] ELSE promised
             /\ UNCHANGED faults
    <3>1. /\ dispatch' \in Seq(DispatchRow) /\ Len(dispatch') = Len(dispatch) /\ SameOrders
          /\ dispatch'[loop.cur].state # "pending"
          /\ \A i \in DOMAIN dispatch \ {loop.cur} : dispatch'[i] = dispatch[i]
      BY <1>3, <2>2, SetStateType DEF IInv
    <3>2. Len(dispatch) <= MaxDispatches /\ faults' \in 0..MaxFaults
      BY <2>2 DEF IInv, TypeOK
    <3>3. CASE loop.ok
      BY <2>1, <2>2, <3>1, <3>2, <3>3
    <3>4. CASE ~loop.ok
      BY <2>1, <2>2, <3>1, <3>2, <3>4
    <3>5. QED
      BY <3>3, <3>4
  <2>3. CASE faults < MaxFaults /\ faults' = faults + 1 /\ UNCHANGED <<dispatch, promised>>
    <3>1. MaxFaults \in Nat
      BY BoundAssumption
    <3>2. QED
      BY <2>1, <2>3, <3>1 DEF IInv, TypeOK, SameOrders
  <2>4. QED
    BY <2>2, <2>3 DEF Mark
<1>5. TypeOK'
  BY <1>1, <1>2, <1>4 DEF IInv, TypeOK, kernel, memory
<1>6. LoopInv'
  BY <1>2, <1>3, <1>4 DEF LoopInv, Busy, SameOrders
<1>7. clock \in Nat
  BY LoopFields
<1>8. PromiseInv'
  <2> SUFFICES ASSUME NEW i \in Ids, promised'[i] # NoEntry
               PROVE  /\ i \in DOMAIN dispatch' /\ dispatch'[i].state # "pending"
                      /\ i \notin loop'.batch /\ InForce(i, promised[i])'
    BY DEF PromiseInv
  <2>1. ASSUME promised[i] # NoEntry, promised'[i] = promised[i]
        PROVE  /\ i \in DOMAIN dispatch /\ dispatch[i].state # "pending"
               /\ i \notin loop.batch /\ InForce(i, promised'[i])
    BY <2>1 DEF IInv, PromiseInv, InForce
  <2>2. /\ i \in DOMAIN dispatch /\ i \notin loop.batch /\ dispatch'[i].state # "pending"
        /\ InForce(i, promised'[i])
    <3>1. CASE i = loop.cur
      <4>1. CASE promised'[i] = promised[i]
        BY <1>4, <2>1, <3>1, <4>1
      <4>2. CASE promised'[i] # promised[i]
        BY <1>3, <1>4, <3>1, <4>2 DEF InForce
      <4>3. QED
        BY <4>1, <4>2
    <3>2. CASE i # loop.cur
      BY <1>4, <2>1, <3>2
    <3>3. QED
      BY <3>1, <3>2
  <2>3. InForce(i, promised[i])'
    <3>1. ASSUME NEW e, e = promised'[i] PROVE InForce(i, e)'
      <4>1. InForce(i, e) /\ i \in DOMAIN dispatch
        BY <2>2, <3>1
      <4>2. QED
        BY <1>1, <1>4, <1>7, <4>1, KernelFrame
    <3>2. QED
      BY <3>1 DEF InForce
  <2>4. QED
    BY <1>2, <1>4, <2>2, <2>3 DEF SameOrders
<1>9. QED
  BY <1>1, <1>4, <1>5, <1>6, <1>7, <1>8, KernelFrame DEF IInv

\* The value the loop writes: to every other order an entry that is not its own.
LEMMA NewEntry ==
    ASSUME IInv, Busy
    PROVE  /\ loop.val \in Entry /\ loop.val # NoEntry /\ loop.val \in Entries
           /\ loop.val.by = loop.cur /\ Ordered(loop.val)
           /\ loop.cur \in DOMAIN dispatch
           /\ \A i \in Ids : promised[i] # NoEntry => \A e : Kept(loop.val, i, e)
           /\ \A e : e = loop.val => Kept(loop.val, loop.cur, e)
<1>1. /\ loop.val \in Entry /\ loop.val.by = loop.cur /\ Ordered(loop.val)
      /\ loop.cur \in DOMAIN dispatch /\ promised[loop.cur] = NoEntry
  BY DEF IInv, LoopInv
<1>2. loop.val # NoEntry /\ loop.val \in Entries
  BY <1>1 DEF Entry, Entries, NoEntry, Ids
<1>3. QED
  BY <1>1, <1>2 DEF Kept

\* A Put that fails leaves the maps alone and the order is marked as failed.
LEMMA FailStep ==
    ASSUME IInv, loop.pc \in {"global", "target", "source"}, GoMark(FALSE),
           UNCHANGED <<dispatch, kernel, memory, clock, promised, crashes, calls>>,
           faults' \in 0..MaxFaults
    PROVE  IInv'
<1>1. /\ loop' \in Loop /\ loop'.pc = "mark" /\ loop'.batch = loop.batch
      /\ loop'.cur = loop.cur /\ loop'.val = loop.val /\ loop'.ok = FALSE
  BY GoMarkType
<1>2. TypeOK'
  BY <1>1 DEF IInv, TypeOK, kernel, memory
<1>3. /\ loop.batch \subseteq DOMAIN dispatch
      /\ loop.cur \in DOMAIN dispatch /\ loop.cur \notin loop.batch
      /\ loop.val \in Entry /\ loop.val.by = loop.cur /\ Ordered(loop.val)
      /\ promised[loop.cur] = NoEntry
  BY DEF IInv, LoopInv, Busy
<1>4. LoopInv'
  <2>1. Ordered(loop.val)'
    BY <1>1, <1>3 DEF Ordered, Order
  <2>2. QED
    BY <1>1, <1>3, <2>1 DEF LoopInv
<1>5. clock \in Nat /\ loop'.batch \subseteq loop.batch \cup Pending /\ SameOrders
  BY <1>1, LoopFields DEF SameOrders
<1>6. QED
  BY <1>2, <1>4, <1>5, KernelFrame, PromiseFrame DEF IInv

LEMMA FaultsType ==
    ASSUME IInv, NEW size, NEW cap, PutFails(size, cap)
    PROVE  faults' \in 0..MaxFaults
<1>1. MaxFaults \in Nat /\ faults \in 0..MaxFaults
  BY BoundAssumption DEF IInv, TypeOK
<1>2. QED
  BY <1>1 DEF PutFails

LEMMA ApplyGlobalStep ==
    ASSUME IInv, ApplyGlobal
    PROVE  IInv'
<1> DEFINE p == GlobalKey(Order(loop.cur))
<1>1. /\ loop.pc = "global" /\ Busy
      /\ UNCHANGED <<dispatch, targetHosts, srcBans, memory, clock, promised, crashes, calls>>
  BY DEF ApplyGlobal, Busy
<1>2. CASE PutFails(Size(globalBans), GlobalCap) /\ GoMark(FALSE) /\ UNCHANGED globalBans
  BY <1>1, <1>2, FaultsType, FailStep DEF kernel
<1>3. CASE /\ UNCHANGED faults
           /\ globalBans' = [globalBans EXCEPT ![p] = loop.val]
           /\ GoMark(TRUE)
  <2>1. /\ loop.cur \in DOMAIN dispatch /\ loop.cur \notin loop.batch
        /\ loop.batch \subseteq DOMAIN dispatch /\ promised[loop.cur] = NoEntry
        /\ ~IsScoped(Order(loop.cur)) /\ p # NoPrefix
    BY <1>1 DEF IInv, LoopInv
  <2>2. p \in Prefixes /\ loop.cur \in Ids
    BY <2>1, OrderType DEF IInv
  <2>3. /\ loop' \in Loop /\ loop'.pc = "mark" /\ loop'.batch = loop.batch
        /\ loop'.cur = loop.cur /\ loop'.val = loop.val /\ loop'.ok = TRUE
    BY <1>3, GoMarkType
  <2>4. /\ globalBans' \in [Prefixes -> Entries]
        /\ \A q \in Prefixes : globalBans'[q] = IF q = p THEN loop.val ELSE globalBans[q]
    BY <1>1, <1>3, <2>2, NewEntry DEF IInv, TypeOK
  <2>5. UNCHANGED <<targetIDs, nextTargetID>>
    BY <1>1 DEF memory
  <2>6. ScopedInv'
    BY <1>1, <2>5 DEF IInv, ScopedInv, Ordered, Order, IsScoped
  <2>7. TypeOK'
    BY <1>1, <1>3, <2>3, <2>4 DEF IInv, TypeOK, memory
  <2>8. IdsInv'
    BY <1>1, <2>5 DEF IInv, IdsInv, Targeted
  <2>9. GlobalInv'
    <3> SUFFICES ASSUME NEW q \in Prefixes, globalBans'[q] # NoEntry
                 PROVE  /\ Ordered(globalBans[q])'
                        /\ ~IsScoped(Order(globalBans[q].by))'
                        /\ (GlobalKey(Order(globalBans[q].by)))' = q
      BY DEF GlobalInv
    <3>1. CASE q = p
      BY <1>1, <2>1, <2>4, <3>1, NewEntry DEF Ordered, Order, IsScoped, GlobalKey
    <3>2. CASE q # p
      BY <1>1, <2>4, <3>2 DEF IInv, GlobalInv, Ordered, Order, IsScoped, GlobalKey
    <3>3. QED
      BY <3>1, <3>2
  <2>10. ASSUME NEW i \in DOMAIN dispatch, NEW e, InForce(i, e), Kept(loop.val, i, e)
         PROVE  InForce(i, e)'
    <3>1. GlobalKey(Order(i)) \in Prefixes \cup {NoPrefix}
      BY OrderType DEF IInv
    <3>2. QED
      BY <1>1, <2>4, <2>10, <3>1 DEF InForce, Kept, IsScoped, GlobalKey, Order, memory
  <2>11. LoopInv'
    <3>1. InForce(loop.cur, loop.val)'
      BY <1>1, <2>1, <2>2, <2>3, <2>4, NewEntry
         DEF InForce, Kept, IsScoped, GlobalKey, Order
    <3>2. Ordered(loop.val)'
      BY <1>1, <2>3, NewEntry DEF Ordered, Order
    <3>3. QED
      BY <1>1, <2>1, <2>3, <3>1, <3>2, NewEntry DEF LoopInv
  <2>12. PromiseInv'
    <3> SUFFICES ASSUME NEW i \in Ids, promised[i] # NoEntry
                 PROVE  /\ i \in DOMAIN dispatch /\ dispatch[i].state # "pending"
                        /\ i \notin loop.batch /\ InForce(i, promised[i])'
      BY <1>1, <2>3 DEF PromiseInv
    <3>1. /\ i \in DOMAIN dispatch /\ dispatch[i].state # "pending" /\ i \notin loop.batch
          /\ InForce(i, promised[i])
      BY DEF IInv, PromiseInv
    <3>2. ASSUME NEW e, e = promised[i] PROVE InForce(i, e)'
      BY <1>1, <2>10, <3>1, <3>2, NewEntry
    <3>3. QED
      BY <1>1, <3>1, <3>2 DEF InForce
  <2>13. QED
    BY <2>6, <2>7, <2>8, <2>9, <2>11, <2>12 DEF IInv
<1>4. QED
  BY <1>2, <1>3 DEF ApplyGlobal, PutSucceeds

LEMMA EnsureTargetStep ==
    ASSUME IInv, EnsureTarget
    PROVE  IInv'
<1> DEFINE h == Order(loop.cur).host
           tid == IF targetIDs[h] # 0 THEN targetIDs[h] ELSE nextTargetID
<1>1. /\ loop.pc = "target" /\ Busy
      /\ UNCHANGED <<dispatch, globalBans, srcBans, clock, promised, crashes, calls>>
      /\ SameOrders
  BY DEF EnsureTarget, Busy, SameOrders
<1>2. /\ loop.cur \in DOMAIN dispatch /\ loop.cur \notin loop.batch
      /\ loop.batch \subseteq DOMAIN dispatch /\ promised[loop.cur] = NoEntry
      /\ IsScoped(Order(loop.cur)) /\ loop.left = Order(loop.cur).prefixes
  BY <1>1 DEF IInv, LoopInv
<1>3. h \in Hosts
  BY <1>2, OrderType DEF IInv, IsScoped
<1>4. ASSUME tid \in 0..MaxTargetId,
             loop' = LoopAt("source", loop.batch, loop.cur, loop.val, tid, loop.left, FALSE),
             targetIDs'[h] = tid, tid # 0
      PROVE  LoopInv' /\ loop' \in Loop /\ loop'.batch = loop.batch
  <2>1. /\ loop' \in Loop /\ loop'.pc = "source" /\ loop'.batch = loop.batch
        /\ loop'.cur = loop.cur /\ loop'.val = loop.val /\ loop'.tid = tid
        /\ loop'.left = loop.left
    <3> HIDE DEF tid
    <3>1. QED
      BY <1>4, LoopFields DEF LoopAt, Loop
  <2>2. AtSource(Order(loop.cur))'
    BY <1>1, <1>2, <1>4, <2>1 DEF AtSource, IsScoped, Order
  <2>3. Ordered(loop.val)'
    BY <1>1, <2>1, NewEntry DEF Ordered, Order
  <2>4. QED
    BY <1>1, <1>2, <2>1, <2>2, <2>3, NewEntry DEF LoopInv
<1>5. CASE targetIDs[h] # 0 /\ UNCHANGED <<targetHosts, memory, faults>>
  <2>1. tid \in 0..MaxTargetId /\ targetIDs'[h] = tid /\ tid # 0
    BY <1>3, <1>5 DEF IInv, TypeOK, memory
  <2>2. loop' = LoopAt("source", loop.batch, loop.cur, loop.val, tid, loop.left, FALSE)
    BY <1>5 DEF EnsureTarget, Become
  <2>3. LoopInv' /\ loop' \in Loop /\ loop'.batch \subseteq loop.batch \cup Pending
    BY <1>4, <2>1, <2>2
  <2>4. UNCHANGED <<kernel, memory>> /\ clock \in Nat
    BY <1>1, <1>5, LoopFields DEF kernel
  <2>5. TypeOK'
    BY <1>1, <1>5, <2>3 DEF IInv, TypeOK, memory
  <2>6. QED
    BY <1>1, <2>3, <2>4, <2>5, KernelFrame, PromiseFrame DEF IInv
<1>6. CASE /\ targetIDs[h] = 0 /\ PutFails(Targeted, TargetCap) /\ GoMark(FALSE)
           /\ UNCHANGED <<targetHosts, memory>>
  <2>1. UNCHANGED kernel
    BY <1>1, <1>6 DEF kernel
  <2>2. QED
    BY <1>1, <1>6, <2>1, FaultsType, FailStep
<1>7. CASE /\ targetIDs[h] = 0 /\ PutSucceeds(Targeted, TargetCap, NoEntry)
           /\ targetHosts' = [targetHosts EXCEPT ![h] = tid]
           /\ targetIDs' = [targetIDs EXCEPT ![h] = tid]
           /\ nextTargetID' = nextTargetID + 1
           /\ loop' = LoopAt("source", loop.batch, loop.cur, loop.val, tid, loop.left, FALSE)
  <2>1. /\ targetHosts \in [Hosts -> 0..MaxTargetId] /\ targetIDs \in [Hosts -> 0..MaxTargetId]
        /\ targetHosts = targetIDs /\ nextTargetID = Targeted + 1
        /\ tid = nextTargetID
    BY <1>7 DEF IInv, TypeOK, IdsInv
  <2>2. Targeted \in Nat /\ Targeted' = Targeted + 1
    <3> DEFINE S == {g \in Hosts : targetHosts[g] # 0}
               T == {g \in Hosts : targetHosts'[g] # 0}
    <3>1. IsFiniteSet(S)
      BY BoundAssumption, FS_Subset
    <3>2. Cardinality(S) \in Nat
      BY <3>1, FS_CardinalityType
    <3>3. tid # 0
      BY <2>1, <3>2 DEF Targeted
    <3>4. T = S \cup {h} /\ h \notin S
      BY <1>3, <1>7, <2>1, <3>3
    <3>5. Cardinality(T) = Cardinality(S) + 1
      BY <3>1, <3>4, FS_AddElement
    <3>6. QED
      BY <3>2, <3>5 DEF Targeted
  <2>3. nextTargetID \in Nat \ {0} /\ nextTargetID <= MaxTargetId
    <3>1. TargetCap \in Nat /\ MaxTargetId \in Nat /\ Targeted < TargetCap
      BY <1>7, BoundAssumption DEF PutSucceeds
    <3>2. QED
      BY <2>1, <2>2, <3>1, TargetIdAssumption
  <2>4. tid \in 0..MaxTargetId /\ tid # 0 /\ targetIDs'[h] = tid /\ MaxTargetId \in Nat
    BY <1>3, <1>7, <2>1, <2>3, LoopFields
  <2>5. LoopInv' /\ loop' \in Loop /\ loop'.batch = loop.batch
    BY <1>4, <1>7, <2>4
  <2>6. /\ targetHosts' \in [Hosts -> 0..MaxTargetId] /\ targetIDs' \in [Hosts -> 0..MaxTargetId]
        /\ nextTargetID' \in 1..(MaxTargetId + 1)
        /\ \A g \in Hosts : targetIDs'[g] = IF g = h THEN tid ELSE targetIDs[g]
    BY <1>7, <2>1, <2>3, <2>4
  <2>7. TypeOK'
    BY <1>1, <1>7, <2>5, <2>6 DEF IInv, TypeOK, PutSucceeds
  <2>8. IdsInv'
    <3>1. \A g \in Hosts : targetIDs[g] \in Nat /\ targetIDs[g] < nextTargetID
      BY <2>1, <2>4 DEF IInv, IdsInv
    <3>2. targetHosts' = targetIDs' /\ nextTargetID' = Targeted' + 1
      BY <1>7, <2>1, <2>2
    <3>3. \A g \in Hosts : targetIDs'[g] < nextTargetID'
      BY <1>7, <2>1, <2>3, <2>6, <3>1
    <3>4. \A f, g \in Hosts : targetIDs'[f] = targetIDs'[g] /\ targetIDs'[f] # 0 => f = g
      BY <2>1, <2>3, <2>6, <3>1 DEF IInv, IdsInv
    <3>5. QED
      BY <3>2, <3>3, <3>4 DEF IdsInv
  <2>9. GlobalInv'
    BY <1>1 DEF IInv, GlobalInv, Ordered, Order, IsScoped, GlobalKey
  <2>10. ScopedInv'
    <3> SUFFICES ASSUME NEW t \in TargetIds, NEW p \in Prefixes, srcBans[t][p] # NoEntry
                 PROVE  /\ Ordered(srcBans[t][p])' /\ IsScoped(Order(srcBans[t][p].by))'
                        /\ (targetIDs[Order(srcBans[t][p].by).host])' = t
                        /\ (\E k \in DOMAIN Order(srcBans[t][p].by).prefixes :
                              Order(srcBans[t][p].by).prefixes[k] = p)'
      BY <1>1 DEF ScopedInv
    <3> DEFINE e == srcBans[t][p]
    <3>1. /\ Ordered(e) /\ IsScoped(Order(e.by)) /\ targetIDs[Order(e.by).host] = t
          /\ \E k \in DOMAIN Order(e.by).prefixes : Order(e.by).prefixes[k] = p
      BY DEF IInv, ScopedInv
    <3>2. e.by \in DOMAIN dispatch /\ Order(e.by).host \in Hosts
      BY <3>1, OrderType DEF IInv, Ordered, IsScoped
    <3>3. t # 0
      BY DEF TargetIds
    <3>4. targetIDs'[Order(e.by).host] = t
      BY <1>7, <2>6, <3>1, <3>2, <3>3
    <3>5. QED
      BY <1>1, <3>1, <3>4 DEF Ordered, Order, IsScoped
  <2>11. PromiseInv'
    <3> SUFFICES ASSUME NEW i \in Ids, promised[i] # NoEntry
                 PROVE  /\ i \in DOMAIN dispatch /\ dispatch[i].state # "pending"
                        /\ i \notin loop.batch /\ InForce(i, promised[i])'
      BY <1>1, <2>5 DEF PromiseInv
    <3>1. /\ i \in DOMAIN dispatch /\ dispatch[i].state # "pending" /\ i \notin loop.batch
          /\ InForce(i, promised[i])
      BY DEF IInv, PromiseInv
    <3>2. IsScoped(Order(i)) => Order(i).host \in Hosts
      BY <3>1, OrderType DEF IInv, IsScoped
    <3>3. IsScoped(Order(i)) => targetIDs'[Order(i).host] = targetIDs[Order(i).host]
      BY <1>7, <2>6, <3>1, <3>2 DEF InForce
    <3>4. InForce(i, promised[i])'
      BY <1>1, <3>1, <3>3 DEF InForce, Kept, IsScoped, GlobalKey, Order
    <3>5. QED
      BY <3>1, <3>4
  <2>12. QED
    BY <2>5, <2>7, <2>8, <2>9, <2>10, <2>11 DEF IInv
<1>8. QED
  BY <1>5, <1>6, <1>7 DEF EnsureTarget, Become

LEMMA ApplyPrefixStep ==
    ASSUME IInv, ApplyPrefix
    PROVE  IInv'
<1> DEFINE p == Head(loop.left)
           tid == loop.tid
           o == Order(loop.cur)
<1>1. /\ loop.pc = "source" /\ loop.left # <<>> /\ Busy
      /\ UNCHANGED <<dispatch, globalBans, targetHosts, memory, clock, promised, crashes, calls>>
      /\ UNCHANGED <<targetIDs, nextTargetID>>
  BY DEF ApplyPrefix, Busy, memory
<1>2. CASE PutFails(SrcSize, SrcCap) /\ GoMark(FALSE) /\ UNCHANGED srcBans
  BY <1>1, <1>2, FaultsType, FailStep DEF kernel
<1>3. CASE /\ UNCHANGED faults
           /\ srcBans' = [srcBans EXCEPT ![tid] = [@ EXCEPT ![p] = loop.val]]
           /\ loop' = LoopAt("source", loop.batch, loop.cur, loop.val, tid, Tail(loop.left), FALSE)
  <2>1. /\ loop.cur \in DOMAIN dispatch /\ loop.cur \notin loop.batch
        /\ loop.batch \subseteq DOMAIN dispatch /\ promised[loop.cur] = NoEntry
        /\ AtSource(o)
    BY <1>1 DEF IInv, LoopInv
  <2>2. /\ tid \in TargetIds /\ p \in Prefixes /\ loop.cur \in Ids
        /\ p = loop.left[1] /\ 1 \in DOMAIN loop.left
        /\ Tail(loop.left) \in Seq(Prefixes)
        /\ \A m \in DOMAIN Tail(loop.left) :
              m + 1 \in DOMAIN loop.left /\ Tail(loop.left)[m] = loop.left[m + 1]
        /\ \A m \in DOMAIN loop.left :
              m = 1 \/ (m - 1 \in DOMAIN Tail(loop.left) /\ loop.left[m] = Tail(loop.left)[m - 1])
    <3>1. loop.cur \in Ids
      BY <2>1, OrderType DEF IInv
    <3>2. tid \in TargetIds
      BY <2>1, LoopFields DEF AtSource, TargetIds
    <3>3. loop.left \in Seq(Prefixes)
      BY LoopFields
    <3>4. QED
      BY <1>1, <3>1, <3>2, <3>3
  <2>3. /\ loop' \in Loop /\ loop'.pc = "source" /\ loop'.batch = loop.batch
        /\ loop'.cur = loop.cur /\ loop'.val = loop.val /\ loop'.tid = tid
        /\ loop'.left = Tail(loop.left)
    BY <1>3, <2>2, LoopFields DEF LoopAt, Loop
  <2>4. /\ srcBans' \in [TargetIds -> [Prefixes -> Entries]]
        /\ \A t \in TargetIds, q \in Prefixes :
              srcBans'[t][q] = IF t = tid /\ q = p THEN loop.val ELSE srcBans[t][q]
    <3>1. srcBans \in [TargetIds -> [Prefixes -> Entries]] /\ loop.val \in Entries
      BY LoopFields DEF IInv, TypeOK
    <3>2. QED
      BY <1>3, <2>2, <3>1
  <2>5. TypeOK'
    BY <1>1, <1>3, <2>3, <2>4 DEF IInv, TypeOK
  <2>6. IdsInv'
    BY <1>1 DEF IInv, IdsInv, Targeted
  <2>7. GlobalInv'
    BY <1>1 DEF IInv, GlobalInv, Ordered, Order, IsScoped, GlobalKey
  <2>8. ScopedInv'
    <3> SUFFICES ASSUME NEW t \in TargetIds, NEW q \in Prefixes, srcBans'[t][q] # NoEntry
                 PROVE  /\ Ordered(srcBans[t][q])' /\ IsScoped(Order(srcBans[t][q].by))'
                        /\ (targetIDs[Order(srcBans[t][q].by).host])' = t
                        /\ (\E k \in DOMAIN Order(srcBans[t][q].by).prefixes :
                              Order(srcBans[t][q].by).prefixes[k] = q)'
      BY DEF ScopedInv
    <3>1. CASE t = tid /\ q = p
      <4>1. srcBans'[t][q] = loop.val /\ loop.val.by = loop.cur /\ Ordered(loop.val)
        BY <1>1, <2>4, <3>1, NewEntry
      <4>2. \E k \in DOMAIN o.prefixes : o.prefixes[k] = q
        BY <2>1, <2>2, <3>1 DEF AtSource
      <4>3. QED
        BY <1>1, <2>1, <3>1, <4>1, <4>2 DEF AtSource, Ordered, Order, IsScoped
    <3>2. CASE ~(t = tid /\ q = p)
      <4>1. srcBans'[t][q] = srcBans[t][q]
        BY <2>4, <3>2
      <4>2. QED
        BY <1>1, <4>1 DEF IInv, ScopedInv, Ordered, Order, IsScoped
    <3>3. QED
      BY <3>1, <3>2
  <2>9. LoopInv'
    <3>1. Ordered(loop.val)'
      BY <1>1, <2>3, NewEntry DEF Ordered, Order
    <3>2. \A m \in DOMAIN Tail(loop.left) :
              \E k \in DOMAIN o.prefixes : Tail(loop.left)[m] = o.prefixes[k]
      BY <2>1, <2>2 DEF AtSource
    <3>3. ASSUME NEW k \in DOMAIN o.prefixes
          PROVE  \/ \E m \in DOMAIN Tail(loop.left) : Tail(loop.left)[m] = o.prefixes[k]
                 \/ srcBans'[tid][o.prefixes[k]] = loop.val
      <4>1. o.prefixes[k] \in Prefixes
        BY <2>1, OrderType DEF IInv
      <4>2. CASE o.prefixes[k] = p
        BY <2>2, <2>4, <4>2
      <4>3. CASE o.prefixes[k] # p
        <5>1. CASE \E m \in DOMAIN loop.left : loop.left[m] = o.prefixes[k]
          BY <2>2, <4>3, <5>1
        <5>2. CASE srcBans[tid][o.prefixes[k]] = loop.val
          BY <2>2, <2>4, <4>1, <4>3, <5>2
        <5>3. QED
          BY <2>1, <5>1, <5>2 DEF AtSource
      <4>4. QED
        BY <4>2, <4>3
    <3>4. AtSource(Order(loop.cur))'
      <4>1. Order(loop.cur)' = o
        BY <1>1, <2>3 DEF Order
      <4>2. IsScoped(o) /\ tid = targetIDs[o.host] /\ tid # 0
        BY <2>1 DEF AtSource
      <4>3. QED
        BY <1>1, <2>3, <3>2, <3>3, <4>1, <4>2 DEF AtSource, IsScoped
    <3>5. QED
      BY <1>1, <2>1, <2>3, <3>1, <3>4, NewEntry DEF LoopInv
  <2>10. PromiseInv'
    <3> SUFFICES ASSUME NEW i \in Ids, promised[i] # NoEntry
                 PROVE  /\ i \in DOMAIN dispatch /\ dispatch[i].state # "pending"
                        /\ i \notin loop.batch /\ InForce(i, promised[i])'
      BY <1>1, <2>3 DEF PromiseInv
    <3>1. /\ i \in DOMAIN dispatch /\ dispatch[i].state # "pending" /\ i \notin loop.batch
          /\ InForce(i, promised[i])
      BY DEF IInv, PromiseInv
    <3>2. ASSUME NEW t \in TargetIds,
                 NEW q \in Prefixes, Kept(srcBans[t][q], i, promised[i])
          PROVE  Kept(srcBans'[t][q], i, promised[i])
      <4>1. Kept(loop.val, i, promised[i])
        BY <1>1, NewEntry
      <4>2. srcBans'[t][q] \in {srcBans[t][q], loop.val}
        BY <2>4
      <4>3. QED
        BY <3>2, <4>1, <4>2
    <3>3. IsScoped(Order(i)) =>
            /\ targetIDs[Order(i).host] # 0 => targetIDs[Order(i).host] \in TargetIds
            /\ \A k \in DOMAIN Order(i).prefixes : Order(i).prefixes[k] \in Prefixes
      <4>1. Order(i).prefixes \in Seq(Prefixes) /\ (IsScoped(Order(i)) => Order(i).host \in Hosts)
        BY <3>1, OrderType DEF IInv, IsScoped
      <4>2. QED
        BY <4>1, LoopFields DEF IInv, TypeOK, TargetIds
    <3>4. InForce(i, promised[i])'
      BY <1>1, <3>1, <3>2, <3>3 DEF InForce, Kept, IsScoped, GlobalKey, Order
    <3>5. QED
      BY <3>1, <3>4
  <2>11. QED
    BY <2>5, <2>6, <2>7, <2>8, <2>9, <2>10 DEF IInv
<1>4. QED
  BY <1>2, <1>3 DEF ApplyPrefix, PutSucceeds, PutSrc, Become

LEMMA InvNext == IInv /\ [Next]_vars => IInv'
<1> SUFFICES ASSUME IInv, [Next]_vars PROVE IInv'
  OBVIOUS
<1>1. CASE LoopStep
  BY <1>1, PollStep, ApplyStep, ApplyGlobalStep, EnsureTargetStep, ApplyPrefixStep,
     ScopedDoneStep, MarkStep DEF LoopStep
<1>2. ASSUME NEW o \in Payloads, CreateDispatch(o) PROVE IInv'
  BY <1>2, CreateStep
<1>3. ASSUME NEW i \in DOMAIN dispatch, MarkDispatchAck(i) \/ MarkDispatchFail(i) PROVE IInv'
  BY <1>3, MarkByApiStep DEF MarkDispatchAck, MarkDispatchFail
<1>4. CASE Tick \/ Crash \/ StartExecutor \/ UNCHANGED vars
  BY <1>4, TickStep, CrashStep, StartStep, StutterStep
<1>5. QED
  BY <1>1, <1>2, <1>3, <1>4 DEF Next

-----------------------------------------------------------------------------
(* The longest prefix *)

\* Prefixes that share an address are nested, so finitely many have a narrowest one:
\* one below which the fewest others lie.
LEMMA NarrowestPrefix ==
    ASSUME NEW s, NEW M \in SUBSET Prefixes, M # {}, \A p \in M : s \in Cover[p]
    PROVE  \E p \in M : \A q \in M : Cover[p] \subseteq Cover[q]
<1> DEFINE below(p) == {q \in M : q # p /\ Cover[q] \subseteq Cover[p]}
           T == {below(p) : p \in M}
           R == StrictSubsetOrdering(M)
<1>1. IsFiniteSet(M)
  BY BoundAssumption, FS_Subset
<1>2. IsWellFoundedOn(R, SUBSET M)
  BY <1>1, FS_StrictSubsetOrderingWellFounded, FS_FiniteSubsetsOfFinite
<1>3. T \subseteq SUBSET M /\ T # {}
  OBVIOUS
<1>4. PICK x \in T : \A y \in T : <<y, x>> \notin R
  <2> HIDE DEF T, R
  <2>1. QED
    BY <1>2, <1>3, WFMin
<1>5. PICK p \in M : x = below(p)
  BY <1>4
<1>6. ASSUME NEW q \in below(p) PROVE FALSE
  <2>1. below(q) \subseteq below(p)
    <3> SUFFICES ASSUME NEW r \in below(q) PROVE r \in below(p)
      OBVIOUS
    <3>1. Cover[r] \subseteq Cover[q] /\ Cover[q] \subseteq Cover[p] /\ q # p
      OBVIOUS
    <3>2. r # p
      <4>1. r = p => Cover[p] = Cover[q]
        BY <3>1
      <4>2. p \in Prefixes /\ q \in Prefixes
        OBVIOUS
      <4>3. QED
        BY <3>1, <4>1, <4>2, PrefixAssumption
    <3>3. QED
      BY <3>1, <3>2
  <2>2. q \in below(p) /\ q \notin below(q)
    OBVIOUS
  <2>3. <<below(q), below(p)>> \in R
    BY <2>1, <2>2 DEF StrictSubsetOrdering
  <2>4. below(q) \in T
    OBVIOUS
  <2>5. QED
    BY <1>4, <1>5, <2>3, <2>4
<1>7. ASSUME NEW q \in M PROVE Cover[p] \subseteq Cover[q]
  <2>1. Cover[p] \cap Cover[q] \in {{}, Cover[p], Cover[q]} /\ s \in Cover[p] \cap Cover[q]
    BY PrefixAssumption
  <2>2. CASE Cover[p] \cap Cover[q] = Cover[p]
    BY <2>2
  <2>3. CASE Cover[p] \cap Cover[q] = Cover[q]
    BY <1>6, <2>3
  <2>4. QED
    BY <2>1, <2>2, <2>3
<1>8. QED
  BY <1>7

\* A lookup finds an entry of some prefix around the address, if there is any.
LEMMA LookupFinds ==
    ASSUME NEW entries, NEW s
    PROVE  /\ (\E p \in Prefixes : entries[p] # NoEntry /\ s \in Cover[p]) =>
                 Lookup(entries, s) # NoEntry
           /\ Lookup(entries, s) # NoEntry =>
                 \E p \in Prefixes : s \in Cover[p] /\ Lookup(entries, s) = entries[p]
<1> DEFINE M == {p \in Prefixes : entries[p] # NoEntry /\ s \in Cover[p]}
           P(p) == \A q \in M : Cover[p] \subseteq Cover[q]
<1>1. CASE M = {}
  BY <1>1 DEF Lookup
<1>2. CASE M # {}
  <2>1. \E p \in M : P(p)
    <3>1. M \in SUBSET Prefixes /\ \A p \in M : s \in Cover[p]
      OBVIOUS
    <3> HIDE DEF M
    <3>2. QED
      BY <1>2, <3>1, NarrowestPrefix
  <2>2. (CHOOSE p \in M : P(p)) \in M
    <3> HIDE DEF P
    <3>1. QED
      BY <2>1
  <2>3. Lookup(entries, s) = entries[CHOOSE p \in M : P(p)]
    BY <1>2 DEF Lookup
  <2>4. QED
    BY <2>2, <2>3
<1>3. QED
  BY <1>1, <1>2

\* Where a packet's verdict comes from.
LEMMA DeciderCases ==
    ASSUME NEW s, NEW d, Decider(s, d) # NoEntry
    PROVE  \/ \E p \in Prefixes : s \in Cover[p] /\ Decider(s, d) = globalBans[p]
           \/ /\ targetHosts[d] # 0
              /\ \E p \in Prefixes : s \in Cover[p] /\ Decider(s, d) = srcBans[targetHosts[d]][p]
  BY LookupFinds DEF Decider

-----------------------------------------------------------------------------
(* The theorems *)

LEMMA OrderedDrops == IInv => DropsOnlyOrdered
<1> SUFFICES ASSUME IInv, NEW s \in Addrs, NEW d \in Hosts, Drops(s, d)
             PROVE  LET e == Decider(s, d)
                    IN  /\ e.by \in DOMAIN dispatch
                        /\ Concerns(Order(e.by), s, d)
                        /\ (e.exp = 0) = (Order(e.by).ttl = 0)
                        /\ e.exp <= clock + Order(e.by).ttl
  BY DEF DropsOnlyOrdered
<1> DEFINE e == Decider(s, d)
<1>1. e # NoEntry
  BY DEF Drops, Live
<1>2. CASE \E p \in Prefixes : s \in Cover[p] /\ e = globalBans[p]
  <2>1. PICK p \in Prefixes : s \in Cover[p] /\ e = globalBans[p]
    BY <1>2
  <2>2. Ordered(e) /\ ~IsScoped(Order(e.by)) /\ GlobalKey(Order(e.by)) = p
    BY <1>1, <2>1 DEF IInv, GlobalInv
  <2>3. QED
    BY <2>1, <2>2, PayloadAssumption DEF Ordered, Concerns
<1>3. CASE /\ targetHosts[d] # 0
           /\ \E p \in Prefixes : s \in Cover[p] /\ e = srcBans[targetHosts[d]][p]
  <2>1. PICK p \in Prefixes : s \in Cover[p] /\ e = srcBans[targetHosts[d]][p]
    BY <1>3
  <2>2. targetHosts[d] \in TargetIds /\ targetHosts[d] = targetIDs[d]
    BY <1>3, LoopFields DEF IInv, TypeOK, IdsInv, TargetIds
  <2>3. /\ Ordered(e) /\ IsScoped(Order(e.by))
        /\ targetIDs[Order(e.by).host] = targetIDs[d]
        /\ \E k \in DOMAIN Order(e.by).prefixes : Order(e.by).prefixes[k] = p
    BY <1>1, <2>1, <2>2 DEF IInv, ScopedInv
  <2>4. Order(e.by).host = d
    BY <1>3, <2>2, <2>3, OrderType DEF IInv, IdsInv, Ordered, IsScoped
  <2>5. QED
    BY <2>1, <2>3, <2>4 DEF Ordered, Concerns
<1>4. QED
  BY <1>1, <1>2, <1>3, DeciderCases

LEMMA AckedEntries == IInv => AckedInForce
<1> SUFFICES ASSUME IInv, NEW i \in DOMAIN dispatch, Live(promised[i]),
                    NEW s \in Addrs, NEW d \in Hosts, Concerns(Order(i), s, d)
             PROVE  LET e == Decider(s, d)
                    IN  Live(e) \/ (e # NoEntry /\ e.by # i)
  BY DEF AckedInForce
<1> DEFINE e == Decider(s, d)
           g == Lookup(globalBans, s)
<1>1. InForce(i, promised[i])
  BY OrderType DEF IInv, PromiseInv, Live
\* A hit in the global map belongs to an order without a host.
<1>2. ASSUME g # NoEntry
      PROVE  /\ e = g /\ ~IsScoped(Order(g.by))
             /\ GlobalKey(Order(g.by)) \in Prefixes /\ g = globalBans[GlobalKey(Order(g.by))]
  <2>1. PICK p \in Prefixes : g = globalBans[p]
    BY <1>2, LookupFinds
  <2>2. ~IsScoped(Order(g.by)) /\ GlobalKey(Order(g.by)) = p
    BY <1>2, <2>1 DEF IInv, GlobalInv
  <2>3. QED
    BY <1>2, <2>1, <2>2 DEF Decider
<1>3. CASE ~IsScoped(Order(i))
  <2>1. /\ GlobalKey(Order(i)) \in Prefixes /\ s \in Cover[GlobalKey(Order(i))]
        /\ Kept(globalBans[GlobalKey(Order(i))], i, promised[i])
    BY <1>1, <1>3, OrderType DEF IInv, InForce, Concerns
  <2>2. g # NoEntry
    BY <2>1, LookupFinds DEF Kept
  <2>3. QED
    BY <1>2, <2>1, <2>2 DEF Kept
<1>4. CASE IsScoped(Order(i))
  <2> DEFINE t == targetIDs[d]
  <2>1. /\ d = Order(i).host /\ t # 0
        /\ \A k \in DOMAIN Order(i).prefixes : Kept(srcBans[t][Order(i).prefixes[k]], i, promised[i])
    BY <1>1, <1>4 DEF InForce, Concerns
  <2>2. t \in TargetIds /\ targetHosts[d] = t
    BY <2>1, LoopFields DEF IInv, TypeOK, IdsInv, TargetIds
  <2>3. CASE g # NoEntry
    BY <1>2, <1>4, <2>3
  <2>4. CASE g = NoEntry
    <3>1. e = Lookup(srcBans[t], s)
      BY <2>1, <2>2, <2>4 DEF Decider
    <3>2. \E p \in Prefixes : srcBans[t][p] # NoEntry /\ s \in Cover[p]
      <4>1. PICK k \in DOMAIN Order(i).prefixes : s \in Cover[Order(i).prefixes[k]]
        BY <1>4 DEF Concerns
      <4>2. Order(i).prefixes[k] \in Prefixes
        BY OrderType DEF IInv
      <4>3. QED
        BY <2>1, <4>1, <4>2 DEF Kept
    <3>3. PICK p \in Prefixes : e = srcBans[t][p] /\ e # NoEntry
      BY <3>1, <3>2, LookupFinds
    <3>4. e.by = i => \E k \in DOMAIN Order(i).prefixes : Order(i).prefixes[k] = p
      BY <2>2, <3>3 DEF IInv, ScopedInv
    <3>5. QED
      BY <2>1, <3>3, <3>4 DEF Kept
  <2>5. QED
    BY <2>3, <2>4
<1>5. QED
  BY <1>3, <1>4

LEMMA NoOrphans == IInv => NoOrphanEntries
<1> SUFFICES ASSUME IInv, NEW t \in TargetIds, NEW p \in Prefixes, srcBans[t][p] # NoEntry
             PROVE  \E h \in Hosts : targetHosts[h] = t /\ targetIDs[h] = t
  BY DEF NoOrphanEntries
<1> DEFINE o == Order(srcBans[t][p].by)
<1>1. srcBans[t][p].by \in DOMAIN dispatch /\ IsScoped(o) /\ targetIDs[o.host] = t
  BY DEF IInv, ScopedInv, Ordered
<1>2. o.host \in Hosts
  BY <1>1, OrderType DEF IInv, IsScoped
<1>3. QED
  BY <1>1, <1>2 DEF IInv, IdsInv

\* Rows, maps and the loop keep their types; no order is given an id beyond those the
\* map of targets has room for.
THEOREM TypeCorrect == Spec => []TypeOK
<1>1. IInv => TypeOK
  BY DEF IInv
<1>2. QED
  BY <1>1, InvInit, InvNext, PTL DEF Spec

\* Every packet the XDP program drops is one that an order asked for, for as long as it
\* asked: ids are never shared by two hosts and entries never sit under foreign keys.
THEOREM DropsHold == Spec => []DropsOnlyOrdered
  BY OrderedDrops, InvInit, InvNext, PTL DEF Spec

\* An acked order has an entry under each of its keys until the process dies, its own
\* with the deadline that was promised or that of a later order.
THEOREM AckedHolds == Spec => []AckedInForce
  BY AckedEntries, InvInit, InvNext, PTL DEF Spec

\* The id of an entry is in the kernel's table of targets before the entry is written.
THEOREM OrphansHold == Spec => []NoOrphanEntries
  BY NoOrphans, InvInit, InvNext, PTL DEF Spec
=============================================================================
