--------------------------- MODULE Sampler_proofs ---------------------------
(***************************************************************************)
(* Theorems of Sampler for any flows, buffer sizes and numbers of packets: *)
(* types, with the bounds of every buffer and counter; that no packet is   *)
(* counted twice; that the gaps in flow_sequence are the losses, but for   *)
(* the first one after a restart of the sampler; and that the dashboard    *)
(* shows the loudest pairs with their true counts.                         *)
(*                                                                         *)
(* A packet is in one place at a time: in the ring, in the channel, in the *)
(* sums of the period while it runs, in one request, or in one report.     *)
(* The proof follows the sum over these places through every step.  That   *)
(* the time stamps of requests differ, so that two of them never are the   *)
(* same member of a set, is part of it.                                    *)
(***************************************************************************)
EXTENDS Sampler, Sums

\* Packets of the running period; those of a period reported already are in a request.
Running == IF pc = "loop" THEN SumFunction(flowStats) ELSE 0

\* There are at most as many packets on their way as were sampled, and every period
\* reported took one at least.
BoundInv == periods + Len(ring) + Len(events) + Running <= SumFunction(sampled)

\* The time stamp of the next period is new.
StampInv ==
    /\ IsFiniteSet(requests)
    /\ \A r \in requests : r.timestamp <= periods

\* CountedOnce, with the places of a packet by name.
InRequests(f, R) == SumFunction([r \in R |-> r.flows[f]])
InWindow(f, s) == SumFunctionOnSet([i \in DOMAIN s |-> s[i].flows[f]], DOMAIN s)
InPeriod(f) == IF pc = "loop" THEN flowStats[f] ELSE 0
Counted(f) == InSeq(f, ring) + InSeq(f, events) + InPeriod(f)
              + InRequests(f, requests) + InWindow(f, reports)

CountOf(f) ==
    /\ Counted(f) <= sampled[f]
    /\ ~lossy => Counted(f) = sampled[f]
CountInv == \A f \in Flows : CountOf(f)

\* TypeOK, with the buffers as sequences of bounded length.
BuffersOK ==
    /\ ring \in Seq(Flows) /\ Len(ring) <= RingSize
    /\ events \in Seq(Flows) /\ Len(events) <= ChannelSize
LoopOK ==
    /\ pc \in {"loop", "post", "export", "clear"}
    /\ flowStats \in FlowStats
    /\ todo \subseteq Seen(flowStats) /\ (pc # "export" => todo = {})
    /\ periods \in 0..MaxPackets
SentOK ==
    /\ requests \subseteq Report
    /\ reports \in Seq(Report) /\ Len(reports) <= Limit
NetflowOK ==
    /\ {flowSeq, expected} \subseteq 0..SequenceSpace - 1
    /\ missing \in Nat /\ regressed \in BOOLEAN
HistoryOK == sampled \in FlowStats /\ lossy \in BOOLEAN /\ enabled \in BOOLEAN
Types == BuffersOK /\ LoopOK /\ SentOK /\ NetflowOK /\ HistoryOK

IInv == Types /\ BoundInv /\ StampInv /\ CountInv /\ GapsCountLosses

-----------------------------------------------------------------------------
(* Counting *)

LEMMA FlowsFinite == IsFiniteSet(Flows)
BY FlowsAssumption, FS_Product DEF Flows

LEMMA StatsType ==
    ASSUME NEW b \in FlowStats
    PROVE  /\ b \in [Flows -> Nat] /\ DOMAIN b = Flows
           /\ SumFunction(b) = SumFunctionOnSet(b, Flows)
           /\ SumFunction(b) \in Nat /\ SumFunction(b) <= MaxPackets
<1>1. b \in [Flows -> 0..MaxPackets] /\ SumFunction(b) <= MaxPackets
      BY DEF FlowStats
<1>2. b \in [Flows -> Nat]
      BY <1>1, BoundAssumption
<1>3. SumFunction(b) = SumFunctionOnSet(b, Flows)
      BY <1>2, SumFunctionIsOnSet
<1>4. SumFunctionOnSet(b, Flows) \in Nat
      BY <1>2, FlowsFinite, SumOnSetNat
<1> QED
    BY <1>1, <1>2, <1>3, <1>4

LEMMA NoFlowsType == NoFlows \in FlowStats /\ SumFunction(NoFlows) = 0
<1>1. NoFlows \in [Flows -> 0..MaxPackets]
      BY BoundAssumption DEF NoFlows
<1>2. SumFunctionOnSet(NoFlows, Flows) = 0
  <2>1. \A f \in Flows : NoFlows[f] = 0
        BY DEF NoFlows
  <2> QED
      BY <2>1, FlowsFinite, SumOnSetZero
<1>3. SumFunction(NoFlows) = 0
      BY <1>2, SumFunctionIsOnSet DEF NoFlows
<1> QED
    BY <1>1, <1>3, BoundAssumption DEF FlowStats

\* Sums that are not those of no flows have a packet.
LEMMA SomeFlows ==
    ASSUME NEW b \in FlowStats, b # NoFlows
    PROVE  SumFunction(b) >= 1
<1>1. b \in [Flows -> Nat] /\ SumFunction(b) = SumFunctionOnSet(b, Flows)
      /\ SumFunction(b) \in Nat
      BY StatsType
<1>2. PICK f \in Flows : b[f] # 0
  <2>1. ASSUME \A f \in Flows : b[f] = 0
        PROVE  b = NoFlows
        BY <1>1, <2>1 DEF NoFlows
  <2> QED
      BY <2>1
<1>3. b[f] <= SumFunctionOnSet(b, Flows)
      BY <1>1, FlowsFinite, SumOnSetBounds
<1>4. b[f] \in Nat
      BY <1>1
<1> QED
    BY <1>1, <1>2, <1>3, <1>4

\* One packet more.
LEMMA CountType ==
    ASSUME NEW b \in FlowStats, NEW f \in Flows, SumFunction(b) < MaxPackets
    PROVE  /\ Count(b, f) \in FlowStats
           /\ SumFunction(Count(b, f)) = SumFunction(b) + 1
           /\ \A g \in Flows : Count(b, f)[g] = b[g] + (IF g = f THEN 1 ELSE 0)
<1> DEFINE c == Count(b, f)
<1>1. /\ b \in [Flows -> Nat] /\ SumFunction(b) = SumFunctionOnSet(b, Flows)
      /\ SumFunction(b) \in Nat
      BY StatsType
<1>2. c \in [Flows -> Nat] /\ \A g \in Flows : c[g] = b[g] + (IF g = f THEN 1 ELSE 0)
      BY <1>1 DEF Count
<1> HIDE DEF c
<1>3. SumFunctionOnSet(c, Flows) = (SumFunctionOnSet(b, Flows) - b[f]) + c[f]
  <2>1. \A g \in Flows : b[g] \in Int
        BY <1>1
  <2>2. c[f] \in Int /\ \A g \in Flows \ {f} : c[g] = b[g]
        BY <1>1, <1>2
  <2> QED
      BY <2>1, <2>2, FlowsFinite, SumOnSetUpdate
<1>4. SumFunction(c) = SumFunctionOnSet(c, Flows)
      BY <1>2, SumFunctionIsOnSet
<1>5. b[f] \in Nat /\ c[f] = b[f] + 1
      BY <1>1, <1>2
<1>6. SumFunction(c) = SumFunction(b) + 1
      BY <1>1, <1>3, <1>4, <1>5
<1>7. c \in FlowStats
  <2>1. SumFunction(c) <= MaxPackets
        BY <1>1, <1>6, BoundAssumption
  <2>2. ASSUME NEW g \in Flows
        PROVE  c[g] \in 0..MaxPackets
    <3>1. c[g] <= SumFunctionOnSet(c, Flows)
          BY <1>2, FlowsFinite, SumOnSetBounds
    <3>2. SumFunctionOnSet(c, Flows) \in Nat
          BY <1>1, <1>4, <1>6
    <3> QED
        BY <1>2, <1>4, <2>1, <3>1, <3>2, BoundAssumption
  <2>3. c \in [Flows -> 0..MaxPackets]
        BY <1>2, <2>2
  <2> QED
      BY <2>1, <2>3 DEF FlowStats
<1> QED
    BY <1>2, <1>6, <1>7 DEF c

\* Packets of a flow in a buffer, when one is added and when the first is taken.
LEMMA InSeqType ==
    ASSUME NEW s \in Seq(Flows), NEW f
    PROVE  /\ InSeq(f, s) \in Nat
           /\ s = <<>> => InSeq(f, s) = 0
<1> DEFINE At == {i \in DOMAIN s : s[i] = f}
<1>1. IsFiniteSet(At)
  <2>1. IsFiniteSet(1..Len(s))
        BY FS_Interval
  <2>2. At \subseteq 1..Len(s)
        OBVIOUS
  <2> HIDE DEF At
  <2> QED
      BY <2>1, <2>2, FS_Subset
<1>2. Cardinality(At) \in Nat
      BY <1>1, FS_CardinalityType
<1>3. s = <<>> => At = {}
      OBVIOUS
<1> QED
    BY <1>2, <1>3, FS_EmptySet DEF InSeq

LEMMA InSeqAppend ==
    ASSUME NEW s \in Seq(Flows), NEW g \in Flows, NEW f
    PROVE  InSeq(f, Append(s, g)) = InSeq(f, s) + (IF f = g THEN 1 ELSE 0)
<1> DEFINE n == Len(s) + 1
           S == {i \in DOMAIN s : s[i] = f}
           T == {i \in DOMAIN Append(s, g) : Append(s, g)[i] = f}
<1>1. T = IF f = g THEN S \cup {n} ELSE S
      OBVIOUS
<1>2. IsFiniteSet(S) /\ n \notin S
  <2>1. IsFiniteSet(1..Len(s))
        BY FS_Interval
  <2>2. S \subseteq 1..Len(s) /\ n \notin S
        OBVIOUS
  <2> HIDE DEF S, n
  <2> QED
      BY <2>1, <2>2, FS_Subset
<1> HIDE DEF S, T, n
<1>3. /\ Cardinality(S \cup {n}) = Cardinality(S) + 1
      /\ Cardinality(S) \in Nat
      BY <1>2, FS_AddElement, FS_CardinalityType
<1>4. Cardinality(T) = Cardinality(S) + (IF f = g THEN 1 ELSE 0)
      BY <1>1, <1>3
<1> QED
    BY <1>4 DEF InSeq, S, T

LEMMA InSeqTail ==
    ASSUME NEW s \in Seq(Flows), s # <<>>, NEW f
    PROVE  /\ Head(s) \in Flows /\ Tail(s) \in Seq(Flows) /\ Len(Tail(s)) = Len(s) - 1
           /\ InSeq(f, s) = InSeq(f, Tail(s)) + (IF f = Head(s) THEN 1 ELSE 0)
<1> DEFINE S == {i \in DOMAIN s : s[i] = f}
           T == {i \in DOMAIN Tail(s) : Tail(s)[i] = f}
           next == [i \in T |-> i + 1]
<1>1. /\ Head(s) \in Flows /\ Tail(s) \in Seq(Flows) /\ Len(Tail(s)) = Len(s) - 1
      /\ Len(s) \in Nat /\ Len(s) # 0
      OBVIOUS
<1>2. \A i \in DOMAIN Tail(s) : Tail(s)[i] = s[i + 1]
      OBVIOUS
<1>3. IsFiniteSet(T) /\ IsFiniteSet(S)
  <2>1. IsFiniteSet(1..Len(s)) /\ IsFiniteSet(1..Len(Tail(s)))
        BY <1>1, FS_Interval
  <2>2. S \subseteq 1..Len(s) /\ T \subseteq 1..Len(Tail(s))
        BY <1>1
  <2> HIDE DEF S, T
  <2> QED
      BY <2>1, <2>2, FS_Subset
<1>4. next \in Bijection(T, S \ {1})
  <2>1. \A i \in T : i + 1 \in S \ {1}
        BY <1>1, <1>2
  <2>2. \A j \in S \ {1} : j - 1 \in T /\ (j - 1) + 1 = j
        BY <1>1, <1>2
  <2>3. \A i, j \in T : i + 1 = j + 1 => i = j
        BY <1>1
  <2> HIDE DEF S, T
  <2>4. next \in [T -> S \ {1}]
        BY <2>1
  <2>5. next \in Surjection(T, S \ {1})
        BY <2>2, <2>4 DEF Surjection
  <2>6. next \in Injection(T, S \ {1})
    <3>1. \A i, j \in T : next[i] = next[j] => i = j
          BY <2>3
    <3> QED
        BY <2>4, <3>1 DEF Injection, IsInjective
  <2> QED
      BY <2>5, <2>6 DEF Bijection
<1>5. 1 \in S <=> f = Head(s)
      BY <1>1
<1> HIDE DEF S, T, next
<1>6. Cardinality(S \ {1}) = Cardinality(T)
      BY <1>3, <1>4, FS_Bijection DEF ExistsBijection
<1>7. Cardinality(S \ {1}) = IF 1 \in S THEN Cardinality(S) - 1 ELSE Cardinality(S)
      BY <1>3, FS_RemoveElement
<1>8. Cardinality(S) \in Nat /\ Cardinality(T) \in Nat
      BY <1>3, FS_CardinalityType
<1>9. Cardinality(S) = Cardinality(T) + (IF f = Head(s) THEN 1 ELSE 0)
      BY <1>5, <1>6, <1>7, <1>8
<1> QED
    BY <1>1, <1>9 DEF InSeq, S, T

LEMMA RequestsType ==
    ASSUME NEW R \in SUBSET Report, IsFiniteSet(R), NEW f \in Flows
    PROVE  /\ InRequests(f, R) = SumFunctionOnSet([r \in R |-> r.flows[f]], R)
           /\ \A r \in R : r.flows[f] \in Nat
           /\ InRequests(f, R) \in Nat
           /\ R = {} => InRequests(f, R) = 0
<1> DEFINE k == [r \in R |-> r.flows[f]]
<1>1. InRequests(f, R) = SumFunctionOnSet(k, R)
      BY SumFunctionIsOnSet DEF InRequests
<1>2. \A r \in R : r.flows[f] \in Nat
      BY StatsType DEF Report
<1>3. \A r \in R : k[r] \in Nat
      BY <1>2
<1> HIDE DEF k
<1>4. SumFunctionOnSet(k, R) \in Nat
      BY <1>3, SumOnSetNat
<1> QED
    BY <1>1, <1>2, <1>4, SumOnSetEmpty DEF k

LEMMA RequestsAdd ==
    ASSUME NEW R \in SUBSET Report, IsFiniteSet(R), NEW q \in Report, q \notin R,
           NEW f \in Flows
    PROVE  InRequests(f, R \cup {q}) = InRequests(f, R) + q.flows[f]
<1> DEFINE Q == R \cup {q}
           k == [r \in R |-> r.flows[f]]
           l == [r \in Q |-> r.flows[f]]
<1>1. IsFiniteSet(Q) /\ Q \in SUBSET Report
      BY FS_AddElement
<1>2. /\ InRequests(f, R) = SumFunctionOnSet(k, R)
      /\ InRequests(f, Q) = SumFunctionOnSet(l, Q)
      /\ \A r \in Q : r.flows[f] \in Nat
      /\ InRequests(f, R) \in Nat
      BY <1>1, RequestsType
<1>3. \A r \in Q : l[r] \in Int
      BY <1>2
<1>4. (\A r \in R : l[r] = k[r]) /\ l[q] = q.flows[f]
      OBVIOUS
<1> HIDE DEF k, l
<1>5. SumFunctionOnSet(l, Q) = l[q] + SumFunctionOnSet(l, R)
      BY <1>3, SumOnSetAdd
<1>6. SumFunctionOnSet(l, R) = SumFunctionOnSet(k, R)
      BY <1>4, SumOnSetSame
<1> QED
    BY <1>2, <1>4, <1>5, <1>6

LEMMA RequestsRemove ==
    ASSUME NEW R \in SUBSET Report, IsFiniteSet(R), NEW q \in R, NEW f \in Flows
    PROVE  InRequests(f, R) = InRequests(f, R \ {q}) + q.flows[f]
<1> DEFINE Q == R \ {q}
<1>1. Q \in SUBSET Report /\ IsFiniteSet(Q) /\ q \in Report /\ q \notin Q
      BY FS_Subset
<1>2. Q \cup {q} = R
      OBVIOUS
<1> HIDE DEF Q
<1>3. InRequests(f, Q \cup {q}) = InRequests(f, Q) + q.flows[f]
      BY <1>1, RequestsAdd
<1> QED
    BY <1>2, <1>3 DEF Q

LEMMA WindowType ==
    ASSUME NEW s \in Seq(Report), NEW f \in Flows
    PROVE  /\ IsFiniteSet(DOMAIN s)
           /\ \A i \in DOMAIN s : s[i].flows[f] \in Nat
           /\ InWindow(f, s) \in Nat
           /\ s = <<>> => InWindow(f, s) = 0
<1> DEFINE k == [i \in DOMAIN s |-> s[i].flows[f]]
<1>1. IsFiniteSet(DOMAIN s)
  <2>1. DOMAIN s = 1..Len(s) /\ Len(s) \in Nat
        OBVIOUS
  <2> QED
      BY <2>1, FS_Interval
<1>2. \A i \in DOMAIN s : s[i].flows[f] \in Nat
  <2>1. \A i \in DOMAIN s : s[i] \in Report
        OBVIOUS
  <2> QED
      BY <2>1, StatsType DEF Report
<1>3. \A i \in DOMAIN s : k[i] \in Nat
      BY <1>2
<1>4. InWindow(f, s) = SumFunctionOnSet(k, DOMAIN s)
      BY DEF InWindow
<1>5. s = <<>> => DOMAIN s = {}
      OBVIOUS
<1> HIDE DEF k
<1>6. SumFunctionOnSet(k, DOMAIN s) \in Nat
      BY <1>1, <1>3, SumOnSetNat
<1> QED
    BY <1>1, <1>2, <1>4, <1>5, <1>6, SumOnSetEmpty

LEMMA WindowAppend ==
    ASSUME NEW s \in Seq(Report), NEW q \in Report, NEW f \in Flows
    PROVE  InWindow(f, Append(s, q)) = InWindow(f, s) + q.flows[f]
<1> DEFINE t == Append(s, q)
           n == Len(s) + 1
           k == [i \in DOMAIN s |-> s[i].flows[f]]
           l == [i \in DOMAIN t |-> t[i].flows[f]]
<1>1. /\ t \in Seq(Report) /\ DOMAIN t = DOMAIN s \cup {n} /\ n \notin DOMAIN s
      /\ t[n] = q /\ \A i \in DOMAIN s : t[i] = s[i]
      OBVIOUS
<1> HIDE DEF t, n
<1>2. /\ IsFiniteSet(DOMAIN s) /\ InWindow(f, s) \in Nat
      /\ \A i \in DOMAIN t : t[i].flows[f] \in Nat
      BY <1>1, WindowType
<1>3. \A i \in DOMAIN t : l[i] \in Int
      BY <1>2
<1>4. l[n] = q.flows[f] /\ \A i \in DOMAIN s : l[i] = k[i]
      BY <1>1
<1>5. q.flows[f] \in Nat
      BY <1>1, <1>2
<1>6. /\ InWindow(f, s) = SumFunctionOnSet(k, DOMAIN s)
      /\ InWindow(f, t) = SumFunctionOnSet(l, DOMAIN t)
      BY DEF InWindow
<1> HIDE DEF k, l
<1>7. SumFunctionOnSet(l, DOMAIN s \cup {n}) = l[n] + SumFunctionOnSet(l, DOMAIN s)
      BY <1>1, <1>2, <1>3, SumOnSetAdd
<1>8. SumFunctionOnSet(l, DOMAIN s) = SumFunctionOnSet(k, DOMAIN s)
      BY <1>2, <1>4, SumOnSetSame
<1>9. InWindow(f, t) = q.flows[f] + InWindow(f, s)
      BY <1>1, <1>4, <1>6, <1>7, <1>8
<1> QED
    BY <1>2, <1>5, <1>9 DEF t

LEMMA WindowTail ==
    ASSUME NEW s \in Seq(Report), s # <<>>, NEW f \in Flows
    PROVE  /\ Tail(s) \in Seq(Report) /\ s[1].flows[f] \in Nat
           /\ InWindow(f, s) = s[1].flows[f] + InWindow(f, Tail(s))
<1> DEFINE t == Tail(s)
           k == [i \in DOMAIN s |-> s[i].flows[f]]
           l == [i \in DOMAIN t |-> t[i].flows[f]]
           next == [i \in DOMAIN t |-> i + 1]
<1>1. t \in Seq(Report) /\ 1 \in DOMAIN s
      OBVIOUS
<1>2. /\ \A i \in DOMAIN t : t[i] = s[i + 1] /\ i + 1 \in DOMAIN s
      /\ DOMAIN s \ {1} = {next[i] : i \in DOMAIN t}
  <2>1. /\ DOMAIN s = 1..Len(s) /\ DOMAIN t = 1..(Len(s) - 1)
        /\ Len(s) \in Nat /\ Len(s) # 0
        OBVIOUS
  <2>2. \A i \in DOMAIN t : t[i] = s[i + 1] /\ i + 1 \in DOMAIN s
        OBVIOUS
  <2> HIDE DEF t
  <2>3. \A j \in DOMAIN s \ {1} : j - 1 \in DOMAIN t /\ next[j - 1] = j
        BY <2>1
  <2>4. \A i \in DOMAIN t : next[i] \in DOMAIN s \ {1}
        BY <2>1
  <2>5. DOMAIN s \ {1} = {next[i] : i \in DOMAIN t}
    <3> HIDE DEF next
    <3> QED
        BY <2>3, <2>4, Zenon
  <2> QED
      BY <2>2, <2>5
<1>3. \A i, j \in DOMAIN t : next[i] = next[j] => i = j
  <2>1. DOMAIN t \subseteq Nat
        OBVIOUS
  <2> HIDE DEF t
  <2> QED
      BY <2>1
<1>4. /\ IsFiniteSet(DOMAIN s) /\ \A i \in DOMAIN s : s[i].flows[f] \in Nat
      /\ IsFiniteSet(DOMAIN t)
      BY <1>1, WindowType
<1>5. /\ InWindow(f, s) = SumFunctionOnSet(k, DOMAIN s)
      /\ InWindow(f, t) = SumFunctionOnSet(l, DOMAIN t)
      BY DEF InWindow
<1> HIDE DEF t
<1>6. /\ \A i \in DOMAIN s : k[i] \in Int
      /\ k[1] = s[1].flows[f]
      /\ \A i \in DOMAIN t : k[next[i]] \in Int /\ l[i] = k[next[i]]
      BY <1>1, <1>2, <1>4
<1> HIDE DEF k, l, next
<1>7. SumFunctionOnSet(k, DOMAIN s) = k[1] + SumFunctionOnSet(k, DOMAIN s \ {1})
      BY <1>1, <1>4, <1>6, SumOnSetPick
<1>8. SumFunctionOnSet(k, {next[i] : i \in DOMAIN t}) = SumFunctionOnSet(l, DOMAIN t)
  <2>1. \A i \in DOMAIN t : k[next[i]] \in Int /\ l[i] = k[next[i]]
        BY <1>6
  <2>2. IsFiniteSet(DOMAIN t)
        BY <1>4
  <2> QED
      BY <1>3, <2>1, <2>2, SumOnSetImage
<1> QED
    BY <1>1, <1>2, <1>4, <1>5, <1>6, <1>7, <1>8 DEF t

\* With the cutoff at 0 the sum is over the whole window.
LEMMA WindowAll ==
    ASSUME reports \in Seq(Report), NEW f \in Flows
    PROVE  InReports(f, 0) = InWindow(f, reports)
<1>1. \A i \in DOMAIN reports : reports[i].timestamp >= 0
  <2>1. \A i \in DOMAIN reports : reports[i] \in Report
        OBVIOUS
  <2>2. \A r \in Report : r.timestamp >= 0
        BY BoundAssumption DEF Report
  <2> QED
      BY <2>1, <2>2
<1>2. {i \in DOMAIN reports : reports[i].timestamp >= 0} = DOMAIN reports
      BY <1>1
<1> QED
    BY <1>2 DEF InReports, InWindow

-----------------------------------------------------------------------------
(* Types and bounds *)

LEMMA SizeType ==
    /\ RingSize \in Nat /\ ChannelSize \in Nat /\ Limit \in Nat
    /\ SequenceSpace \in Nat /\ SequenceSpace > 0 /\ MaxPackets \in Nat
BY SizeAssumption, BoundAssumption

LEMMA SeqOfIs ==
    ASSUME NEW S, NEW n \in Nat, NEW s
    PROVE  s \in SeqOf(S, n) <=> s \in Seq(S) /\ Len(s) <= n
<1>1. ASSUME s \in SeqOf(S, n) PROVE s \in Seq(S) /\ Len(s) <= n
  <2>1. PICK m \in 0..n : s \in [1..m -> S]
        BY <1>1 DEF SeqOf
  <2> QED
      BY <2>1
<1>2. ASSUME s \in Seq(S), Len(s) <= n PROVE s \in SeqOf(S, n)
  <2>1. Len(s) \in 0..n /\ s \in [1..Len(s) -> S]
        BY <1>2
  <2> QED
      BY <2>1 DEF SeqOf
<1> QED
    BY <1>1, <1>2

\* What a step does to a buffer.
LEMMA BufferAppend ==
    ASSUME NEW S, NEW s \in Seq(S), NEW x \in S
    PROVE  Append(s, x) \in Seq(S) /\ Len(Append(s, x)) = Len(s) + 1
OBVIOUS

LEMMA BufferTail ==
    ASSUME NEW S, NEW s \in Seq(S), s # <<>>
    PROVE  /\ Tail(s) \in Seq(S) /\ Head(s) \in S /\ Len(Tail(s)) = Len(s) - 1
           /\ Len(s) \in Nat /\ Len(s) >= 1
OBVIOUS

LEMMA TypesGiveTypeOK == Types => TypeOK
BY SeqOfIs, SizeType
   DEF Types, BuffersOK, LoopOK, SentOK, NetflowOK, HistoryOK, TypeOK

LEMMA TypesInit == Init => Types
<1> SUFFICES ASSUME Init PROVE Types
    OBVIOUS
<1>1. BuffersOK
      BY SizeType DEF Init, BuffersOK
<1>2. LoopOK
      BY NoFlowsType, SizeType DEF Init, LoopOK
<1>3. SentOK
      BY SizeType DEF Init, SentOK
<1>4. NetflowOK
  <2>1. regressed \in BOOLEAN
        BY Zenon DEF Init
  <2>2. {flowSeq, expected} \subseteq 0..SequenceSpace - 1 /\ missing \in Nat
        BY SizeType DEF Init
  <2> QED
      BY <2>1, <2>2 DEF NetflowOK
<1>5. HistoryOK
      BY NoFlowsType DEF Init, HistoryOK
<1> QED
    BY <1>1, <1>2, <1>3, <1>4, <1>5 DEF Types

\* Packets on their way leave room: one more can be counted, one more period numbered.
LEMMA RoomToCount ==
    ASSUME Types, BoundInv
    PROVE  /\ pc = "loop" /\ events # <<>> => SumFunction(flowStats) < MaxPackets
           /\ pc = "loop" /\ flowStats # NoFlows => periods + 1 <= MaxPackets
<1>1. /\ periods \in Nat /\ Len(ring) \in Nat /\ Len(events) \in Nat
      /\ events # <<>> => Len(events) >= 1
      BY SizeType DEF Types, BuffersOK, LoopOK
<1>2. /\ SumFunction(flowStats) \in Nat
      /\ SumFunction(sampled) \in Nat /\ SumFunction(sampled) <= MaxPackets
      BY StatsType DEF Types, LoopOK, HistoryOK
<1>3. flowStats # NoFlows => SumFunction(flowStats) >= 1
      BY SomeFlows DEF Types, LoopOK
<1> QED
    BY <1>1, <1>2, <1>3, SizeType DEF BoundInv, Running

LEMMA TypesKernel ==
    ASSUME Types, NEW f \in Flows, XdpSample(f)
    PROVE  Types'
<1> USE DEF Types, XdpSample, loop, netflow
<1>1. BuffersOK'
  <2>1. CASE Len(ring) < RingSize
        BY <2>1, BufferAppend, SizeType DEF BuffersOK
  <2>2. CASE ~(Len(ring) < RingSize)
        BY <2>2 DEF BuffersOK
  <2> QED
      BY <2>1, <2>2
<1>2. HistoryOK'
      BY CountType DEF HistoryOK
<1> QED
    BY <1>1, <1>2 DEF LoopOK, SentOK, NetflowOK

LEMMA TypesReader ==
    ASSUME Types, ReadRing
    PROVE  Types'
<1> USE DEF Types, ReadRing, loop, netflow
<1>1. BuffersOK'
  <2>1. /\ Tail(ring) \in Seq(Flows) /\ Head(ring) \in Flows
        /\ Len(Tail(ring)) = Len(ring) - 1 /\ Len(ring) \in Nat
        BY BufferTail DEF BuffersOK
  <2>2. ring' \in Seq(Flows) /\ Len(ring') <= RingSize
        BY <2>1, SizeType DEF BuffersOK
  <2>3. events' \in Seq(Flows) /\ Len(events') <= ChannelSize
    <3>1. CASE Len(events) < ChannelSize
          BY <2>1, <3>1, BufferAppend, SizeType DEF BuffersOK
    <3>2. CASE ~(Len(events) < ChannelSize)
          BY <3>2 DEF BuffersOK
    <3> QED
        BY <3>1, <3>2
  <2> QED
      BY <2>2, <2>3 DEF BuffersOK
<1>2. HistoryOK'
      BY DEF HistoryOK
<1> QED
    BY <1>1, <1>2 DEF LoopOK, SentOK, NetflowOK

LEMMA TypesAggregate ==
    ASSUME Types, BoundInv, Aggregate
    PROVE  Types'
<1> USE DEF Types, Aggregate, netflow
<1>1. /\ Tail(events) \in Seq(Flows) /\ Head(events) \in Flows
      /\ Len(Tail(events)) = Len(events) - 1 /\ Len(events) \in Nat
      BY BufferTail DEF BuffersOK
<1>2. BuffersOK'
      BY <1>1, SizeType DEF BuffersOK
<1>3. LoopOK'
  <2>1. Count(flowStats, Head(events)) \in FlowStats
        BY <1>1, RoomToCount, CountType DEF LoopOK
  <2>2. todo = {}
        BY DEF LoopOK
  <2> QED
      BY <2>1, <2>2 DEF LoopOK
<1> QED
    BY <1>2, <1>3 DEF SentOK, NetflowOK, HistoryOK

LEMMA TypesReport ==
    ASSUME Types, BoundInv, ReportSamples
    PROVE  Types'
<1> USE DEF Types, ReportSamples, netflow
<1>1. periods + 1 \in 1..MaxPackets
      BY RoomToCount, SizeType DEF LoopOK
<1>2. LoopOK'
      BY <1>1, SizeType DEF LoopOK
<1>3. [timestamp |-> periods + 1, flows |-> flowStats] \in Report
      BY <1>1 DEF LoopOK, Report
<1>4. SentOK'
      BY <1>3 DEF SentOK
<1> QED
    BY <1>2, <1>4 DEF BuffersOK, NetflowOK, HistoryOK

LEMMA TypesPostEnds ==
    ASSUME Types, PostEnds
    PROVE  Types'
<1> USE DEF Types, PostEnds, netflow
<1>1. LoopOK'
      BY DEF LoopOK
<1> QED
    BY <1>1 DEF BuffersOK, SentOK, NetflowOK, HistoryOK

\* The records of a packet, and the numbers they take.
LEMMA ChunkType ==
    ASSUME Types, NEW chunk \in SUBSET todo
    PROVE  Cardinality(chunk) \in Nat
<1>1. IsFiniteSet(chunk)
  <2>1. chunk \subseteq Flows
        BY DEF Types, LoopOK, Seen
  <2> QED
      BY <2>1, FlowsFinite, FS_Subset
<1> QED
    BY <1>1, FS_CardinalityType

LEMMA TypesExport ==
    ASSUME Types, NEW chunk \in SUBSET todo, NEW written \in BOOLEAN,
           NEW arrives \in BOOLEAN, Export(chunk, written, arrives)
    PROVE  Types'
<1> USE DEF Types, Export
<1>1. LoopOK'
      BY DEF LoopOK
<1>2. NetflowOK'
  <2>1. Cardinality(chunk) \in Nat
        BY ChunkType
  <2>2. flowSeq' \in 0..SequenceSpace - 1
    <3>1. flowSeq + Cardinality(chunk) \in Nat
          BY <2>1, SizeType DEF NetflowOK
    <3> QED
        BY <3>1, SizeType
  <2>3. expected' \in 0..SequenceSpace - 1 /\ missing' \in Nat
        BY <2>1, <2>2 DEF NetflowOK
  <2>4. regressed' \in BOOLEAN
        BY DEF NetflowOK
  <2> QED
      BY <2>2, <2>3, <2>4 DEF NetflowOK
<1> QED
    BY <1>1, <1>2 DEF BuffersOK, SentOK, HistoryOK

LEMMA TypesClear ==
    ASSUME Types, Clear
    PROVE  Types'
<1> USE DEF Types, Clear, netflow
<1>1. LoopOK'
      BY NoFlowsType DEF LoopOK
<1> QED
    BY <1>1 DEF BuffersOK, SentOK, NetflowOK, HistoryOK

\* The window after a report, which makes the oldest one leave when it is full.
LEMMA WindowKeepsType ==
    ASSUME NEW s \in Seq(Report), Len(s) <= Limit, NEW r \in Report
    PROVE  /\ Window(Append(s, r)) \in Seq(Report) /\ Len(Window(Append(s, r))) <= Limit
           /\ \/ /\ Window(Append(s, r)) = Append(s, r)
                 /\ Len(Window(Append(s, r))) = Len(s) + 1
              \/ /\ Window(Append(s, r)) = Tail(Append(s, r))
                 /\ Len(Window(Append(s, r))) # Len(s) + 1
<1> DEFINE t == Append(s, r)
<1>1. t \in Seq(Report) /\ Len(t) = Len(s) + 1 /\ t # <<>>
      OBVIOUS
<1> HIDE DEF t
<1>2. Tail(t) \in Seq(Report) /\ Len(Tail(t)) = Len(t) - 1 /\ Len(t) \in Nat
      BY <1>1, BufferTail
<1>3. CASE Len(t) > Limit
      BY <1>1, <1>2, <1>3, SizeType DEF Window, t
<1>4. CASE ~(Len(t) > Limit)
      BY <1>1, <1>2, <1>4, SizeType DEF Window, t
<1> QED
    BY <1>3, <1>4

LEMMA TypesReceive ==
    ASSUME Types, NEW r \in requests, ReceiveSamples(r)
    PROVE  Types'
<1> USE DEF Types, ReceiveSamples, loop, netflow
<1>1. SentOK'
      BY WindowKeepsType DEF SentOK
<1>2. HistoryOK'
      BY DEF HistoryOK
<1> QED
    BY <1>1, <1>2 DEF BuffersOK, LoopOK, NetflowOK

LEMMA TypesFails ==
    ASSUME Types,
           \/ \E r \in requests : RequestLost(r)
           \/ RestartSampler \/ RestartBan \/ UNCHANGED vars
    PROVE  Types'
<1> USE DEF Types, loop, netflow
<1>1. CASE \E r \in requests : RequestLost(r)
      BY <1>1 DEF RequestLost, BuffersOK, LoopOK, SentOK, NetflowOK, HistoryOK
<1>2. CASE RestartSampler
  <2>1. BuffersOK' /\ LoopOK'
        BY <1>2, NoFlowsType, SizeType DEF RestartSampler, BuffersOK, LoopOK
  <2>2. NetflowOK'
        BY <1>2, SizeType DEF RestartSampler, NetflowOK
  <2>3. SentOK' /\ HistoryOK'
        BY <1>2 DEF RestartSampler, SentOK, HistoryOK
  <2> QED
      BY <2>1, <2>2, <2>3
<1>3. CASE RestartBan
  <2>1. SentOK'
        BY <1>3, SizeType DEF RestartBan, SentOK
  <2>2. BuffersOK' /\ LoopOK' /\ NetflowOK' /\ HistoryOK'
        BY <1>3 DEF RestartBan, BuffersOK, LoopOK, NetflowOK, HistoryOK
  <2> QED
      BY <2>1, <2>2
<1>4. CASE UNCHANGED vars
      BY <1>4 DEF vars, BuffersOK, LoopOK, SentOK, NetflowOK, HistoryOK
<1> QED
    BY <1>1, <1>2, <1>3, <1>4

LEMMA TypesStep ==
    ASSUME Types, BoundInv, [Next]_vars
    PROVE  Types'
BY TypesKernel, TypesReader, TypesAggregate, TypesReport, TypesPostEnds, TypesExport,
   TypesClear, TypesReceive, TypesFails
   DEF Next, ExportStep

-----------------------------------------------------------------------------
(* Packets on their way, and the time stamps *)

LEMMA NumbersType ==
    ASSUME Types
    PROVE  /\ periods \in Nat /\ Len(ring) \in Nat /\ Len(events) \in Nat
           /\ SumFunction(flowStats) \in Nat /\ SumFunction(sampled) \in Nat
           /\ SumFunction(NoFlows) = 0
BY StatsType, NoFlowsType, SizeType DEF Types, BuffersOK, LoopOK, HistoryOK

LEMMA BoundChain ==
    ASSUME Types, BoundInv,
           (\E f \in Flows : XdpSample(f)) \/ ReadRing \/ Aggregate
    PROVE  BoundInv'
<1> USE NumbersType, SizeType DEF BoundInv, Running
<1>1. ASSUME NEW f \in Flows, XdpSample(f) PROVE BoundInv'
  <2>1. SumFunction(sampled') = SumFunction(sampled) + 1
        BY <1>1, CountType DEF XdpSample, Types, HistoryOK
  <2>2. Len(ring') = Len(ring) \/ Len(ring') = Len(ring) + 1
        BY <1>1, BufferAppend DEF XdpSample, Types, BuffersOK
  <2>3. UNCHANGED <<events, pc, flowStats, periods>>
        BY <1>1 DEF XdpSample, loop
  <2> QED
      BY <2>1, <2>2, <2>3
<1>2. CASE ReadRing
  <2>1. Len(ring') = Len(ring) - 1
        BY <1>2, BufferTail DEF ReadRing, Types, BuffersOK
  <2>2. Len(events') = Len(events) \/ Len(events') = Len(events) + 1
        BY <1>2, BufferTail, BufferAppend DEF ReadRing, Types, BuffersOK
  <2>3. UNCHANGED <<sampled, pc, flowStats, periods>>
        BY <1>2 DEF ReadRing, loop
  <2> QED
      BY <2>1, <2>2, <2>3
<1>3. CASE Aggregate
  <2>1. Len(events') = Len(events) - 1 /\ Head(events) \in Flows
        BY <1>3, BufferTail DEF Aggregate, Types, BuffersOK
  <2>2. SumFunction(flowStats) < MaxPackets /\ flowStats \in FlowStats
        BY <1>3, RoomToCount DEF Aggregate, Types, LoopOK
  <2>3. SumFunction(Count(flowStats, Head(events))) = SumFunction(flowStats) + 1
        BY <2>1, <2>2, CountType
  <2>4. /\ flowStats' = Count(flowStats, Head(events)) /\ pc = "loop"
        /\ UNCHANGED <<sampled, ring, pc, periods>>
        BY <1>3 DEF Aggregate
  <2>5. SumFunction(flowStats') = SumFunction(flowStats) + 1
        BY <2>3, <2>4
  <2> QED
      BY <2>1, <2>4, <2>5
<1> QED
    BY <1>1, <1>2, <1>3

LEMMA BoundPeriod ==
    ASSUME Types, BoundInv,
           ReportSamples \/ PostEnds \/ Clear
           \/ \E chunk \in SUBSET todo, written \in BOOLEAN, arrives \in BOOLEAN :
                 Export(chunk, written, arrives)
    PROVE  BoundInv'
<1> USE NumbersType, SizeType DEF BoundInv, Running
<1>1. CASE ReportSamples
  <2>1. SumFunction(flowStats) >= 1
        BY <1>1, SomeFlows DEF ReportSamples, Types, LoopOK
  <2> QED
      BY <1>1, <2>1 DEF ReportSamples
<1>2. CASE PostEnds
      BY <1>2 DEF PostEnds
<1>3. CASE Clear
      BY <1>3 DEF Clear
<1>4. ASSUME NEW chunk \in SUBSET todo, NEW written \in BOOLEAN, NEW arrives \in BOOLEAN,
             Export(chunk, written, arrives)
      PROVE  BoundInv'
      BY <1>4 DEF Export
<1> QED
    BY <1>1, <1>2, <1>3, <1>4

LEMMA BoundStep ==
    ASSUME Types, BoundInv, [Next]_vars
    PROVE  BoundInv'
<1> USE NumbersType, SizeType DEF BoundInv, Running, loop
<1>1. ASSUME NEW r \in requests, ReceiveSamples(r) \/ RequestLost(r) PROVE BoundInv'
      BY <1>1 DEF ReceiveSamples, RequestLost
<1>2. CASE RestartSampler
      BY <1>2 DEF RestartSampler
<1>3. CASE RestartBan
      BY <1>3 DEF RestartBan
<1>4. CASE UNCHANGED vars
      BY <1>4 DEF vars
<1> QED
    BY <1>1, <1>2, <1>3, <1>4, BoundChain, BoundPeriod DEF Next, ExportStep

LEMMA StampStep ==
    ASSUME Types, StampInv, [Next]_vars
    PROVE  StampInv'
<1> USE NumbersType DEF StampInv, loop
<1>1. ASSUME NEW f \in Flows, XdpSample(f) PROVE StampInv'
      BY <1>1 DEF XdpSample
<1>2. CASE ReadRing \/ Aggregate \/ PostEnds \/ Clear
      BY <1>2 DEF ReadRing, Aggregate, PostEnds, Clear
<1>3. CASE ReportSamples
  <2>1. IsFiniteSet(requests')
        BY <1>3, FS_AddElement DEF ReportSamples
  <2>2. \A r \in requests : r.timestamp \in Nat
        BY BoundAssumption DEF Types, SentOK, Report
  <2> QED
      BY <1>3, <2>1, <2>2 DEF ReportSamples
<1>4. ASSUME NEW chunk \in SUBSET todo, NEW written \in BOOLEAN, NEW arrives \in BOOLEAN,
             Export(chunk, written, arrives)
      PROVE  StampInv'
      BY <1>4 DEF Export
<1>5. ASSUME NEW r \in requests, ReceiveSamples(r) \/ RequestLost(r) PROVE StampInv'
  <2>1. IsFiniteSet(requests')
        BY <1>5, FS_RemoveElement DEF ReceiveSamples, RequestLost
  <2> QED
      BY <1>5, <2>1 DEF ReceiveSamples, RequestLost
<1>6. CASE RestartSampler
      BY <1>6 DEF RestartSampler
<1>7. CASE RestartBan
      BY <1>7, FS_EmptySet DEF RestartBan
<1>8. CASE UNCHANGED vars
      BY <1>8 DEF vars
<1> QED
    BY <1>1, <1>2, <1>3, <1>4, <1>5, <1>6, <1>7, <1>8 DEF Next, ExportStep

-----------------------------------------------------------------------------
(* No packet is counted twice *)

LEMMA PlacesType ==
    ASSUME Types, StampInv, NEW f \in Flows
    PROVE  /\ InSeq(f, ring) \in Nat /\ InSeq(f, events) \in Nat
           /\ flowStats[f] \in Nat /\ sampled[f] \in Nat /\ NoFlows[f] = 0
           /\ InRequests(f, requests) \in Nat /\ InWindow(f, reports) \in Nat
           /\ InPeriod(f) \in Nat /\ Counted(f) \in Nat
<1>1. InSeq(f, ring) \in Nat /\ InSeq(f, events) \in Nat
      BY InSeqType DEF Types, BuffersOK
<1>2. flowStats[f] \in Nat /\ sampled[f] \in Nat
      BY StatsType DEF Types, LoopOK, HistoryOK
<1>3. InRequests(f, requests) \in Nat
      BY RequestsType DEF Types, StampInv, SentOK
<1>4. InWindow(f, reports) \in Nat
      BY WindowType DEF Types, SentOK
<1>5. InPeriod(f) \in Nat
      BY <1>2 DEF InPeriod
<1> QED
    BY <1>1, <1>2, <1>3, <1>4, <1>5 DEF NoFlows, Counted

LEMMA CountKernel ==
    ASSUME Types, StampInv, NEW f \in Flows, CountOf(f), NEW g \in Flows, XdpSample(g)
    PROVE  CountOf(f)'
<1> DEFINE d == IF f = g THEN 1 ELSE 0
<1>1. d \in {0, 1}
      OBVIOUS
<1>2. sampled'[f] = sampled[f] + d
      BY CountType DEF XdpSample, Types, HistoryOK
<1>3. UNCHANGED <<events, pc, flowStats, requests, reports>>
      BY DEF XdpSample, loop
<1>4. ring \in Seq(Flows)
      BY DEF Types, BuffersOK
<1>5. InSeq(f, Append(ring, g)) = InSeq(f, ring) + d
      BY <1>4, InSeqAppend
<1>6. \/ ring' = Append(ring, g) /\ lossy' = lossy
      \/ ring' = ring /\ lossy'
      BY DEF XdpSample
<1> HIDE DEF d
<1>7. /\ InSeq(f, ring) \in Nat /\ InSeq(f, events) \in Nat /\ InPeriod(f) \in Nat
      /\ InRequests(f, requests) \in Nat /\ InWindow(f, reports) \in Nat
      /\ Counted(f) \in Nat /\ sampled[f] \in Nat
      BY PlacesType
<1>8. /\ InPeriod(f)' = InPeriod(f) /\ InSeq(f, events)' = InSeq(f, events)
      /\ InRequests(f, requests)' = InRequests(f, requests)
      /\ InWindow(f, reports)' = InWindow(f, reports)
      BY <1>3 DEF InPeriod
<1>9. CASE ring' = Append(ring, g) /\ lossy' = lossy
  <2>1. Counted(f)' = Counted(f) + d
    <3>1. InSeq(f, ring)' = InSeq(f, ring) + d
          BY <1>5, <1>9
    <3> QED
        BY <1>8, <1>1, <1>7, <3>1 DEF Counted
  <2> QED
      BY <1>1, <1>2, <1>7, <1>9, <2>1 DEF CountOf
<1>10. CASE ring' = ring /\ lossy'
  <2>1. Counted(f)' = Counted(f)
        BY <1>3, <1>10 DEF Counted, InPeriod
  <2> QED
      BY <1>1, <1>2, <1>7, <1>10, <2>1 DEF CountOf
<1> QED
    BY <1>6, <1>9, <1>10

LEMMA CountReader ==
    ASSUME Types, StampInv, NEW f \in Flows, CountOf(f), ReadRing
    PROVE  CountOf(f)'
<1> DEFINE g == Head(ring)
           d == IF f = g THEN 1 ELSE 0
<1>1. d \in {0, 1}
      OBVIOUS
<1>2. ring \in Seq(Flows) /\ ring # <<>> /\ ring' = Tail(ring) /\ events \in Seq(Flows)
      BY DEF ReadRing, Types, BuffersOK
<1>3. g \in Flows /\ InSeq(f, ring) = InSeq(f, ring') + d /\ InSeq(f, ring') \in Nat
      BY <1>2, InSeqTail, InSeqType
<1>4. InSeq(f, Append(events, g)) = InSeq(f, events) + d
      BY <1>2, <1>3, InSeqAppend
<1>5. \/ events' = Append(events, g) /\ lossy' = lossy
      \/ events' = events /\ lossy'
      BY DEF ReadRing
<1>6. UNCHANGED <<sampled, pc, flowStats, requests, reports>>
      BY DEF ReadRing, loop
<1> HIDE DEF g, d
<1>7. /\ InSeq(f, ring) \in Nat /\ InSeq(f, events) \in Nat /\ InPeriod(f) \in Nat
      /\ InRequests(f, requests) \in Nat /\ InWindow(f, reports) \in Nat
      /\ Counted(f) \in Nat /\ sampled[f] \in Nat
      BY PlacesType
<1>8. /\ InPeriod(f)' = InPeriod(f) /\ sampled' = sampled
      /\ InRequests(f, requests)' = InRequests(f, requests)
      /\ InWindow(f, reports)' = InWindow(f, reports)
      BY <1>6 DEF InPeriod
<1>9. CASE events' = Append(events, g) /\ lossy' = lossy
  <2>1. Counted(f)' = Counted(f)
    <3>1. InSeq(f, ring)' = InSeq(f, ring')
          OBVIOUS
    <3>2. InSeq(f, events)' = InSeq(f, events) + d
          BY <1>4, <1>9
    <3> QED
        BY <1>8, <1>1, <1>3, <1>7, <3>1, <3>2 DEF Counted
  <2> QED
      BY <1>6, <1>9, <2>1 DEF CountOf
<1>10. CASE events' = events /\ lossy'
  <2>1. Counted(f) = Counted(f)' + d
    <3>1. InSeq(f, ring)' = InSeq(f, ring')
          OBVIOUS
    <3>2. InSeq(f, events)' = InSeq(f, events)
          BY <1>10
    <3> QED
        BY <1>8, <1>1, <1>3, <1>7, <3>1, <3>2 DEF Counted
  <2>2. Counted(f)' \in Nat
    <3>1. InSeq(f, ring)' = InSeq(f, ring') /\ InSeq(f, events)' = InSeq(f, events)
          BY <1>10
    <3> QED
        BY <1>8, <1>3, <1>7, <3>1 DEF Counted
  <2> QED
      BY <1>1, <1>6, <1>7, <1>10, <2>1, <2>2 DEF CountOf
<1> QED
    BY <1>5, <1>9, <1>10

LEMMA CountAggregate ==
    ASSUME Types, BoundInv, StampInv, NEW f \in Flows, CountOf(f), Aggregate
    PROVE  CountOf(f)'
<1> USE DEF CountOf, Counted, InPeriod
<1>1. /\ Head(events) \in Flows
      /\ InSeq(f, events) = InSeq(f, events') + (IF f = Head(events) THEN 1 ELSE 0)
      /\ InSeq(f, events') \in Nat
      BY InSeqTail, InSeqType DEF Aggregate, Types, BuffersOK
<1>2. flowStats'[f] = flowStats[f] + (IF f = Head(events) THEN 1 ELSE 0)
  <2>1. SumFunction(flowStats) < MaxPackets /\ flowStats \in FlowStats
        BY RoomToCount DEF Aggregate, Types, LoopOK
  <2>2. Count(flowStats, Head(events))[f]
            = flowStats[f] + (IF f = Head(events) THEN 1 ELSE 0)
        BY <1>1, <2>1, CountType
  <2> QED
      BY <2>2 DEF Aggregate
<1>3. pc = "loop" /\ UNCHANGED <<ring, pc, sampled, requests, reports, lossy>>
      BY DEF Aggregate
<1> QED
    BY <1>1, <1>2, <1>3, PlacesType

\* The sums of the period move to the request: its time stamp is one that no request
\* has.
LEMMA CountReport ==
    ASSUME Types, BoundInv, StampInv, NEW f \in Flows, CountOf(f), ReportSamples
    PROVE  CountOf(f)'
<1> DEFINE q == [timestamp |-> periods + 1, flows |-> flowStats]
<1>1. q \in Report
  <2>1. periods + 1 \in 1..MaxPackets
        BY RoomToCount, SizeType DEF ReportSamples, Types, LoopOK
  <2> QED
      BY <2>1 DEF Types, LoopOK, Report
<1>2. q \notin requests
  <2>1. q.timestamp = periods + 1 /\ periods \in Nat
        BY NumbersType
  <2>2. \A r \in requests : r.timestamp # periods + 1
    <3>1. \A r \in requests : r.timestamp <= periods /\ r.timestamp \in Nat
          BY BoundAssumption DEF StampInv, Types, SentOK, Report
    <3> QED
        BY <2>1, <3>1
  <2> HIDE DEF q
  <2> QED
      BY <2>1, <2>2
<1>3. q.flows[f] = flowStats[f]
      OBVIOUS
<1>4. requests' = requests \cup {q}
      BY DEF ReportSamples
<1> HIDE DEF q
<1>5. InRequests(f, requests') = InRequests(f, requests) + flowStats[f]
      BY <1>1, <1>2, <1>3, <1>4, RequestsAdd DEF Types, SentOK, StampInv
<1>6. /\ pc = "loop" /\ pc' = "post"
      /\ UNCHANGED <<ring, events, sampled, reports, lossy>>
      BY DEF ReportSamples
<1> QED
    BY <1>5, <1>6, PlacesType DEF CountOf, Counted, InPeriod

LEMMA CountPeriodEnds ==
    ASSUME Types, StampInv, NEW f \in Flows, CountOf(f),
           PostEnds \/ Clear
           \/ \E chunk \in SUBSET todo, written \in BOOLEAN, arrives \in BOOLEAN :
                 Export(chunk, written, arrives)
    PROVE  CountOf(f)'
<1> USE PlacesType DEF CountOf, Counted, InPeriod
<1>1. CASE PostEnds
      BY <1>1 DEF PostEnds
<1>2. CASE Clear
      BY <1>2 DEF Clear
<1>3. ASSUME NEW chunk \in SUBSET todo, NEW written \in BOOLEAN, NEW arrives \in BOOLEAN,
             Export(chunk, written, arrives)
      PROVE  CountOf(f)'
  <2>1. pc = "export" /\ pc' \in {"clear", "export"}
        BY <1>3 DEF Export
  <2>2. UNCHANGED <<ring, events, flowStats, sampled, requests, reports, lossy>>
        BY <1>3 DEF Export
  <2> QED
      BY <2>1, <2>2
<1> QED
    BY <1>1, <1>2, <1>3

\* A report moves from its request to the window; what the oldest report held is gone.
LEMMA CountReceive ==
    ASSUME Types, StampInv, NEW f \in Flows, CountOf(f), NEW r \in requests,
           ReceiveSamples(r)
    PROVE  CountOf(f)'
<1> DEFINE t == Append(reports, r)
<1>1. /\ reports \in Seq(Report) /\ Len(reports) <= Limit
      /\ requests \in SUBSET Report /\ IsFiniteSet(requests) /\ r \in Report
      BY DEF Types, SentOK, StampInv
<1>2. /\ requests' = requests \ {r} /\ reports' = Window(Append(reports, r))
      /\ lossy' = (lossy \/ Len(reports') # Len(reports) + 1)
      /\ UNCHANGED <<ring, events, pc, flowStats, sampled>>
      BY DEF ReceiveSamples, loop
<1>3. InRequests(f, requests) = InRequests(f, requests') + r.flows[f]
      BY <1>1, <1>2, RequestsRemove
<1>4. r.flows[f] \in Nat /\ InRequests(f, requests') \in Nat
  <2>1. r.flows[f] \in Nat
        BY <1>1, RequestsType
  <2>2. requests' \in SUBSET Report /\ IsFiniteSet(requests')
        BY <1>1, <1>2, FS_RemoveElement
  <2> QED
      BY <2>1, <2>2, RequestsType
<1>5. t \in Seq(Report) /\ t # <<>> /\ InWindow(f, t) = InWindow(f, reports) + r.flows[f]
      BY <1>1, WindowAppend
<1>6. \/ reports' = t /\ Len(reports') = Len(reports) + 1
      \/ reports' = Tail(t) /\ Len(reports') # Len(reports) + 1
      BY <1>1, <1>2, WindowKeepsType
<1>7. /\ InSeq(f, ring) \in Nat /\ InSeq(f, events) \in Nat /\ InPeriod(f) \in Nat
      /\ InRequests(f, requests) \in Nat /\ InWindow(f, reports) \in Nat
      /\ Counted(f) \in Nat /\ sampled[f] \in Nat
      BY PlacesType
<1>8. /\ InSeq(f, ring)' = InSeq(f, ring) /\ InSeq(f, events)' = InSeq(f, events)
      /\ InPeriod(f)' = InPeriod(f) /\ sampled'[f] = sampled[f]
      /\ InRequests(f, requests)' = InRequests(f, requests')
      /\ InWindow(f, reports)' = InWindow(f, reports')
      BY <1>2 DEF InPeriod
<1> HIDE DEF t
<1>9. CASE reports' = t /\ Len(reports') = Len(reports) + 1
  <2>1. InWindow(f, reports') = InWindow(f, reports) + r.flows[f]
        BY <1>5, <1>9
  <2>2. lossy' = lossy
        BY <1>2, <1>9 DEF Types, HistoryOK
  <2>3. Counted(f)' = Counted(f)
        BY <1>3, <1>4, <1>7, <1>8, <2>1 DEF Counted
  <2> QED
      BY <1>8, <2>2, <2>3 DEF CountOf
<1>10. CASE reports' = Tail(t) /\ Len(reports') # Len(reports) + 1
  <2>1. /\ InWindow(f, t) = t[1].flows[f] + InWindow(f, reports')
        /\ t[1].flows[f] \in Nat /\ reports' \in Seq(Report)
        BY <1>5, <1>10, WindowTail
  <2>2. InWindow(f, reports') \in Nat
        BY <2>1, WindowType
  <2>3. lossy'
        BY <1>2, <1>10
  <2> DEFINE m == t[1].flows[f]
             n == r.flows[f]
  <2>4. /\ InWindow(f, reports') + m = InWindow(f, reports) + n
        /\ m \in Nat /\ n \in Nat
        BY <1>4, <1>5, <1>7, <2>1, <2>2
  <2> HIDE DEF m
  <2>5. Counted(f)' + m = Counted(f) /\ Counted(f)' \in Nat
        BY <1>3, <1>4, <1>7, <1>8, <2>2, <2>4 DEF Counted
  <2> QED
      BY <1>7, <1>8, <2>3, <2>4, <2>5 DEF CountOf
<1> QED
    BY <1>6, <1>9, <1>10

LEMMA CountFails ==
    ASSUME Types, StampInv, NEW f \in Flows, CountOf(f),
           \/ \E r \in requests : RequestLost(r)
           \/ RestartSampler \/ RestartBan
    PROVE  CountOf(f)'
<1>1. /\ InSeq(f, ring) \in Nat /\ InSeq(f, events) \in Nat /\ InPeriod(f) \in Nat
      /\ InRequests(f, requests) \in Nat /\ InWindow(f, reports) \in Nat
      /\ Counted(f) \in Nat /\ sampled[f] \in Nat
      BY PlacesType
<1>2. ASSUME NEW r \in requests, RequestLost(r)
      PROVE  lossy' /\ Counted(f)' \in 0..Counted(f) /\ UNCHANGED sampled
  <2>1. requests' = requests \ {r}
        BY <1>2 DEF RequestLost
  <2>2. /\ InRequests(f, requests) = InRequests(f, requests') + r.flows[f]
        /\ r.flows[f] \in Nat
        BY <2>1, RequestsRemove, RequestsType DEF Types, SentOK, StampInv
  <2>3. InRequests(f, requests') \in Nat
    <3>1. requests' \in SUBSET Report /\ IsFiniteSet(requests')
          BY <2>1, FS_RemoveElement DEF Types, SentOK, StampInv
    <3> QED
        BY <3>1, RequestsType
  <2>4. lossy' /\ UNCHANGED <<ring, events, pc, flowStats, reports, sampled>>
        BY <1>2 DEF RequestLost, loop
  <2>5. /\ InSeq(f, ring)' = InSeq(f, ring) /\ InSeq(f, events)' = InSeq(f, events)
        /\ InPeriod(f)' = InPeriod(f) /\ InWindow(f, reports)' = InWindow(f, reports)
        /\ InRequests(f, requests)' = InRequests(f, requests')
        BY <2>4 DEF InPeriod
  <2>6. Counted(f)' \in 0..Counted(f)
        BY <1>1, <2>2, <2>3, <2>5 DEF Counted
  <2> QED
      BY <2>4, <2>6
<1>3. ASSUME RestartSampler
      PROVE  lossy' /\ Counted(f)' \in 0..Counted(f) /\ UNCHANGED sampled
  <2>1. InSeq(f, ring)' = 0 /\ InSeq(f, events)' = 0
    <3>1. ring' = <<>> /\ events' = <<>> /\ <<>> \in Seq(Flows)
          BY <1>3 DEF RestartSampler
    <3>2. InSeq(f, <<>>) = 0
          BY <3>1, InSeqType
    <3> QED
        BY <3>1, <3>2
  <2>2. InPeriod(f)' = 0 /\ lossy' /\ UNCHANGED <<requests, reports, sampled>>
        BY <1>3, PlacesType DEF RestartSampler, InPeriod
  <2>3. /\ InRequests(f, requests)' = InRequests(f, requests)
        /\ InWindow(f, reports)' = InWindow(f, reports)
        BY <2>2
  <2>4. Counted(f)' \in 0..Counted(f)
        BY <1>1, <2>1, <2>2, <2>3 DEF Counted
  <2> QED
      BY <2>2, <2>4
<1>4. ASSUME RestartBan
      PROVE  lossy' /\ Counted(f)' \in 0..Counted(f) /\ UNCHANGED sampled
  <2>1. InRequests(f, requests)' = 0 /\ InWindow(f, reports)' = 0
    <3>1. requests' = {} /\ reports' = <<>>
          BY <1>4 DEF RestartBan
    <3>2. {} \in SUBSET Report /\ <<>> \in Seq(Report) /\ IsFiniteSet({})
          BY FS_EmptySet
    <3> QED
        BY <3>1, <3>2, RequestsType, WindowType
  <2>2. lossy' /\ UNCHANGED <<ring, events, pc, flowStats, sampled>>
        BY <1>4 DEF RestartBan, loop
  <2>3. /\ InSeq(f, ring)' = InSeq(f, ring) /\ InSeq(f, events)' = InSeq(f, events)
        /\ InPeriod(f)' = InPeriod(f)
        BY <2>2 DEF InPeriod
  <2>4. Counted(f)' \in 0..Counted(f)
        BY <1>1, <2>1, <2>3 DEF Counted
  <2> QED
      BY <2>2, <2>4
<1>5. lossy' /\ Counted(f)' \in 0..Counted(f) /\ UNCHANGED sampled
      BY <1>2, <1>3, <1>4
<1> QED
    BY <1>1, <1>5 DEF CountOf

LEMMA CountStep ==
    ASSUME Types, BoundInv, StampInv, CountInv, [Next]_vars
    PROVE  CountInv'
<1> SUFFICES ASSUME NEW f \in Flows PROVE CountOf(f)'
    BY DEF CountInv
<1>1. CountOf(f)
      BY DEF CountInv
<1>2. CASE UNCHANGED vars
      BY <1>1, <1>2 DEF vars, CountOf, Counted, InPeriod
<1>3. CASE Next
      BY <1>1, <1>3, CountKernel, CountReader, CountAggregate, CountReport,
         CountPeriodEnds, CountReceive, CountFails
         DEF Next, ExportStep
<1> QED
    BY <1>2, <1>3

-----------------------------------------------------------------------------
(* The gaps in flow_sequence *)

\* The rest of a division is below n, and is the number itself if that is.
LEMMA RestIs ==
    ASSUME NEW n \in Nat, n > 0, NEW a \in Nat
    PROVE  /\ a % n \in 0..n - 1
           /\ a < n => a % n = a
OBVIOUS

\* Quotient and rest are unique.
LEMMA RestIsUnique ==
    ASSUME NEW n \in Nat, n > 0, NEW p \in Int, NEW q \in Int,
           NEW r \in 0..n - 1, NEW s \in 0..n - 1, n * p + r = n * q + s
    PROVE  r = s
<1> DEFINE d == p - q
<1>1. d \in Int /\ n * d = n * p - n * q
      OBVIOUS
<1>2. n * p \in Int /\ n * q \in Int
      OBVIOUS
<1>3. n * d = s - r
      BY <1>1, <1>2
<1> HIDE DEF d
<1>4. CASE d >= 1
  <2>1. n * d >= n
        BY <1>1, <1>4
  <2> QED
      BY <1>3, <2>1
<1>5. CASE d <= -1
  <2>1. n * d <= -n
        BY <1>1, <1>5
  <2> QED
      BY <1>3, <2>1
<1>6. CASE d = 0
  <2>1. n * d = 0
        BY <1>6
  <2> QED
      BY <1>3, <2>1
<1> QED
    BY <1>1, <1>4, <1>5, <1>6

\* Adding before or after the rest is taken comes to the same.
LEMMA RestOfSum ==
    ASSUME NEW n \in Nat, n > 0, NEW a \in Nat, NEW c \in Nat
    PROVE  (a + c) % n = ((a % n) + c) % n
<1> DEFINE x == (a % n) + c
           u == a \div n
           v == x \div n
           w == (a + c) \div n
           r == (a + c) % n
           s == x % n
<1>1. a = n * u + (a % n) /\ u \in Int /\ a % n \in 0..n - 1
      OBVIOUS
<1>2. x \in Nat
      BY <1>1
<1>3. x = n * v + s /\ v \in Int /\ s \in 0..n - 1
  <2> HIDE DEF x
  <2> QED
      BY <1>2
<1>4. a + c = n * w + r /\ w \in Int /\ r \in 0..n - 1
  <2> DEFINE y == a + c
  <2>1. y \in Nat
        OBVIOUS
  <2> HIDE DEF y
  <2>2. y = n * (y \div n) + (y % n) /\ y \div n \in Int /\ y % n \in 0..n - 1
        BY <2>1
  <2> QED
      BY <2>2 DEF y
<1>5. n * w + r = n * u + x
      BY <1>1, <1>2, <1>4
<1> HIDE DEF x, u, v, w, r, s
<1>6. n * w + r = n * (u + v) + s
  <2>1. n * (u + v) = n * u + n * v /\ n * u \in Int /\ n * v \in Int
        BY <1>1, <1>3
  <2> QED
      BY <1>3, <1>5, <2>1
<1>7. r = s
  <2>1. u + v \in Int
        BY <1>1, <1>3
  <2> QED
      BY <1>3, <1>4, <1>6, <2>1, RestIsUnique
<1> QED
    BY <1>7 DEF r, s, x

LEMMA GapsStep ==
    ASSUME Types, GapsCountLosses, [Next]_vars
    PROVE  GapsCountLosses'
<1> USE DEF GapsCountLosses
<1>1. ASSUME NEW chunk \in SUBSET todo, NEW written \in BOOLEAN, NEW arrives \in BOOLEAN,
             Export(chunk, written, arrives)
      PROVE  GapsCountLosses'
  <2> DEFINE c == Cardinality(chunk)
             n == SequenceSpace
  <2>1. /\ c \in Nat /\ n \in Nat /\ n > 0
        /\ flowSeq \in Nat /\ expected \in Nat /\ missing \in Nat
        BY ChunkType, SizeType DEF Types, NetflowOK
  <2>2. flowSeq' = (flowSeq + c) % n
        BY <1>1 DEF Export
  <2> HIDE DEF c, n
  <2>3. CASE arrives
    <3>1. expected' = flowSeq' /\ missing' = 0
          BY <1>1, <2>3 DEF Export
    <3>2. flowSeq' \in 0..n - 1
          BY <2>1, <2>2, RestIs
    <3>3. flowSeq' \in Nat /\ flowSeq' < n
          BY <2>1, <3>2
    <3>4. flowSeq' % n = flowSeq'
          BY <2>1, <3>3, RestIs
    <3>5. expected' + missing' = flowSeq'
      <4> HIDE DEF GapsCountLosses
      <4>1. \A e, m, q : e = q /\ m = 0 /\ q \in Nat => e + m = q
            OBVIOUS
      <4> QED
          BY <3>1, <3>3, <4>1
    <3> QED
        BY <3>4, <3>5 DEF n
  <2>4. CASE ~arrives /\ regressed
        BY <1>1, <2>4 DEF Export
  <2>5. CASE ~arrives /\ ~regressed
    <3>1. expected' = expected /\ missing' = missing + c
          BY <1>1, <2>5 DEF Export, c
    <3>2. expected' + missing' = (expected + missing) + c /\ expected + missing \in Nat
          BY <2>1, <3>1
    <3>3. ((expected + missing) + c) % n = (((expected + missing) % n) + c) % n
          BY <2>1, <3>2, RestOfSum
    <3>4. (expected + missing) % n = flowSeq
          BY <2>5 DEF n
    <3>5. (expected' + missing') % n = flowSeq'
          BY <2>2, <3>2, <3>3, <3>4
    <3> QED
        BY <3>5 DEF n
  <2> QED
      BY <2>3, <2>4, <2>5
<1>2. CASE RestartSampler
      BY <1>2 DEF RestartSampler
<1>3. ASSUME NEW f \in Flows, XdpSample(f) PROVE GapsCountLosses'
      BY <1>3 DEF XdpSample, netflow
<1>4. ASSUME NEW r \in requests, ReceiveSamples(r) \/ RequestLost(r)
      PROVE  GapsCountLosses'
      BY <1>4 DEF ReceiveSamples, RequestLost, netflow
<1>5. CASE \/ ReadRing \/ Aggregate \/ ReportSamples \/ PostEnds \/ Clear \/ RestartBan
           \/ UNCHANGED vars
      BY <1>5 DEF ReadRing, Aggregate, ReportSamples, PostEnds, Clear, RestartBan,
                  netflow, vars
<1> QED
    BY <1>1, <1>2, <1>3, <1>4, <1>5 DEF Next, ExportStep

-----------------------------------------------------------------------------
(* The theorems *)

LEMMA InitIInv == Init => IInv
<1> SUFFICES ASSUME Init PROVE IInv
    OBVIOUS
<1>1. Types
      BY TypesInit
<1>2. BoundInv
      BY NoFlowsType, SizeType DEF Init, BoundInv, Running
<1>3. StampInv
      BY FS_EmptySet DEF Init, StampInv
<1>4. CountInv
  <2> SUFFICES ASSUME NEW f \in Flows PROVE CountOf(f)
      BY DEF CountInv
  <2>1. InSeq(f, ring) = 0 /\ InSeq(f, events) = 0
        BY <1>1, InSeqType DEF Types, BuffersOK, Init
  <2>2. InRequests(f, requests) = 0
        BY <1>1, <1>3, RequestsType DEF Types, SentOK, StampInv, Init
  <2>3. InWindow(f, reports) = 0
        BY <1>1, WindowType DEF Types, SentOK, Init
  <2> QED
      BY <2>1, <2>2, <2>3 DEF Init, CountOf, Counted, InPeriod, NoFlows
<1>5. GapsCountLosses
      BY SizeType, RestIs DEF Init, GapsCountLosses
<1> QED
    BY <1>1, <1>2, <1>3, <1>4, <1>5 DEF IInv

\* Every state of the sampler satisfies the inductive invariant.
THEOREM Invariance == Spec => []IInv
<1>1. IInv /\ [Next]_vars => IInv'
      BY TypesStep, BoundStep, StampStep, CountStep, GapsStep DEF IInv
<1> QED
    BY InitIInv, <1>1, PTL DEF Spec

\* Every variable has its type: no buffer, window or counter exceeds its size, and the
\* flows still to export are among those counted (bpf/xdp_sampler.c, main.go, samples.go).
THEOREM TypeCorrect == Spec => []TypeOK
<1>1. IInv => TypeOK
      BY TypesGiveTypeOK DEF IInv
<1> QED
    BY <1>1, Invariance, PTL

\* No sampled packet is counted twice between the kernel and the window, though requests
\* the client has given up may arrive late; as long as nothing was dropped, lost or
\* displaced, none is missing (main.go, samples.go).
THEOREM CountedHolds == Spec => []CountedOnce
<1>1. IInv => CountedOnce
  <2> SUFFICES ASSUME IInv, NEW f \in Flows
               PROVE  LET counted == InSeq(f, ring) + InSeq(f, events)
                                     + (IF pc = "loop" THEN flowStats[f] ELSE 0)
                                     + SumFunction([r \in requests |-> r.flows[f]])
                                     + InReports(f, 0)
                      IN /\ counted <= sampled[f]
                         /\ ~lossy => counted = sampled[f]
      BY DEF CountedOnce
  <2>1. InReports(f, 0) = InWindow(f, reports)
        BY WindowAll DEF IInv, Types, SentOK
  <2>2. CountOf(f)
        BY DEF IInv, CountInv
  <2> QED
      BY <2>1, <2>2 DEF CountOf, Counted, InPeriod, InRequests
<1> QED
    BY <1>1, Invariance, PTL

\* The gap a NetFlow collector sees is the number of records encoded and not arrived,
\* whatever was lost and however often the sequence wrapped, but from a restart of the
\* sampler to the first packet that arrives of the new process (netflow.go).
THEOREM GapsHold == Spec => []GapsCountLosses
<1>1. IInv => GapsCountLosses
      BY DEF IInv
<1> QED
    BY <1>1, Invariance, PTL

-----------------------------------------------------------------------------
(* The rows of the dashboard *)

\* The reports of I since cutoff, and the packets of a pair in some reports.
Since(cutoff, I) == {i \in I : reports[i].timestamp >= cutoff}
FlowIn(f) == [i \in DOMAIN reports |-> reports[i].flows[f]]
PairIn(p, I) == SumFunctionOnSet([q \in Ports |-> SumFunctionOnSet(FlowIn(<<p, q>>), I)], Ports)

LEMMA FlowInType ==
    ASSUME Types, NEW f \in Flows, NEW I \in SUBSET DOMAIN reports
    PROVE  /\ IsFiniteSet(I) /\ \A i \in I : FlowIn(f)[i] \in Nat /\ FlowIn(f)[i] \in Int
           /\ SumFunctionOnSet(FlowIn(f), I) \in Nat
<1>1. IsFiniteSet(I)
  <2>1. IsFiniteSet(DOMAIN reports)
        BY WindowType DEF Types, SentOK
  <2> QED
      BY <2>1, FS_Subset
<1>2. \A i \in I : FlowIn(f)[i] = reports[i].flows[f]
      BY DEF FlowIn
<1>3. \A i \in I : reports[i].flows[f] \in Nat
      BY WindowType DEF Types, SentOK
<1>4. \A i \in I : FlowIn(f)[i] \in Nat
      BY <1>2, <1>3
<1>5. SumFunctionOnSet(FlowIn(f), I) \in Nat
      BY <1>1, <1>4, SumOnSetNat
<1> QED
    BY <1>1, <1>4, <1>5

LEMMA PairInType ==
    ASSUME Types, NEW p \in Pairs, NEW I \in SUBSET DOMAIN reports
    PROVE  PairIn(p, I) \in Nat /\ PairIn(p, {}) = 0
<1> DEFINE k == [q \in Ports |-> SumFunctionOnSet(FlowIn(<<p, q>>), I)]
           z == [q \in Ports |-> SumFunctionOnSet(FlowIn(<<p, q>>), {})]
<1>1. \A q \in Ports : k[q] \in Nat
      BY FlowInType DEF Flows
<1>2. \A q \in Ports : z[q] = 0
      BY SumOnSetEmpty
<1>3. PairIn(p, I) = SumFunctionOnSet(k, Ports) /\ PairIn(p, {}) = SumFunctionOnSet(z, Ports)
      BY DEF PairIn
<1>4. IsFiniteSet(Ports)
      BY FlowsAssumption
<1> HIDE DEF k, z
<1>5. SumFunctionOnSet(k, Ports) \in Nat
      BY <1>1, <1>4, SumOnSetNat
<1>6. SumFunctionOnSet(z, Ports) = 0
      BY <1>2, <1>4, SumOnSetZero
<1> QED
    BY <1>3, <1>5, <1>6

\* One report more.
LEMMA PairInAdd ==
    ASSUME Types, NEW p \in Pairs, NEW I \in SUBSET DOMAIN reports, NEW m \in I
    PROVE  PairIn(p, I) = PairIn(p, I \ {m}) + OfPair(reports[m].flows, p)
<1> DEFINE k == [q \in Ports |-> SumFunctionOnSet(FlowIn(<<p, q>>), I)]
           l == [q \in Ports |-> SumFunctionOnSet(FlowIn(<<p, q>>), I \ {m})]
           o == [q \in Ports |-> reports[m].flows[<<p, q>>]]
<1>1. ASSUME NEW q \in Ports
      PROVE  l[q] \in Int /\ o[q] \in Int /\ k[q] = l[q] + o[q]
  <2>1. <<p, q>> \in Flows
        BY DEF Flows
  <2>2. /\ IsFiniteSet(I) /\ \A i \in I : FlowIn(<<p, q>>)[i] \in Int
        BY <2>1, FlowInType
  <2>3. k[q] = FlowIn(<<p, q>>)[m] + l[q]
        BY <2>2, SumOnSetPick
  <2>4. FlowIn(<<p, q>>)[m] = o[q]
        BY DEF FlowIn
  <2>5. l[q] \in Nat /\ I \ {m} \in SUBSET DOMAIN reports
        BY <2>1, FlowInType
  <2>6. FlowIn(<<p, q>>)[m] \in Int
        BY <2>2
  <2> HIDE DEF k, l, o
  <2> QED
      BY <2>3, <2>4, <2>5, <2>6
<1>2. PairIn(p, I) = SumFunctionOnSet(k, Ports)
      /\ PairIn(p, I \ {m}) = SumFunctionOnSet(l, Ports)
      BY DEF PairIn
<1>3. OfPair(reports[m].flows, p) = SumFunctionOnSet(o, Ports)
      BY SumFunctionIsOnSet DEF OfPair
<1>4. IsFiniteSet(Ports)
      BY FlowsAssumption
<1> HIDE DEF k, l, o
<1>5. SumFunctionOnSet(k, Ports) = SumFunctionOnSet(l, Ports) + SumFunctionOnSet(o, Ports)
      BY <1>1, <1>4, SumOnSetPlus
<1> QED
    BY <1>2, <1>3, <1>5

\* The function that Totals computes, over the reports it has seen.
Adding(cutoff, g) ==
    g = [s \in SUBSET DOMAIN reports |->
           IF s = {} THEN [p \in Pairs |-> 0]
           ELSE IF reports[Max(s)].timestamp < cutoff THEN g[s \ {Max(s)}]
           ELSE [p \in Pairs |-> g[s \ {Max(s)}][p] + OfPair(reports[Max(s)].flows, p)]]
Added(cutoff, s) == [p \in Pairs |-> PairIn(p, Since(cutoff, s))]

LEMMA AddedStep ==
    ASSUME Types, NEW cutoff \in Nat, NEW s \in SUBSET DOMAIN reports, s # {}
    PROVE  LET m == Max(s) IN
           /\ m \in s
           /\ Added(cutoff, s) =
                IF reports[m].timestamp < cutoff THEN Added(cutoff, s \ {m})
                ELSE [p \in Pairs |-> Added(cutoff, s \ {m})[p] + OfPair(reports[m].flows, p)]
<1> DEFINE m == Max(s)
           in == Since(cutoff, s)
<1>1. m \in s
  <2>1. DOMAIN reports = 1..Len(reports) /\ Len(reports) \in Nat
        BY DEF Types, SentOK
  <2>2. IsFiniteSet(DOMAIN reports)
        BY <2>1, FS_Interval
  <2>3. IsFiniteSet(s) /\ s \subseteq Int
        BY <2>1, <2>2, FS_Subset
  <2> QED
      BY <2>3, MaxOfFinite
<1> HIDE DEF m
<1>2. reports[m].timestamp \in Nat
  <2>1. reports[m] \in Report
        BY <1>1 DEF Types, SentOK
  <2> QED
      BY <2>1, BoundAssumption DEF Report
<1>3. CASE reports[m].timestamp < cutoff
  <2>1. m \notin in
        BY <1>2, <1>3 DEF Since
  <2>2. in = Since(cutoff, s \ {m})
        BY <2>1 DEF Since
  <2>3. Added(cutoff, s) = Added(cutoff, s \ {m})
        BY <2>2 DEF Added
  <2> QED
      BY <1>1, <1>3, <2>3 DEF m
<1>4. CASE ~(reports[m].timestamp < cutoff)
  <2>1. m \in in
        BY <1>1, <1>2, <1>4 DEF Since
  <2>2. in \ {m} = Since(cutoff, s \ {m}) /\ in \in SUBSET DOMAIN reports
        BY DEF Since
  <2>3. \A p \in Pairs : PairIn(p, in) = PairIn(p, in \ {m}) + OfPair(reports[m].flows, p)
        BY <2>1, <2>2, PairInAdd
  <2>4. \A p \in Pairs : Added(cutoff, s \ {m})[p] = PairIn(p, in \ {m})
        BY <2>2 DEF Added
  <2>5. Added(cutoff, s) = [p \in Pairs |-> PairIn(p, in)]
        BY DEF Added
  <2> HIDE DEF in
  <2>6. Added(cutoff, s) =
            [p \in Pairs |-> Added(cutoff, s \ {m})[p] + OfPair(reports[m].flows, p)]
        BY <2>3, <2>4, <2>5
  <2> QED
      BY <1>1, <1>4, <2>6 DEF m
<1> QED
    BY <1>3, <1>4

LEMMA AddedNone ==
    ASSUME Types, NEW cutoff
    PROVE  Added(cutoff, {}) = [p \in Pairs |-> 0]
<1>1. Since(cutoff, {}) = {}
      BY DEF Since
<1> QED
    BY <1>1, PairInType DEF Added

LEMMA AddingExists ==
    ASSUME Types, NEW cutoff \in Nat
    PROVE  \E g : Adding(cutoff, g)
<1> DEFINE g == [s \in SUBSET DOMAIN reports |-> Added(cutoff, s)]
           body(s) == IF s = {} THEN [p \in Pairs |-> 0]
                      ELSE IF reports[Max(s)].timestamp < cutoff THEN g[s \ {Max(s)}]
                      ELSE [p \in Pairs |-> g[s \ {Max(s)}][p] + OfPair(reports[Max(s)].flows, p)]
<1>1. ASSUME NEW s \in SUBSET DOMAIN reports PROVE Added(cutoff, s) = body(s)
  <2>1. s \ {Max(s)} \in SUBSET DOMAIN reports
        OBVIOUS
  <2>2. g[s \ {Max(s)}] = Added(cutoff, s \ {Max(s)})
        BY <2>1
  <2> HIDE DEF g
  <2>3. CASE s = {}
        BY <2>3, AddedNone
  <2>4. CASE s # {}
        BY <2>2, <2>4, AddedStep
  <2> QED
      BY <2>3, <2>4
<1>2. g = [s \in SUBSET DOMAIN reports |-> body(s)]
  <2> HIDE DEF body
  <2> QED
      BY <1>1
<1>3. Adding(cutoff, g)
  <2> HIDE DEF g
  <2> QED
      BY <1>2 DEF Adding
<1> QED
    BY <1>3

LEMMA AddingIsAdded ==
    ASSUME Types, NEW cutoff \in Nat, NEW g, Adding(cutoff, g)
    PROVE  g[DOMAIN reports] = Added(cutoff, DOMAIN reports)
<1> DEFINE D == DOMAIN reports
           C == {s \in SUBSET D : g[s] # Added(cutoff, s)}
<1> SUFFICES ASSUME C # {} PROVE FALSE
    OBVIOUS
<1>1. C \subseteq SUBSET D /\ IsFiniteSet(D)
  <2>1. DOMAIN reports = 1..Len(reports) /\ Len(reports) \in Nat
        BY DEF Types, SentOK
  <2> QED
      BY <2>1, FS_Interval
<1>2. PICK s \in C : \A u \in C : u \subseteq s => u = s
  <2> HIDE DEF C, D
  <2> QED
      BY <1>1, SmallestSubset
<1>3. s \in SUBSET D /\ g[s] # Added(cutoff, s)
      OBVIOUS
<1>4. g[s] = IF s = {} THEN [p \in Pairs |-> 0]
             ELSE IF reports[Max(s)].timestamp < cutoff THEN g[s \ {Max(s)}]
             ELSE [p \in Pairs |-> g[s \ {Max(s)}][p] + OfPair(reports[Max(s)].flows, p)]
  <2> HIDE DEF C
  <2>1. g[s] = [t \in SUBSET DOMAIN reports |->
                  IF t = {} THEN [p \in Pairs |-> 0]
                  ELSE IF reports[Max(t)].timestamp < cutoff THEN g[t \ {Max(t)}]
                  ELSE [p \in Pairs |-> g[t \ {Max(t)}][p] + OfPair(reports[Max(t)].flows, p)]][s]
        BY DEF Adding
  <2> QED
      BY <1>3, <2>1
<1>5. s # {}
      BY <1>3, <1>4, AddedNone
<1>6. Max(s) \in s
      BY <1>3, <1>5, AddedStep
<1>7. g[s \ {Max(s)}] = Added(cutoff, s \ {Max(s)})
  <2>1. s \ {Max(s)} \subseteq s /\ s \ {Max(s)} # s /\ s \ {Max(s)} \in SUBSET D
        BY <1>3, <1>6
  <2> QED
      BY <1>2, <2>1
<1> HIDE DEF C
<1> QED
    BY <1>3, <1>4, <1>5, <1>7, AddedStep

LEMMA TotalsIs ==
    ASSUME Types, NEW cutoff \in Nat
    PROVE  Totals(cutoff) = Added(cutoff, DOMAIN reports)
<1>1. Totals(cutoff) = (CHOOSE g : Adding(cutoff, g))[DOMAIN reports]
      BY DEF Totals, FoldLeft, MapThenFoldSet, Adding
<1>2. Adding(cutoff, CHOOSE g : Adding(cutoff, g))
      BY AddingExists
<1> QED
    BY <1>1, <1>2, AddingIsAdded

\* The rows, and the order TopFlows puts them in.
Rows(agg) == {[pair |-> p, pktCount |-> agg[p]] : p \in {q \in Pairs : agg[q] > 0}}
Loudest(s, rows) ==
    /\ IsInjective(s)
    /\ \A i, j \in DOMAIN s : i < j => s[i].pktCount >= s[j].pktCount

LEMMA RowsType ==
    ASSUME NEW agg \in [Pairs -> Nat]
    PROVE  /\ IsFiniteSet(Rows(agg))
           /\ \A r \in Rows(agg) :
                 /\ r.pair \in Pairs /\ r.pktCount = agg[r.pair] /\ r.pktCount \in Nat
                 /\ r = [pair |-> r.pair, pktCount |-> agg[r.pair]]
           /\ \A p \in Pairs : agg[p] > 0 => [pair |-> p, pktCount |-> agg[p]] \in Rows(agg)
<1> DEFINE P == {q \in Pairs : agg[q] > 0}
           b == [p \in P |-> [pair |-> p, pktCount |-> agg[p]]]
<1>1. IsFiniteSet(P)
      BY FlowsAssumption, FS_Subset
<1>2. Rows(agg) = {b[p] : p \in P}
      BY DEF Rows
<1>3. IsFiniteSet(Rows(agg))
  <2> HIDE DEF P, b
  <2> QED
      BY <1>1, <1>2, ImageFinite
<1> QED
    BY <1>3 DEF Rows

LEMMA LoudestExists ==
    ASSUME NEW agg \in [Pairs -> Nat]
    PROVE  \E s \in [1..Cardinality(Rows(agg)) -> Rows(agg)] : Loudest(s, Rows(agg))
<1> DEFINE rows == Rows(agg)
           key == [r \in rows |-> 0 - r.pktCount]
<1>1. IsFiniteSet(rows) /\ \A r \in rows : r.pktCount \in Nat
      BY RowsType
<1>2. \A r \in rows : key[r] \in Int /\ key[r] = 0 - r.pktCount
      BY <1>1
<1> HIDE DEF rows, key
<1>3. PICK s \in [1..Cardinality(rows) -> rows] : Ascending(s, key)
      BY <1>1, <1>2, SortedExists
<1>4. ASSUME NEW i \in DOMAIN s, NEW j \in DOMAIN s, i < j
      PROVE  s[i].pktCount >= s[j].pktCount
  <2>1. s[i] \in rows /\ s[j] \in rows
        BY <1>3
  <2>2. key[s[i]] <= key[s[j]]
        BY <1>3, <1>4 DEF Ascending
  <2>3. 0 - s[i].pktCount <= 0 - s[j].pktCount
        BY <1>2, <2>1, <2>2
  <2>4. s[i].pktCount \in Nat /\ s[j].pktCount \in Nat
        BY <1>1, <2>1
  <2> QED
      BY <2>3, <2>4
<1>5. IsInjective(s)
      BY <1>3 DEF Ascending
<1>6. Loudest(s, rows)
      BY <1>4, <1>5 DEF Loudest
<1> QED
    BY <1>3, <1>6 DEF rows

\* The first n members of a sequence, or all of it.
LEMMA Cut ==
    ASSUME NEW S, NEW s \in Seq(S), NEW n \in Nat, NEW m,
           m = IF n <= Len(s) THEN n ELSE Len(s)
    PROVE  LET top == SubSeq(s, 1, Min({n, Len(s)})) IN
           DOMAIN top = 1..m /\ Len(top) = m /\ \A i \in 1..m : top[i] = s[i]
<1>1. Len(s) \in Nat
      OBVIOUS
<1>2. Min({n, Len(s)}) = m
      BY ONLY <1>1, n \in Nat, m = IF n <= Len(s) THEN n ELSE Len(s) DEF Min
<1>3. m \in Nat /\ m <= Len(s)
      BY <1>1
<1>4. LET top == SubSeq(s, 1, m) IN
      DOMAIN top = 1..m /\ Len(top) = m /\ \A i \in 1..m : top[i] = s[i]
      BY ONLY <1>1, <1>3, s \in Seq(S)
<1> QED
    BY <1>2, <1>4

\* What LoudestShown asks of the rows listed, with agg as the counts.
Ranked(top, n, agg) ==
    LET shown == {top[i].pair : i \in DOMAIN top} IN
    /\ Len(top) <= n /\ Cardinality(shown) = Len(top)
    /\ \A i \in DOMAIN top :
          /\ top[i].pair \in Pairs /\ top[i].pktCount = agg[top[i].pair]
          /\ i > 1 => top[i].pktCount <= top[i - 1].pktCount
    /\ \A p \in Pairs \ shown : agg[p] > 0 => Len(top) = n /\ agg[p] <= top[n].pktCount

\* What is cut from the sorted rows is as long as it may be, and lists a pair once.
LEMMA TopRows ==
    ASSUME NEW agg \in [Pairs -> Nat], NEW n \in Nat, n >= 1,
           NEW c, c = Cardinality(Rows(agg)),
           NEW s \in [1..c -> Rows(agg)], Loudest(s, Rows(agg)),
           NEW m, m = IF n <= c THEN n ELSE c,
           NEW top, DOMAIN top = 1..m, Len(top) = m, \A i \in 1..m : top[i] = s[i]
    PROVE  Ranked(top, n, agg)
<1> DEFINE rows == Rows(agg)
           pair == [i \in 1..m |-> top[i].pair]
           shown == {top[i].pair : i \in DOMAIN top}
<1>1. /\ IsFiniteSet(rows)
      /\ \A r \in rows :
            /\ r.pair \in Pairs /\ r.pktCount = agg[r.pair] /\ r.pktCount \in Nat
            /\ r = [pair |-> r.pair, pktCount |-> agg[r.pair]]
      BY RowsType
<1>2. c \in Nat /\ m \in Nat /\ m <= c /\ m <= n
      BY <1>1, FS_CardinalityType
<1>3. DOMAIN s = 1..c
      OBVIOUS
<1>5. \A i \in 1..m : top[i] = s[i] /\ i \in 1..c /\ s[i] \in rows
  <2>1. \A i \in 1..m : i \in 1..c
        BY <1>2
  <2> QED
      BY <2>1
<1> HIDE DEF rows
<1>6. ASSUME NEW i \in 1..m, NEW j \in 1..m, top[i].pair = top[j].pair PROVE i = j
  <2>1. /\ s[i] \in rows /\ s[j] \in rows /\ i \in DOMAIN s /\ j \in DOMAIN s
        /\ s[i].pair = s[j].pair
        BY <1>3, <1>5, <1>6
  <2>2. s[i] = s[j]
        BY <1>1, <2>1
  <2> QED
      BY <2>1, <2>2 DEF Loudest, IsInjective
<1>7. Cardinality(shown) = m
  <2>1. shown = {top[i].pair : i \in 1..m}
        BY <1>5
  <2>2. pair \in Surjection(1..m, shown)
        BY <2>1 DEF Surjection
  <2>3. pair \in Injection(1..m, shown)
        BY <1>6, <2>2 DEF Injection, IsInjective, Surjection
  <2>4. IsFiniteSet(1..m) /\ Cardinality(1..m) = m
    <3>1. m \in Nat
          BY <1>2
    <3> QED
        BY ONLY <3>1, FS_Interval
  <2> HIDE DEF pair, shown
  <2>5. Cardinality(shown) = Cardinality(1..m)
        BY <2>2, <2>3, <2>4, FS_Surjection
  <2> QED
      BY <2>4, <2>5
<1>8. ASSUME NEW i \in 1..m
      PROVE  /\ top[i].pair \in Pairs /\ top[i].pktCount = agg[top[i].pair]
             /\ i > 1 => top[i].pktCount <= top[i - 1].pktCount
  <2>1. top[i].pair \in Pairs /\ top[i].pktCount = agg[top[i].pair]
        BY <1>1, <1>5
  <2>2. ASSUME i > 1 PROVE top[i].pktCount <= top[i - 1].pktCount
    <3>1. i - 1 \in 1..m /\ i - 1 < i
          BY <1>2, <2>2
    <3>2. i \in DOMAIN s /\ i - 1 \in DOMAIN s
          BY <1>3, <1>5, <3>1
    <3>3. s[i - 1].pktCount >= s[i].pktCount
          BY <3>1, <3>2 DEF Loudest
    <3>4. s[i].pktCount \in Nat /\ s[i - 1].pktCount \in Nat
          BY <1>1, <1>5, <3>1
    <3> QED
        BY <1>5, <3>1, <3>3, <3>4
  <2> QED
      BY <2>1, <2>2
<1>9. ASSUME NEW p \in Pairs \ shown, agg[p] > 0
      PROVE  m = n /\ agg[p] <= top[n].pktCount
  <2> DEFINE r == [pair |-> p, pktCount |-> agg[p]]
  <2>1. r \in rows
        BY <1>9, RowsType DEF rows
  <2>2. PICK j \in 1..c : s[j] = r
    <3>1. s \in [1..Cardinality(rows) -> rows] /\ IsInjective(s)
          BY DEF rows, Loudest
    <3>2. IsFiniteSet(rows)
          BY <1>1
    <3> HIDE DEF r
    <3>3. \E j \in 1..Cardinality(rows) : s[j] = r
          BY ONLY <2>1, <3>1, <3>2, SortedHasAll
    <3> QED
        BY <3>3 DEF rows
  <2>3. j \notin 1..m
    <3>1. ASSUME j \in 1..m PROVE FALSE
      <4>1. top[j] = r
            BY <1>5, <2>2, <3>1
      <4>2. top[j].pair = p
            BY <4>1
      <4> QED
          BY <1>5, <1>9, <3>1, <4>2
    <3> QED
        BY <3>1
  <2>4. j > m /\ m < c /\ m = n
        BY <1>2, <2>2, <2>3
  <2>5. n \in 1..m /\ n < j
        BY <1>2, <2>4
  <2>6. n \in DOMAIN s /\ j \in DOMAIN s
        BY <1>3, <1>5, <2>2, <2>5
  <2>7. s[n].pktCount >= s[j].pktCount
        BY <2>5, <2>6 DEF Loudest
  <2>8. s[j].pktCount = agg[p] /\ agg[p] \in Nat
        BY <2>2
  <2>9. top[n] = s[n] /\ s[n].pktCount \in Nat
        BY <1>1, <1>5, <2>5
  <2> QED
      BY <2>4, <2>7, <2>8, <2>9
<1> HIDE DEF pair
<1> QED
    BY <1>2, <1>5, <1>7, <1>8, <1>9 DEF Ranked

\* TopFlows lists such rows.
LEMMA TopFlowsIs ==
    ASSUME Types, NEW cutoff \in Nat, NEW n
    PROVE  LET agg == Added(cutoff, DOMAIN reports) IN
           /\ agg \in [Pairs -> Nat]
           /\ \E s \in [1..Cardinality(Rows(agg)) -> Rows(agg)] :
                 Loudest(s, Rows(agg)) /\ TopFlows(cutoff, n) = SubSeq(s, 1, Min({n, Len(s)}))
<1> DEFINE agg == Added(cutoff, DOMAIN reports)
           sorted == CHOOSE s \in [1..Cardinality(Rows(agg)) -> Rows(agg)] : Loudest(s, Rows(agg))
<1>1. agg \in [Pairs -> Nat]
  <2>1. Since(cutoff, DOMAIN reports) \in SUBSET DOMAIN reports
        BY DEF Since
  <2>2. \A p \in Pairs : PairIn(p, Since(cutoff, DOMAIN reports)) \in Nat
        BY <2>1, PairInType
  <2> QED
      BY <2>2 DEF Added
<1>2. Totals(cutoff) = agg
      BY TotalsIs
<1>3. TopFlows(cutoff, n) = SubSeq(sorted, 1, Min({n, Len(sorted)}))
  <2> HIDE DEF agg
  <2> QED
      BY <1>2 DEF TopFlows, Rows, Loudest
<1> HIDE DEF agg
<1>4. sorted \in [1..Cardinality(Rows(agg)) -> Rows(agg)] /\ Loudest(sorted, Rows(agg))
      BY <1>1, LoudestExists
<1> HIDE DEF sorted
<1>5. \E s \in [1..Cardinality(Rows(agg)) -> Rows(agg)] :
         Loudest(s, Rows(agg)) /\ TopFlows(cutoff, n) = SubSeq(s, 1, Min({n, Len(s)}))
      BY <1>3, <1>4
<1> QED
    BY <1>1, <1>5 DEF agg

\* A pair is not shown with more packets than the kernel sampled of it.
LEMMA AddedWithinSampled ==
    ASSUME Types, StampInv, CountInv, NEW cutoff \in Nat, NEW p \in Pairs
    PROVE  PairIn(p, Since(cutoff, DOMAIN reports)) <= OfPair(sampled, p)
<1> DEFINE I == Since(cutoff, DOMAIN reports)
           k == [q \in Ports |-> SumFunctionOnSet(FlowIn(<<p, q>>), I)]
           o == [q \in Ports |-> sampled[<<p, q>>]]
<1>1. I \in SUBSET DOMAIN reports
      BY DEF Since
<1>2. ASSUME NEW q \in Ports PROVE k[q] \in Nat /\ o[q] \in Nat /\ k[q] <= o[q]
  <2> DEFINE f == <<p, q>>
  <2>1. f \in Flows
        BY DEF Flows
  <2> HIDE DEF f, I
  <2>2. IsFiniteSet(DOMAIN reports) /\ \A i \in DOMAIN reports : FlowIn(f)[i] \in Nat
        BY <2>1, FlowInType
  <2>3. SumFunctionOnSet(FlowIn(f), I) <= SumFunctionOnSet(FlowIn(f), DOMAIN reports)
        BY <1>1, <2>2, SumOnSetMono
  <2>4. SumFunctionOnSet(FlowIn(f), DOMAIN reports) = InWindow(f, reports)
        BY DEF FlowIn, InWindow
  <2>5. Counted(f) <= sampled[f]
        BY <2>1 DEF CountInv, CountOf
  <2>6. /\ InSeq(f, ring) \in Nat /\ InSeq(f, events) \in Nat /\ InPeriod(f) \in Nat
        /\ InRequests(f, requests) \in Nat /\ InWindow(f, reports) \in Nat
        BY <2>1, PlacesType
  <2>7. sampled[f] \in Nat
        BY <2>1, StatsType DEF Types, HistoryOK
  <2>8. SumFunctionOnSet(FlowIn(f), I) \in Nat
        BY <1>1, <2>1, FlowInType
  <2>9. InWindow(f, reports) <= sampled[f]
        BY <2>5, <2>6, <2>7 DEF Counted
  <2>10. SumFunctionOnSet(FlowIn(f), I) <= sampled[f]
        BY <2>3, <2>4, <2>6, <2>7, <2>8, <2>9
  <2> QED
      BY <2>7, <2>8, <2>10 DEF f
<1>3. PairIn(p, I) = SumFunctionOnSet(k, Ports)
      BY DEF PairIn
<1>4. OfPair(sampled, p) = SumFunctionOnSet(o, Ports)
      BY SumFunctionIsOnSet DEF OfPair
<1>5. IsFiniteSet(Ports)
      BY FlowsAssumption
<1> HIDE DEF k, o
<1>6. SumFunctionOnSet(k, Ports) <= SumFunctionOnSet(o, Ports)
      BY <1>2, <1>5, SumOnSetLeq
<1> QED
    BY <1>3, <1>4, <1>6

\* The dashboard lists at most n pairs, the loudest first; each count is the sum over the
\* reports since the cutoff and never more than was sampled, and no pair left out is
\* louder than one listed (sampleBuffer.TopFlows).
THEOREM LoudestHolds == Spec => []LoudestShown
<1>1. IInv => LoudestShown
  <2> SUFFICES ASSUME IInv, NEW cutoff \in 1..periods, NEW n \in 1..Cardinality(Pairs)
               PROVE  LET top == TopFlows(cutoff, n)
                          total(p) == SumFunction([q \in Ports |-> InReports(<<p, q>>, cutoff)])
                          shown == {top[i].pair : i \in DOMAIN top}
                      IN /\ Len(top) <= n /\ Cardinality(shown) = Len(top)
                         /\ \A i \in DOMAIN top :
                               /\ top[i].pktCount = total(top[i].pair)
                               /\ top[i].pktCount <= OfPair(sampled, top[i].pair)
                               /\ i > 1 => top[i].pktCount <= top[i - 1].pktCount
                         /\ \A p \in Pairs \ shown :
                               total(p) > 0 => Len(top) = n /\ total(p) <= top[n].pktCount
      BY DEF LoudestShown
  <2> DEFINE agg == Added(cutoff, DOMAIN reports)
             rows == Rows(agg)
             total(p) == SumFunction([q \in Ports |-> InReports(<<p, q>>, cutoff)])
             top == TopFlows(cutoff, n)
             shown == {top[i].pair : i \in DOMAIN top}
  <2>1. cutoff \in Nat /\ n \in Nat /\ n >= 1
    <3>1. periods \in Nat /\ Cardinality(Pairs) \in Nat
          BY SizeType, FlowsAssumption, FS_CardinalityType DEF IInv, Types, LoopOK
    <3> QED
        BY <3>1
  <2>2. PICK s \in [1..Cardinality(rows) -> rows] :
           Loudest(s, rows) /\ top = SubSeq(s, 1, Min({n, Len(s)}))
        BY <2>1, TopFlowsIs DEF IInv
  <2>3. agg \in [Pairs -> Nat]
        BY <2>1, TopFlowsIs DEF IInv
  <2>4. ASSUME NEW p \in Pairs
        PROVE  total(p) = agg[p] /\ agg[p] <= OfPair(sampled, p)
    <3>1. total(p) = PairIn(p, Since(cutoff, DOMAIN reports))
      <4>1. total(p) = SumFunctionOnSet([q \in Ports |-> InReports(<<p, q>>, cutoff)], Ports)
            BY SumFunctionIsOnSet
      <4> QED
          BY <4>1 DEF PairIn, InReports, FlowIn, Since
    <3>2. PairIn(p, Since(cutoff, DOMAIN reports)) <= OfPair(sampled, p)
          BY <2>1, AddedWithinSampled DEF IInv
    <3> QED
        BY <3>1, <3>2 DEF Added
  <2> HIDE DEF agg, total, top
  <2> DEFINE c == Cardinality(rows)
             m == IF n <= c THEN n ELSE c
  <2>5. c \in Nat
        BY <2>3, RowsType, FS_CardinalityType
  <2>6. s \in Seq(rows) /\ Len(s) = c /\ s \in [1..c -> rows]
    <3> HIDE DEF rows
    <3> QED
        BY <2>2, <2>5
  <2>7. DOMAIN top = 1..m /\ Len(top) = m /\ \A i \in 1..m : top[i] = s[i]
    <3>1. s \in Seq(rows) /\ n \in Nat /\ m = IF n <= Len(s) THEN n ELSE Len(s)
          BY <2>1, <2>6
    <3>2. top = SubSeq(s, 1, Min({n, Len(s)}))
          BY <2>2
    <3> HIDE DEF rows, m
    <3> QED
        BY ONLY <3>1, <3>2, Cut
  <2>8. /\ Len(top) <= n /\ Cardinality(shown) = Len(top)
        /\ \A i \in DOMAIN top :
              /\ top[i].pair \in Pairs /\ top[i].pktCount = agg[top[i].pair]
              /\ i > 1 => top[i].pktCount <= top[i - 1].pktCount
        /\ \A p \in Pairs \ shown : agg[p] > 0 => Len(top) = n /\ agg[p] <= top[n].pktCount
    <3>1. Loudest(s, Rows(agg)) /\ s \in [1..c -> Rows(agg)] /\ c = Cardinality(Rows(agg))
          BY <2>2, <2>6
    <3>2. m = IF n <= c THEN n ELSE c
          OBVIOUS
    <3> HIDE DEF rows, c, m
    <3>3. DOMAIN top = 1..m /\ Len(top) = m /\ \A i \in 1..m : top[i] = s[i]
          BY <2>7
    <3>4. Ranked(top, n, agg)
          BY ONLY <2>1, <2>3, <3>1, <3>2, <3>3, TopRows
    <3> QED
        BY <3>4 DEF Ranked
  <2> HIDE DEF rows, c, m
  <2>9. \A i \in DOMAIN top :
           top[i].pktCount = total(top[i].pair) /\ top[i].pktCount <= OfPair(sampled, top[i].pair)
        BY <2>4, <2>8
  <2>10. \A p \in Pairs \ shown : total(p) > 0 => Len(top) = n /\ total(p) <= top[n].pktCount
        BY <2>4, <2>8
  <2> QED
      BY <2>8, <2>9, <2>10 DEF top, total
<1> QED
    BY <1>1, Invariance, PTL
=============================================================================
