------------------------------ MODULE Sampler ------------------------------
(***************************************************************************)
(* The sampler (bpf/xdp_sampler.c, cmd/xdp-sampler) and the window of      *)
(* reports that xdp-ban keeps of it (internal/web/samples.go).             *)
(*                                                                         *)
(* The kernel samples packets into a ring buffer; a reader moves them to a *)
(* channel; the main loop adds them up per flow and, every ten seconds,    *)
(* posts the sums to xdp-ban, exports them as NetFlow packets and starts   *)
(* anew.  While it waits for the answer nobody takes from the channel.     *)
(* Nothing in this chain is retried: what does not fit or does not arrive  *)
(* is dropped.                                                             *)
(*                                                                         *)
(* Only packets are counted; bytes and times of a flow go the same way.    *)
(***************************************************************************)
EXTENDS Naturals, Sequences, SequencesExt, FiniteSets, FiniteSetsExt

CONSTANTS
    Pairs, Ports,       \* a flow is a source, destination and protocol, with ports
    RingSize,           \* events the ring buffer holds, 256 KB in the code
    ChannelSize,        \* 4096 in the code
    MaxRecords,         \* netflowV5MaxRecords
    Limit,              \* reports the window holds, 64 in the code
    SequenceSpace,      \* flow_sequence is a 32-bit number
    MaxPackets          \* bound: packets on the sampled interface

ASSUME SizeAssumption ==
    {RingSize, ChannelSize, MaxRecords, Limit, SequenceSpace} \subseteq Nat \ {0}
ASSUME BoundAssumption == MaxPackets \in Nat
ASSUME FlowsAssumption == IsFiniteSet(Pairs) /\ IsFiniteSet(Ports)

VARIABLES
    ring, events,       \* sampled packets on their way to the main loop
    pc,                 \* where the main loop is
    flowStats,          \* packets of every flow in this period, 0 if it has no entry
    todo,               \* flows of this period that are not exported yet
    periods,            \* periods reported: the clock that stamps the reports
    requests,           \* reports under way to xdp-ban
    reports,            \* SampleStore.reports
    enabled,            \* -netflow was given
    flowSeq,            \* records this process has encoded
    expected,           \* the collector: the sequence number after its last packet
    missing,            \* history: records encoded since the collector's last packet
    regressed,          \* history: the sampler has restarted and the collector has had
                        \*   nothing of the new process yet
    sampled,            \* history: what the kernel has sampled
    lossy               \* history: something has been dropped, lost or displaced

vars == <<ring, events, pc, flowStats, todo, periods, requests, reports, enabled,
          flowSeq, expected, missing, regressed, sampled, lossy>>
loop == <<pc, flowStats, todo, periods>>
netflow == <<flowSeq, expected, missing, regressed>>

Flows == Pairs \X Ports
NoFlows == [f \in Flows |-> 0]
FlowStats == {b \in [Flows -> 0..MaxPackets] : SumFunction(b) <= MaxPackets}
Report == [timestamp: 1..MaxPackets, flows: FlowStats]

\* The flows that have an entry, and the entries with one more packet of f.
Seen(b) == {f \in Flows : b[f] > 0}
Count(b, f) == [b EXCEPT ![f] = @ + 1]

TypeOK ==
    /\ ring \in SeqOf(Flows, RingSize) /\ events \in SeqOf(Flows, ChannelSize)
    /\ pc \in {"loop", "post", "export", "clear"}
    /\ flowStats \in FlowStats /\ sampled \in FlowStats
    /\ todo \subseteq Seen(flowStats) /\ (pc # "export" => todo = {})
    /\ periods \in 0..MaxPackets
    /\ requests \subseteq Report
    /\ reports \in Seq(Report) /\ Len(reports) <= Limit
    /\ {enabled, lossy, regressed} \subseteq BOOLEAN
    /\ {flowSeq, expected} \subseteq 0..SequenceSpace - 1 /\ missing \in Nat

Init ==
    /\ ring = <<>> /\ events = <<>>
    /\ pc = "loop" /\ flowStats = NoFlows /\ todo = {} /\ periods = 0
    /\ requests = {} /\ reports = <<>>
    /\ enabled \in BOOLEAN
    /\ flowSeq = 0 /\ expected = 0 /\ missing = 0 /\ regressed = FALSE
    /\ sampled = NoFlows /\ lossy = FALSE

-----------------------------------------------------------------------------
(* The kernel program, and the goroutine that reads the ring buffer *)

\* A packet that the draw does not pick leaves no trace that anybody reads.
XdpSample(f) ==
    /\ SumFunction(sampled) < MaxPackets
    /\ sampled' = Count(sampled, f)
    /\ IF Len(ring) < RingSize
       THEN ring' = Append(ring, f) /\ UNCHANGED lossy
       ELSE lossy' = TRUE /\ UNCHANGED ring
    /\ UNCHANGED <<events, loop, requests, reports, enabled, netflow>>

ReadRing ==
    /\ ring # <<>>
    /\ ring' = Tail(ring)
    /\ IF Len(events) < ChannelSize
       THEN events' = Append(events, Head(ring)) /\ UNCHANGED lossy
       ELSE lossy' = TRUE /\ UNCHANGED events
    /\ UNCHANGED <<loop, requests, reports, enabled, netflow, sampled>>

-----------------------------------------------------------------------------
(* The main loop *)

Aggregate ==
    /\ pc = "loop" /\ events # <<>>
    /\ events' = Tail(events)
    /\ flowStats' = Count(flowStats, Head(events))
    /\ UNCHANGED <<ring, pc, todo, periods, requests, reports, enabled, netflow,
                   sampled, lossy>>

\* A tick with nothing counted does nothing.
ReportSamples ==
    /\ pc = "loop" /\ flowStats # NoFlows
    /\ pc' = "post"
    /\ periods' = periods + 1
    /\ requests' = requests \cup {[timestamp |-> periods + 1, flows |-> flowStats]}
    /\ UNCHANGED <<ring, events, flowStats, todo, reports, enabled, netflow, sampled,
                   lossy>>

\* Mutant: the client waits for the answer for as long as it takes.
PostEndsOnAnswer ==
    /\ pc = "post" /\ \A r \in requests : r.timestamp # periods
    /\ IF enabled
       THEN pc' = "export" /\ todo' = Seen(flowStats)
       ELSE pc' = "clear" /\ UNCHANGED todo
    /\ UNCHANGED <<ring, events, flowStats, periods, requests, reports, enabled,
                   netflow, sampled, lossy>>

\* Answered, refused or timed out after ten seconds: the loop goes on in the same way,
\* and a request it has given up may still arrive.
PostEnds ==
    /\ pc = "post"
    /\ IF enabled
       THEN pc' = "export" /\ todo' = Seen(flowStats)
       ELSE pc' = "clear" /\ UNCHANGED todo
    /\ UNCHANGED <<ring, events, flowStats, periods, requests, reports, enabled,
                   netflow, sampled, lossy>>

\* Mutant: the sequence counts only what was written.
ExportUncounted(chunk, written, arrives) ==
    /\ pc = "export" /\ chunk \subseteq todo
    /\ Cardinality(chunk) = Min({MaxRecords, Cardinality(todo)})
    /\ flowSeq' = IF written THEN (flowSeq + Cardinality(chunk)) % SequenceSpace ELSE flowSeq
    /\ arrives => written
    /\ IF arrives
       THEN /\ expected' = (flowSeq + Cardinality(chunk)) % SequenceSpace
            /\ missing' = 0 /\ regressed' = FALSE
       ELSE missing' = missing + Cardinality(chunk) /\ UNCHANGED <<expected, regressed>>
    /\ todo' = IF written THEN todo \ chunk ELSE {}
    /\ pc' = IF todo' = {} THEN "clear" ELSE pc
    /\ UNCHANGED <<ring, events, flowStats, periods, requests, reports, enabled,
                   sampled, lossy>>

\* One packet: it is numbered when it is encoded, a write that fails ends the export,
\* and a datagram that is written need not arrive.
Export(chunk, written, arrives) ==
    /\ pc = "export" /\ chunk \subseteq todo
    /\ Cardinality(chunk) = Min({MaxRecords, Cardinality(todo)})
    /\ flowSeq' = (flowSeq + Cardinality(chunk)) % SequenceSpace
    /\ arrives => written
    /\ IF arrives
       THEN expected' = flowSeq' /\ missing' = 0 /\ regressed' = FALSE
       ELSE missing' = missing + Cardinality(chunk) /\ UNCHANGED <<expected, regressed>>
    /\ todo' = IF written THEN todo \ chunk ELSE {}
    /\ pc' = IF todo' = {} THEN "clear" ELSE pc
    /\ UNCHANGED <<ring, events, flowStats, periods, requests, reports, enabled,
                   sampled, lossy>>

\* Mutant: the sums of a period are kept in the next one.
ClearKeeps ==
    /\ pc = "clear"
    /\ pc' = "loop"
    /\ UNCHANGED <<ring, events, flowStats, todo, periods, requests, reports,
                   enabled, netflow, sampled, lossy>>

Clear ==
    /\ pc = "clear"
    /\ pc' = "loop"
    /\ flowStats' = NoFlows
    /\ UNCHANGED <<ring, events, todo, periods, requests, reports, enabled, netflow,
                   sampled, lossy>>

-----------------------------------------------------------------------------
(* xdp-ban *)

\* Mutant: the window grows by one report too many.
WindowOneMore(s) == IF Len(s) > Limit + 1 THEN Tail(s) ELSE s

\* The oldest report makes room.
Window(s) == IF Len(s) > Limit THEN Tail(s) ELSE s

\* Reports arrive in any order: one the client gave up may come after the next.
ReceiveSamples(r) ==
    /\ requests' = requests \ {r}
    /\ reports' = Window(Append(reports, r))
    /\ lossy' = (lossy \/ Len(reports') # Len(reports) + 1)
    /\ UNCHANGED <<ring, events, loop, enabled, netflow, sampled>>

RequestLost(r) ==
    /\ requests' = requests \ {r}
    /\ lossy' = TRUE
    /\ UNCHANGED <<ring, events, loop, reports, enabled, netflow, sampled>>

\* Packets of a report per pair: the ports are left out of the key.
OfPair(flows, p) == SumFunction([q \in Ports |-> flows[<<p, q>>]])

\* Mutant: the newest report replaces what was added up before.
TotalsReplaced(cutoff) ==
    LET add(agg, r) ==
            IF r.timestamp < cutoff THEN agg
            ELSE [p \in Pairs |-> IF OfPair(r.flows, p) > 0 THEN OfPair(r.flows, p) ELSE agg[p]]
    IN FoldLeft(add, [p \in Pairs |-> 0], reports)

Totals(cutoff) ==
    LET add(agg, r) ==
            IF r.timestamp < cutoff THEN agg
            ELSE [p \in Pairs |-> agg[p] + OfPair(r.flows, p)]
    IN FoldLeft(add, [p \in Pairs |-> 0], reports)

\* sort.Slice leaves it open in which order rows of one count come out.
TopFlows(cutoff, n) ==
    LET agg == Totals(cutoff)
        rows == {[pair |-> p, pktCount |-> agg[p]] : p \in {q \in Pairs : agg[q] > 0}}
        sorted == CHOOSE s \in [1..Cardinality(rows) -> rows] :
                      /\ IsInjective(s)
                      /\ \A i, j \in DOMAIN s : i < j => s[i].pktCount >= s[j].pktCount
    IN SubSeq(sorted, 1, Min({n, Len(sorted)}))

-----------------------------------------------------------------------------
\* The sampler restarts: its maps and its memory are new and its numbers begin at 0
\* again; its clock is not new, and the collector goes on from the packet it had last.
RestartSampler ==
    /\ ring' = <<>> /\ events' = <<>>
    /\ pc' = "loop" /\ flowStats' = NoFlows /\ todo' = {}
    /\ flowSeq' = 0 /\ regressed' = TRUE
    /\ lossy' = TRUE
    /\ UNCHANGED <<expected, missing, periods, requests, reports, enabled, sampled>>

\* xdp-ban restarts: the window is memory only.
RestartBan ==
    /\ requests' = {} /\ reports' = <<>>
    /\ lossy' = TRUE
    /\ UNCHANGED <<ring, events, loop, enabled, netflow, sampled>>

ExportStep ==
    \E chunk \in SUBSET todo, written \in BOOLEAN, arrives \in BOOLEAN :
        Export(chunk, written, arrives)

Next ==
    \/ \E f \in Flows : XdpSample(f)
    \/ ReadRing \/ Aggregate
    \/ ReportSamples \/ PostEnds \/ ExportStep \/ Clear
    \/ \E r \in requests : ReceiveSamples(r) \/ RequestLost(r)
    \/ RestartSampler \/ RestartBan

Spec == Init /\ [][Next]_vars

\* The main loop's calls return, the reader keeps reading, and a select whose cases
\* are both ready again and again takes each of them again and again.  The network
\* promises nothing.
FairSpec ==
    Spec /\ WF_vars(ReadRing) /\ WF_vars(PostEnds) /\ WF_vars(ExportStep) /\ WF_vars(Clear)
         /\ SF_vars(Aggregate) /\ SF_vars(ReportSamples)

-----------------------------------------------------------------------------
(* Properties *)

InSeq(f, s) == Cardinality({i \in DOMAIN s : s[i] = f})
InReports(f, cutoff) ==
    SumFunctionOnSet([i \in DOMAIN reports |-> reports[i].flows[f]],
                     {i \in DOMAIN reports : reports[i].timestamp >= cutoff})

\* No sampled packet is counted twice on its way to the window, though requests time
\* out and arrive late; while nothing has been dropped, none is missing either.
CountedOnce ==
    \A f \in Flows :
        LET counted ==
                InSeq(f, ring) + InSeq(f, events)
                + (IF pc = "loop" THEN flowStats[f] ELSE 0)
                + SumFunction([r \in requests |-> r.flows[f]])
                + InReports(f, 0)
        IN /\ counted <= sampled[f]
           /\ ~lossy => counted = sampled[f]

\* The gap that the collector sees in flow_sequence is the number of records that were
\* numbered since its last packet and did not arrive, across periods, failed writes and
\* the end of the sequence.  Not so from a restart of the sampler, when the sequence goes
\* back to 0, until the first packet of the new process arrives: that gap is false, and
\* every one after it is right again.  Records that a failed write abandons before they
\* are encoded have no number and leave no gap.
GapsCountLosses == regressed \/ (expected + missing) % SequenceSpace = flowSeq

\* The dashboard shows at most n pairs, the loudest first, each with all its packets
\* in the reports since the cutoff and no more than were sampled; a pair that is left
\* out is no louder than those shown.
LoudestShown ==
    \A cutoff \in 1..periods, n \in 1..Cardinality(Pairs) :
        LET top == TopFlows(cutoff, n)
            total(p) == SumFunction([q \in Ports |-> InReports(<<p, q>>, cutoff)])
            shown == {top[i].pair : i \in DOMAIN top}
        IN /\ Len(top) <= n /\ Cardinality(shown) = Len(top)
           /\ \A i \in DOMAIN top :
                 /\ top[i].pktCount = total(top[i].pair)
                 /\ top[i].pktCount <= OfPair(sampled, top[i].pair)
                 /\ i > 1 => top[i].pktCount <= top[i - 1].pktCount
           /\ \A p \in Pairs \ shown :
                 total(p) > 0 => Len(top) = n /\ total(p) <= top[n].pktCount

\* Whatever the network does, the main loop does not hang: every period ends with its
\* sums cleared, and neither the channel nor the ring stays full, so that sampling is
\* not lost for good.
SamplingGoesOn ==
    /\ flowStats # NoFlows ~> flowStats = NoFlows
    /\ Len(events) = ChannelSize ~> Len(events) < ChannelSize
    /\ Len(ring) = RingSize ~> Len(ring) < RingSize
=============================================================================
