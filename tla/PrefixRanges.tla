---------------------------- MODULE PrefixRanges ----------------------------
(***************************************************************************)
(* What the prefix database computes (internal/prefixdb): the entries of a *)
(* downloaded file, the local overrides on top of them, and the smallest   *)
(* set of CIDR blocks for a country, an AS, or both.                       *)
(*                                                                         *)
(* An address is a Width-bit number.  A file is the set of its lines and a *)
(* database the set of its entries: sorting makes their order immaterial.  *)
(* A file line and an entry are records of the same form; a line whose end *)
(* lies before its start stands for all that normalize lets through and    *)
(* Load skips.                                                             *)
(***************************************************************************)
EXTENDS Naturals, Sequences, SequencesExt, FiniteSets, FiniteSetsExt

CONSTANTS
    Width,          \* bits of an address, 32 in the code
    Countries,      \* upper-case country codes
    ASNs            \* positive AS numbers

ASSUME WidthAssumption == Width \in Nat
ASSUME ASNAssumption == 0 \notin ASNs

\* 1 << k.
Pow2[k \in 0..Width] == IF k = 0 THEN 1 ELSE 2 * Pow2[k - 1]

Space == Pow2[Width]
Addrs == 0..Space - 1
Unknown == "NONE"   \* country of unassigned ranges
Unset == ""        \* selector field left empty

Line == [start: Addrs, end: Addrs, asn: ASNs \cup {0}, country: Countries \cup {Unknown}]
Entry == {l \in Line : l.start <= l.end}
Selectors == [country: Countries \cup {Unknown, Unset}, asn: ASNs \cup {0}]
                 \ {[country |-> Unset, asn |-> 0]}

Span(e) == e.start..e.end
Covered(S) == UNION {Span(e) : e \in S}
Overlap(e, f) == e.start <= f.end /\ f.start <= e.end

-----------------------------------------------------------------------------
(* normalize and Load *)

\* Lines of a RIR file count addresses; one that would wrap around is skipped.
FromRir(r) ==
    [start |-> r.start, end |-> (r.start + r.count - 1) % Space, asn |-> 0,
     country |-> r.country]
FromTsv(r) == [start |-> r.start, end |-> r.end, asn |-> r.asn, country |-> r.country]

Normalize(raw, format) ==
    IF format = "ip2asn_tsv" THEN {FromTsv(r) : r \in {q \in raw : q.form = "tsv"}}
    ELSE {l \in {FromRir(r) : r \in {q \in raw : q.form = "rir" /\ q.count > 0}} :
              l.end >= l.start}

Load(lines) == {l \in lines : l.start <= l.end}

-----------------------------------------------------------------------------
(* Local overrides *)

\* Mutant: only entries inside an override make way for it.
ApplyOverridesInside(db, ovs) ==
    {e \in db : ~\E o \in ovs : o.start <= e.start /\ e.end <= o.end} \cup ovs

\* An entry that touches an override is dropped as a whole.
ApplyOverrides(db, ovs) ==
    {e \in db : ~\E o \in ovs : Overlap(e, o)} \cup ovs

-----------------------------------------------------------------------------
(* Resolve *)

\* The indexes leave out the unknown country and AS 0.
Candidates(db, sel) ==
    {e \in db : /\ sel.country # Unset => sel.country # Unknown /\ e.country = sel.country
                /\ sel.asn # 0 => e.asn = sel.asn}

\* Mutant: the comparison that the code's comment warns of, with the sum wrapped.
MergesWrapped(cur, r) == r.start <= (cur.end + 1) % Space

\* Overlapping or adjacent; at the end of the space there is no next address.
Merges(cur, r) ==
    r.start <= cur.end \/ (cur.end # Space - 1 /\ r.start = cur.end + 1)

\* The ranges in the order of their starts, each merged into the last one if it can be.
\* sort.Slice leaves it open in which order ranges of one start come.
Merged(db) ==
    LET set == {[start |-> e.start, end |-> e.end] : e \in db}
        ranges == CHOOSE s \in [1..Cardinality(set) -> set] :
                      IsInjective(s) /\ \A i, j \in DOMAIN s : i < j => s[i].start <= s[j].start
        add(done, r) ==
            IF done # <<>> /\ Merges(Last(done), r)
            THEN Front(done) \o <<[Last(done) EXCEPT !.end = Max({@, r.end})]>>
            ELSE Append(done, r)
    IN FoldLeft(add, <<>>, ranges)

\* Number of address bits of the largest block that starts at s and ends by e.
BlockBits(s, e) == Max({k \in 0..Width : s % Pow2[k] = 0 /\ Pow2[k] <= e - s + 1})

\* The greedy split of rangeToCIDRs; a block at the end of the space ends it.
RangeToCIDRs(start, end) ==
    LET from[s \in 0..Space] ==
            IF s > end THEN {}
            ELSE LET k == BlockBits(s, end) IN
                 {[addr |-> s, bits |-> Width - k]} \cup from[s + Pow2[k]]
    IN from[start]

Resolve(db, sel) ==
    LET merged == Merged(Candidates(db, sel)) IN
    UNION {RangeToCIDRs(merged[i].start, merged[i].end) : i \in DOMAIN merged}

-----------------------------------------------------------------------------
(* Reference: disjoint aligned blocks that cover exactly A are the fewest possible when
   no two of them are the halves of a block. *)

Size(p) == Pow2[Width - p.bits]
Block(p) == p.addr..p.addr + Size(p) - 1

IsSmallestCover(S, A) ==
    /\ \A p \in S : p.addr % Size(p) = 0
    /\ UNION {Block(p) : p \in S} = A
    /\ \A p, q \in S : p # q =>
          /\ Block(p) \cap Block(q) = {}
          /\ ~(p.bits = q.bits /\ p.addr \div (2 * Size(p)) = q.addr \div (2 * Size(q)))
=============================================================================
