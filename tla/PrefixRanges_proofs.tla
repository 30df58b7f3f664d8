------------------------ MODULE PrefixRanges_proofs ------------------------
(***************************************************************************)
(* The expansion of a database into CIDR blocks is exact for any address   *)
(* width, database and selector: the blocks cover the matching entries and *)
(* nothing else, without overlap and without two halves of one block.      *)
(*                                                                         *)
(* Three inductions carry it: over the exponent, for the powers of two;    *)
(* over the sorted ranges, for the merging; and over the number of         *)
(* addresses left, for the greedy split of a range.                        *)
(***************************************************************************)
EXTENDS PrefixRanges, Sums, NaturalsInduction

\* Induction over numbers: of several numbers there is a smallest one.
LEMMA SmallestNumber ==
    ASSUME NEW S, S \subseteq Nat, S # {}
    PROVE  \E n \in S : \A m \in S : n <= m
<1>1. PICK n \in S : \A m \in S : <<m, n>> \notin OpToRel(<, Nat)
      BY NatLessThanWellFounded, WFMin
<1>2. ASSUME NEW m \in S, ~(n <= m)
      PROVE  FALSE
  <2>1. m \in Nat /\ n \in Nat /\ m < n
        BY <1>2
  <2>2. <<m, n>> \in OpToRel(<, Nat)
        BY <2>1 DEF OpToRel
  <2> QED
      BY <1>1, <2>2
<1> QED
    BY <1>2

-----------------------------------------------------------------------------
(* Powers of two *)

Doubling(n, f) == f = [k \in 0..n |-> IF k = 0 THEN 1 ELSE 2 * f[k - 1]]

LEMMA DoublingExists ==
    ASSUME NEW n \in Nat
    PROVE  \E f : Doubling(n, f)
<1> DEFINE C == {i \in Nat : ~\E f : Doubling(i, f)}
<1> SUFFICES ASSUME C # {} PROVE FALSE
    OBVIOUS
<1>1. PICK i \in C : \A j \in C : i <= j
  <2>1. C \subseteq Nat
        OBVIOUS
  <2> HIDE DEF C
  <2> QED
      BY <2>1, SmallestNumber
<1>2. i \in Nat /\ ~\E f : Doubling(i, f)
      OBVIOUS
<1>3. i # 0
  <2> DEFINE f == [k \in 0..0 |-> 1]
  <2>1. f = [k \in 0..0 |-> IF k = 0 THEN 1 ELSE 2 * f[k - 1]]
        OBVIOUS
  <2> HIDE DEF f
  <2>2. Doubling(0, f)
        BY <2>1 DEF Doubling
  <2> QED
      BY <1>2, <2>2
<1>4. PICK f : Doubling(i - 1, f)
  <2>1. i - 1 \in Nat /\ ~(i <= i - 1)
        BY <1>2, <1>3
  <2> QED
      BY <1>1, <2>1
<1> DEFINE h == [k \in 0..i |-> IF k = i THEN 2 * f[i - 1] ELSE f[k]]
<1>5. ASSUME NEW k \in 0..i
      PROVE  h[k] = IF k = 0 THEN 1 ELSE 2 * h[k - 1]
  <2>1. \A l \in 0..(i - 1) : f[l] = IF l = 0 THEN 1 ELSE 2 * f[l - 1]
        BY <1>4 DEF Doubling
  <2>2. CASE k = i
    <3>1. k - 1 \in 0..i /\ k - 1 # i /\ k # 0
          BY <1>2, <1>3, <2>2
    <3> QED
        BY <2>2, <3>1
  <2>3. CASE k # i /\ k # 0
    <3>1. k \in 0..(i - 1) /\ k - 1 \in 0..i /\ k - 1 # i
          BY <1>2, <2>3
    <3> QED
        BY <2>1, <2>3, <3>1
  <2>4. CASE k # i /\ k = 0
    <3>1. k \in 0..(i - 1)
          BY <1>2, <2>4
    <3> QED
        BY <2>1, <2>4, <3>1
  <2> QED
      BY <2>2, <2>3, <2>4
<1>6. Doubling(i, h)
  <2>1. h = [k \in 0..i |-> h[k]]
        OBVIOUS
  <2> HIDE DEF h
  <2> QED
      BY <1>5, <2>1 DEF Doubling
<1> QED
    BY <1>2, <1>6

LEMMA Pow2Values ==
    /\ Pow2[0] = 1
    /\ \A k \in 0..Width : k # 0 => Pow2[k] = 2 * Pow2[k - 1]
<1>1. Pow2 = CHOOSE f : Doubling(Width, f)
      BY DEF Pow2, Doubling
<1>2. Doubling(Width, Pow2)
      BY <1>1, DoublingExists, WidthAssumption
<1>3. \A k \in 0..Width : Pow2[k] = IF k = 0 THEN 1 ELSE 2 * Pow2[k - 1]
      BY <1>2 DEF Doubling
<1>4. 0 \in 0..Width
      BY WidthAssumption
<1> QED
    BY <1>3, <1>4

LEMMA Pow2Type ==
    \A k \in 0..Width : Pow2[k] \in Nat /\ Pow2[k] > 0
<1> DEFINE Ok(k) == Pow2[k] \in Nat /\ Pow2[k] > 0
           C == {k \in 0..Width : ~Ok(k)}
<1> SUFFICES ASSUME C # {} PROVE FALSE
    OBVIOUS
<1>1. PICK k \in C : \A j \in C : k <= j
  <2>1. C \subseteq Nat
        BY WidthAssumption
  <2> HIDE DEF C
  <2> QED
      BY <2>1, SmallestNumber
<1>2. k \in 0..Width /\ ~Ok(k)
      OBVIOUS
<1>3. k # 0
      BY <1>2, Pow2Values
<1>4. k - 1 \in 0..Width /\ ~(k <= k - 1)
      BY <1>2, <1>3, WidthAssumption
<1>5. Ok(k - 1)
      BY <1>1, <1>4
<1>6. Pow2[k] = 2 * Pow2[k - 1]
      BY <1>2, <1>3, Pow2Values
<1> QED
    BY <1>2, <1>5, <1>6

LEMMA SpaceType == Width \in Nat /\ Space \in Nat /\ Space > 0
BY WidthAssumption, Pow2Type DEF Space

-----------------------------------------------------------------------------
(* Blocks *)

LEMMA DivisionOfInt ==
    ASSUME NEW a \in Int, NEW c \in Int, c > 0
    PROVE  a = c * (a \div c) + (a % c)
OBVIOUS

LEMMA Division ==
    ASSUME NEW a \in Nat, NEW c \in Nat, c > 0
    PROVE  a \div c \in Nat /\ a % c \in Nat /\ a % c < c /\ a = c * (a \div c) + (a % c)
<1>1. a \div c \in Nat
      OBVIOUS
<1>2. a % c \in Nat /\ a % c < c
      OBVIOUS
<1> QED
    BY <1>1, <1>2, DivisionOfInt

\* Two different aligned blocks of size c are the halves of one block only if they are
\* next to each other and the first one starts a block of twice the size.
LEMMA Halves ==
    ASSUME NEW s \in Nat, NEW t \in Nat, NEW c \in Nat, c > 0,
           s % c = 0, t % c = 0, s < t, s \div (2 * c) = t \div (2 * c)
    PROVE  t = s + c /\ s % (2 * c) = 0
<1>1. PICK x \in Nat : s = c * x
  <2>1. s = c * (s \div c) /\ s \div c \in Nat
        BY Division
  <2> QED
      BY <2>1
<1>2. PICK y \in Nat : t = c * y
  <2>1. t = c * (t \div c) /\ t \div c \in Nat
        BY Division
  <2> QED
      BY <2>1
<1>3. 2 * c \in Nat /\ 2 * c > 0
      OBVIOUS
<1> DEFINE m == s \div (2 * c)
           r == s % (2 * c)
           q == t % (2 * c)
<1>4. /\ m \in Nat /\ r \in Nat /\ q \in Nat /\ r < 2 * c /\ q < 2 * c
      /\ s = (2 * c) * m + r /\ t = (2 * c) * m + q
  <2>1. m \in Nat /\ r \in Nat /\ r < 2 * c /\ s = (2 * c) * m + r
        BY <1>3, Division
  <2>2. q \in Nat /\ q < 2 * c /\ t = (2 * c) * (t \div (2 * c)) + q
        BY <1>3, Division
  <2> QED
      BY <2>1, <2>2
<1> HIDE DEF m, r, q
<1>5. r = c * (x - 2 * m) /\ q = c * (y - 2 * m)
      BY <1>1, <1>2, <1>4
<1>6. x - 2 * m \in {0, 1} /\ y - 2 * m \in {0, 1}
  <2>1. ASSUME NEW z \in Int, NEW w \in Nat, w = c * z, w < 2 * c
        PROVE  z \in {0, 1}
    <3>1. z < 2
      <4>1. z >= 2 => c * z >= c * 2
            OBVIOUS
      <4> QED
          BY <2>1, <4>1
    <3>2. z >= 0
      <4>1. z < 0 => c * z < 0
            OBVIOUS
      <4> QED
          BY <2>1, <4>1
    <3> QED
        BY <3>1, <3>2
  <2>2. x - 2 * m \in Int /\ y - 2 * m \in Int
        BY <1>4
  <2> QED
      BY <1>4, <1>5, <2>1, <2>2
<1>7. x < y
  <2>1. y <= x => c * y <= c * x
        OBVIOUS
  <2> QED
      BY <1>1, <1>2, <2>1
<1>8. x = 2 * m /\ y = 2 * m + 1
      BY <1>4, <1>6, <1>7
<1>9. r = 0
      BY <1>4, <1>5, <1>8
<1>10. t = s + c
      BY <1>1, <1>2, <1>4, <1>8
<1> QED
    BY <1>9, <1>10 DEF r

-----------------------------------------------------------------------------
(* The split of a range *)

\* The exponents of the blocks that may start at s and end by e.
Fits(s, e) == {k \in 0..Width : s % Pow2[k] = 0 /\ Pow2[k] <= e - s + 1}

LEMMA BlockBitsIs ==
    ASSUME NEW s \in Nat, NEW e \in Nat, s <= e
    PROVE  /\ BlockBits(s, e) \in Fits(s, e)
           /\ \A k \in Fits(s, e) : k <= BlockBits(s, e)
<1>1. 0 \in Fits(s, e)
  <2>1. 0 \in 0..Width /\ s % 1 = 0 /\ 1 <= e - s + 1
        BY WidthAssumption
  <2> QED
      BY <2>1, Pow2Values DEF Fits
<1>2. IsFiniteSet(Fits(s, e)) /\ Fits(s, e) \subseteq Int
  <2>1. IsFiniteSet(0..Width)
        BY WidthAssumption, FS_Interval
  <2>2. Fits(s, e) \in SUBSET (0..Width)
        BY DEF Fits
  <2>3. IsFiniteSet(Fits(s, e))
        BY ONLY <2>1, <2>2, FS_Subset
  <2> QED
      BY <2>2, <2>3
<1>3. BlockBits(s, e) = Max(Fits(s, e))
      BY DEF BlockBits, Fits
<1>4. Fits(s, e) # {}
      BY <1>1
<1> QED
    BY <1>2, <1>3, <1>4, MaxOfFinite

\* The block that starts at s, and where the next one starts.
BlockAt(s, e) == [addr |-> s, bits |-> Width - BlockBits(s, e)]
After(s, e) == s + Pow2[BlockBits(s, e)]

LEMMA AfterType ==
    ASSUME NEW e \in Addrs, NEW s \in 0..Space, s <= e
    PROVE  /\ After(s, e) \in 0..Space /\ s < After(s, e) /\ After(s, e) <= e + 1
           /\ s \in Nat /\ e \in Nat /\ e < Space /\ s # Space
<1>1. s \in Nat /\ e \in Nat /\ e < Space /\ Space \in Nat
      BY SpaceType DEF Addrs
<1>2. BlockBits(s, e) \in 0..Width /\ Pow2[BlockBits(s, e)] <= e - s + 1
      BY <1>1, BlockBitsIs DEF Fits
<1>3. Pow2[BlockBits(s, e)] \in Nat /\ Pow2[BlockBits(s, e)] > 0
      BY <1>2, Pow2Type
<1> QED
    BY <1>1, <1>2, <1>3 DEF After

\* The function that RangeToCIDRs computes.
Split(e, g) ==
    g = [s \in 0..Space |-> IF s > e THEN {} ELSE {BlockAt(s, e)} \cup g[After(s, e)]]

\* The starts of the blocks of s..e: what every set has that has s and goes on.
SplitsOn(e, C) == \A u \in C : u <= e => After(u, e) \in C
Starts(s, e) == {t \in s..e : \A C \in SUBSET (0..Space) : s \in C /\ SplitsOn(e, C) => t \in C}

LEMMA StartsStep ==
    ASSUME NEW e \in Addrs, NEW s \in 0..Space, s <= e
    PROVE  Starts(s, e) = {s} \cup Starts(After(s, e), e)
<1> DEFINE n == After(s, e)
<1>1. n \in 0..Space /\ s < n /\ n <= e + 1 /\ s \in Nat /\ e \in Nat /\ e < Space
      BY AfterType
<1>2. s \in Starts(s, e)
      BY <1>1 DEF Starts
<1>3. ASSUME NEW t \in Starts(n, e)
      PROVE  t \in Starts(s, e)
  <2>1. t \in n..e /\ t \in s..e
        BY <1>1, <1>3 DEF Starts
  <2>2. ASSUME NEW C \in SUBSET (0..Space), s \in C, SplitsOn(e, C)
        PROVE  t \in C
    <3>1. n \in C
          BY <2>2 DEF SplitsOn
    <3> QED
        BY <1>3, <2>2, <3>1 DEF Starts
  <2> QED
      BY <2>1, <2>2 DEF Starts
<1>4. ASSUME NEW t \in Starts(s, e), t # s
      PROVE  t \in Starts(n, e)
  <2>1. t \in s..e
        BY <1>4 DEF Starts
  <2>2. ASSUME NEW C \in SUBSET (0..Space), n \in C, SplitsOn(e, C)
        PROVE  t \in C
    <3> DEFINE B == C \cup {s}
    <3>1. B \in SUBSET (0..Space) /\ s \in B
          OBVIOUS
    <3>2. SplitsOn(e, B)
          BY <2>2 DEF SplitsOn
    <3>3. t \in B
      <4> HIDE DEF B
      <4> QED
          BY <3>1, <3>2 DEF Starts
    <3> QED
        BY <1>4, <3>3
  <2>3. t \in n..e
    <3> DEFINE B == (n..Space) \cup {s}
    <3>1. B \in SUBSET (0..Space) /\ s \in B
          BY <1>1, SpaceType
    <3>2. ASSUME NEW u \in B, u <= e
          PROVE  After(u, e) \in B
      <4>1. CASE u = s
            BY <1>1, <4>1, SpaceType
      <4>2. CASE u # s
        <5>1. u \in n..Space /\ u \in 0..Space
              BY <1>1, <4>2, SpaceType
        <5>2. After(u, e) \in 0..Space /\ u < After(u, e)
              BY <3>2, <5>1, AfterType
        <5> QED
            BY <1>1, <5>1, <5>2, SpaceType
      <4> QED
          BY <4>1, <4>2
    <3>3. t \in B
      <4>1. SplitsOn(e, B)
        <5> HIDE DEF B
        <5> QED
            BY <3>2 DEF SplitsOn
      <4> HIDE DEF B
      <4> QED
          BY <3>1, <4>1 DEF Starts
    <3> QED
        BY <1>4, <2>1, <3>3
  <2> QED
      BY <2>2, <2>3 DEF Starts
<1> QED
    BY <1>2, <1>3, <1>4

LEMMA SplitExists ==
    ASSUME NEW e \in Addrs
    PROVE  \E g : Split(e, g)
<1> DEFINE g == [s \in 0..Space |-> {BlockAt(t, e) : t \in Starts(s, e)}]
<1>1. ASSUME NEW s \in 0..Space
      PROVE  g[s] = IF s > e THEN {} ELSE {BlockAt(s, e)} \cup g[After(s, e)]
  <2>1. s \in Nat /\ e \in Nat
        BY SpaceType DEF Addrs
  <2>2. CASE s > e
    <3>1. Starts(s, e) = {}
          BY <2>1, <2>2 DEF Starts
    <3> QED
        BY <2>2, <3>1
  <2>3. CASE ~(s > e)
    <3>1. s <= e
          BY <2>1, <2>3
    <3>2. Starts(s, e) = {s} \cup Starts(After(s, e), e) /\ After(s, e) \in 0..Space
          BY <3>1, StartsStep, AfterType
    <3> QED
        BY <2>3, <3>2
  <2> QED
      BY <2>2, <2>3
<1>2. g = [s \in 0..Space |-> g[s]]
      OBVIOUS
<1> HIDE DEF g
<1>3. Split(e, g)
      BY <1>1, <1>2 DEF Split
<1> QED
    BY <1>3

LEMMA SplitIs ==
    ASSUME NEW e \in Addrs, NEW a
    PROVE  \E g : Split(e, g) /\ RangeToCIDRs(a, e) = g[a]
<1>1. RangeToCIDRs(a, e) = (CHOOSE g : Split(e, g))[a]
      BY DEF RangeToCIDRs, Split, BlockAt, After
<1>2. Split(e, CHOOSE g : Split(e, g))
      BY SplitExists
<1> QED
    BY <1>1, <1>2

-----------------------------------------------------------------------------
(* The split is the smallest cover of the range *)

IsBlock(p) == p.addr \in Nat /\ p.bits \in 0..Width /\ p.addr % Size(p) = 0
Siblings(p, q) ==
    p.bits = q.bits /\ p.addr \div (2 * Size(p)) = q.addr \div (2 * Size(q))
Apart(p, q) == Block(p) \cap Block(q) = {} /\ ~Siblings(p, q)

\* The blocks of S cover s..e as they should.
Covers(S, s, e) ==
    /\ \A p \in S : IsBlock(p)
    /\ UNION {Block(p) : p \in S} = s..e
    /\ \A p, q \in S : p # q => Apart(p, q)

LEMMA SizeType ==
    ASSUME NEW p, IsBlock(p)
    PROVE  Size(p) \in Nat /\ Size(p) > 0
<1>1. Width - p.bits \in 0..Width
      BY WidthAssumption DEF IsBlock
<1> QED
    BY <1>1, Pow2Type DEF Size

LEMMA BlockBounds ==
    ASSUME NEW S, NEW s, NEW e, Covers(S, s, e), s \in Int, e \in Int, NEW p \in S
    PROVE  s <= p.addr /\ p.addr + Size(p) <= e + 1
<1>1. p.addr \in Nat /\ Size(p) \in Nat /\ Size(p) > 0
      BY SizeType DEF Covers, IsBlock
<1>2. Block(p) \subseteq s..e
      BY DEF Covers
<1>3. p.addr \in Block(p) /\ p.addr + Size(p) - 1 \in Block(p)
      BY <1>1 DEF Block
<1>4. p.addr \in s..e /\ p.addr + Size(p) - 1 \in s..e
      BY <1>2, <1>3
<1> QED
    BY <1>1, <1>4

\* Siblings touch each other.
LEMMA SiblingsTouch ==
    ASSUME NEW p, NEW q, IsBlock(p), IsBlock(q), Siblings(p, q), p.addr < q.addr
    PROVE  q.addr = p.addr + Size(p) /\ p.addr % (2 * Size(p)) = 0 /\ Size(q) = Size(p)
<1>1. Size(q) = Size(p)
      BY DEF Siblings, Size
<1>2. p.addr \in Nat /\ q.addr \in Nat /\ Size(p) \in Nat /\ Size(p) > 0
      BY SizeType DEF IsBlock
<1>3. p.addr % Size(p) = 0 /\ q.addr % Size(p) = 0
      BY <1>1 DEF IsBlock
<1>4. p.addr \div (2 * Size(p)) = q.addr \div (2 * Size(p))
      BY <1>1 DEF Siblings
<1>5. \A c \in Nat : c = Size(p) =>
         q.addr = p.addr + c /\ p.addr % (2 * c) = 0
  <2> SUFFICES ASSUME NEW c \in Nat, c = Size(p)
               PROVE  q.addr = p.addr + c /\ p.addr % (2 * c) = 0
      OBVIOUS
  <2> QED
      BY <1>2, <1>3, <1>4, Halves
<1> QED
    BY <1>1, <1>2, <1>5

\* The first block: as large as it can be, so it has no sibling further on.
LEMMA FirstBlock ==
    ASSUME NEW e \in Addrs, NEW s \in 0..Space, s <= e
    PROVE  LET p == BlockAt(s, e) IN
           /\ IsBlock(p) /\ p.addr = s /\ s + Size(p) = After(s, e)
           /\ Block(p) = s..(After(s, e) - 1)
           /\ \A q : IsBlock(q) /\ q.addr > s /\ q.addr + Size(q) <= e + 1 => ~Siblings(p, q)
<1> DEFINE k == BlockBits(s, e)
           p == BlockAt(s, e)
<1>1. /\ After(s, e) \in 0..Space /\ s < After(s, e) /\ After(s, e) <= e + 1
      /\ s \in Nat /\ e \in Nat /\ e < Space
      BY AfterType
<1>2. k \in Fits(s, e) /\ \A j \in Fits(s, e) : j <= k
      BY <1>1, BlockBitsIs
<1>3. k \in 0..Width /\ s % Pow2[k] = 0
      BY <1>2 DEF Fits
<1> HIDE DEF k
<1>4. p.addr = s /\ p.bits = Width - k /\ p.bits \in 0..Width /\ Width - p.bits = k
  <2>1. p.addr = s /\ p.bits = Width - k
        BY DEF BlockAt, k
  <2> QED
      BY <1>3, <2>1, WidthAssumption
<1>5. Size(p) = Pow2[k]
      BY <1>4 DEF Size
<1>6. IsBlock(p)
      BY <1>1, <1>3, <1>4, <1>5 DEF IsBlock
<1>7. s + Size(p) = After(s, e)
      BY <1>5 DEF After, k
<1>8. Block(p) = s..(After(s, e) - 1)
  <2>1. Block(p) = p.addr..(p.addr + Size(p) - 1)
        BY DEF Block
  <2>2. p.addr + Size(p) - 1 = After(s, e) - 1
    <3>1. Size(p) \in Nat /\ After(s, e) \in Nat /\ p.addr = s
          BY <1>1, <1>4, <1>6, SizeType
    <3> HIDE DEF p
    <3> QED
        BY <1>1, <1>7, <3>1
  <2> HIDE DEF p
  <2> QED
      BY <1>4, <2>1, <2>2
<1> HIDE DEF p
<1>9. ASSUME NEW q, IsBlock(q), q.addr > s, q.addr + Size(q) <= e + 1, Siblings(p, q)
      PROVE  FALSE
  <2>1. q.addr = s + Size(p) /\ s % (2 * Size(p)) = 0 /\ Size(q) = Size(p)
    <3>1. q.addr \in Nat /\ p.addr < q.addr
          BY <1>1, <1>4, <1>9 DEF IsBlock
    <3> QED
        BY <1>4, <1>6, <1>9, <3>1, SiblingsTouch
  <2>2. Size(p) \in Nat /\ Size(p) > 0
        BY <1>6, SizeType
  <2>3. 2 * Size(p) <= e - s + 1
        BY <1>1, <1>9, <2>1, <2>2
  <2>4. k # Width
    <3>1. k = Width => Size(p) = Space
          BY <1>5 DEF Space
    <3> QED
        BY <1>1, <2>2, <2>3, <3>1, SpaceType
  <2>5. k + 1 \in 0..Width /\ Pow2[k + 1] = 2 * Size(p)
    <3>1. k + 1 \in 0..Width /\ k + 1 # 0 /\ (k + 1) - 1 = k
          BY <1>3, <2>4, WidthAssumption
    <3>2. Pow2[k + 1] = 2 * Pow2[(k + 1) - 1]
          BY <3>1, Pow2Values
    <3> QED
        BY <1>5, <3>1, <3>2
  <2>6. k + 1 \in Fits(s, e)
        BY <2>1, <2>3, <2>5 DEF Fits
  <2> QED
      BY <1>2, <1>3, <2>6
<1> QED
    BY <1>4, <1>6, <1>7, <1>8, <1>9 DEF p

LEMMA NoBlocks ==
    ASSUME NEW s \in Nat, NEW e \in Nat, s > e
    PROVE  Covers({}, s, e)
BY DEF Covers

\* A block in front of the cover of the rest.
LEMMA OneMoreBlock ==
    ASSUME NEW e \in Addrs, NEW s \in 0..Space, s <= e,
           NEW S, Covers(S, After(s, e), e)
    PROVE  Covers({BlockAt(s, e)} \cup S, s, e)
<1> DEFINE p == BlockAt(s, e)
           n == After(s, e)
<1>1. n \in Nat /\ s < n /\ n <= e + 1 /\ s \in Nat /\ e \in Nat
      BY AfterType, SpaceType
<1>2. IsBlock(p) /\ p.addr = s /\ s + Size(p) = n /\ Block(p) = s..(n - 1)
      BY FirstBlock
<1>3. \A q \in S : n <= q.addr /\ q.addr + Size(q) <= e + 1
      BY <1>1, BlockBounds
<1>4. ASSUME NEW q \in S
      PROVE  Apart(p, q) /\ Apart(q, p)
  <2>1. IsBlock(q) /\ q.addr \in Nat /\ q.addr > s /\ q.addr + Size(q) <= e + 1
        BY <1>1, <1>3 DEF Covers, IsBlock
  <2>2. ~Siblings(p, q)
        BY <2>1, FirstBlock
  <2>3. ~Siblings(q, p)
        BY <2>2 DEF Siblings, Size
  <2>4. Block(q) \subseteq n..e
        BY DEF Covers
  <2>5. Block(p) \cap Block(q) = {}
        BY <1>1, <1>2, <2>4
  <2> QED
      BY <2>2, <2>3, <2>5 DEF Apart
<1> HIDE DEF p, n
<1>5. UNION {Block(q) : q \in {p} \cup S} = s..e
  <2>1. UNION {Block(q) : q \in S} = n..e
        BY DEF Covers, n
  <2>2. UNION {Block(q) : q \in {p} \cup S} = Block(p) \cup UNION {Block(q) : q \in S}
        OBVIOUS
  <2>3. s..e = (s..(n - 1)) \cup (n..e)
        BY <1>1
  <2> QED
      BY <1>2, <2>1, <2>2, <2>3
<1>6. \A q \in {p} \cup S : IsBlock(q)
      BY <1>2 DEF Covers
<1>7. \A q, r \in {p} \cup S : q # r => Apart(q, r)
      BY <1>4 DEF Covers
<1> QED
    BY <1>5, <1>6, <1>7 DEF Covers, p

\* Induction over the number of addresses left.
LEMMA SplitCovers ==
    ASSUME NEW e \in Addrs, NEW g, Split(e, g)
    PROVE  \A s \in 0..Space : s <= e + 1 => Covers(g[s], s, e)
<1> DEFINE C == {n \in Nat : \E s \in 0..Space : s + n = e + 1 /\ ~Covers(g[s], s, e)}
<1>1. e \in Nat /\ e < Space /\ Space \in Nat
      BY SpaceType DEF Addrs
<1>2. \A s \in 0..Space :
         g[s] = IF s > e THEN {} ELSE {BlockAt(s, e)} \cup g[After(s, e)]
      BY DEF Split
<1>3. ASSUME C # {} PROVE FALSE
  <2>1. PICK n \in C : \A m \in C : n <= m
    <3>1. C \subseteq Nat
          OBVIOUS
    <3> HIDE DEF C
    <3> QED
        BY <1>3, <3>1, SmallestNumber
  <2>2. PICK s \in 0..Space : s + n = e + 1 /\ ~Covers(g[s], s, e)
        OBVIOUS
  <2>3. n \in Nat /\ s \in Nat
        BY <1>1
  <2>4. CASE s > e
    <3>1. g[s] = {}
          BY <1>2, <2>4
    <3> QED
        BY <1>1, <2>2, <2>3, <2>4, <3>1, NoBlocks
  <2>5. CASE ~(s > e)
    <3> DEFINE a == After(s, e)
    <3>1. s <= e
          BY <1>1, <2>3, <2>5
    <3>2. a \in 0..Space /\ s < a /\ a <= e + 1
          BY <3>1, AfterType
    <3>3. g[s] = {BlockAt(s, e)} \cup g[a]
          BY <1>2, <2>5
    <3>4. Covers(g[a], a, e)
      <4>1. SUFFICES ASSUME ~Covers(g[a], a, e) PROVE FALSE
            OBVIOUS
      <4> HIDE DEF a
      <4>2. e + 1 - a \in Nat /\ a + (e + 1 - a) = e + 1 /\ ~(n <= e + 1 - a)
            BY <1>1, <2>2, <2>3, <3>2
      <4>3. e + 1 - a \in C
            BY <3>2, <4>1, <4>2
      <4> QED
          BY <2>1, <4>2, <4>3
    <3>5. Covers(g[s], s, e)
      <4>1. \A S : S = g[a] => Covers({BlockAt(s, e)} \cup S, s, e)
            BY <3>1, <3>4, OneMoreBlock
      <4> QED
          BY <3>3, <4>1
    <3> QED
        BY <2>2, <3>5
  <2> QED
      BY <2>4, <2>5
<1>4. ASSUME NEW s \in 0..Space, s <= e + 1
      PROVE  Covers(g[s], s, e)
  <2>1. e + 1 - s \in Nat /\ s + (e + 1 - s) = e + 1
        BY <1>1, <1>4
  <2> QED
      BY <1>3, <2>1
<1> QED
    BY <1>4

\* rangeToCIDRs is exact, its blocks are as few as they can be.
LEMMA RangeCovers ==
    ASSUME NEW e \in Addrs, NEW s \in Addrs, s <= e
    PROVE  Covers(RangeToCIDRs(s, e), s, e)
<1>1. s \in 0..Space /\ s <= e + 1
      BY SpaceType DEF Addrs
<1>2. PICK g : Split(e, g) /\ RangeToCIDRs(s, e) = g[s]
      BY SplitIs
<1> QED
    BY <1>1, <1>2, SplitCovers

-----------------------------------------------------------------------------
(* Merging the ranges *)

Ranges == {r \in [start: Addrs, end: Addrs] : r.start <= r.end}
RangesOf(db) == {[start |-> e.start, end |-> e.end] : e \in db}
ByStart(s) == IsInjective(s) /\ \A i, j \in DOMAIN s : i < j => s[i].start <= s[j].start

\* What is done with one range, and the function that the fold in Merged computes.
MergeOne(done, r) ==
    IF done # <<>> /\ Merges(Last(done), r)
    THEN Front(done) \o <<[Last(done) EXCEPT !.end = Max({@, r.end})]>>
    ELSE Append(done, r)
Merging(ranges, g) ==
    g = [s \in SUBSET DOMAIN ranges |->
           IF s = {} THEN <<>> ELSE MergeOne(g[s \ {Max(s)}], ranges[Max(s)])]

\* The addresses of a sequence of ranges, and a free address between any two of them.
SpanOf(s) == UNION {Span(s[i]) : i \in DOMAIN s}
Gaps(s) == \A i, j \in DOMAIN s : i < j => s[i].end + 1 < s[j].start

LEMMA RangeType ==
    ASSUME NEW r \in Ranges
    PROVE  /\ r.start \in Nat /\ r.end \in Nat /\ r.start <= r.end /\ r.end < Space
           /\ r.start \in Addrs /\ r.end \in Addrs
           /\ r = [start |-> r.start, end |-> r.end]
<1>1. r \in [start: Addrs, end: Addrs] /\ r.start <= r.end
      BY DEF Ranges
<1>2. r.start \in Addrs /\ r.end \in Addrs /\ r = [start |-> r.start, end |-> r.end]
      BY <1>1
<1> QED
    BY <1>1, <1>2, SpaceType DEF Addrs

LEMMA MaxOfPair ==
    ASSUME NEW a \in Int, NEW b \in Int
    PROVE  Max({a, b}) = IF a <= b THEN b ELSE a
BY DEF Max

LEMMA FrontIs ==
    ASSUME NEW S, NEW s \in Seq(S), NEW n, n = Len(s), n > 0
    PROVE  LET front == SubSeq(s, 1, n - 1) IN
           front \in Seq(S) /\ Len(front) = n - 1 /\ \A i \in 1..(n - 1) : front[i] = s[i]
OBVIOUS

\* The range takes its place at the end, or its end counts for the last range.
LEMMA MergeOneMeans ==
    ASSUME NEW done \in Seq(Ranges), NEW r \in Ranges
    PROVE  LET m == MergeOne(done, r)
               n == Len(done)
           IN /\ m \in Seq(Ranges) /\ m # <<>>
              /\ \/ /\ n > 0 /\ Merges(done[n], r) /\ Len(m) = n
                    /\ m[n].start = done[n].start
                    /\ m[n].end = IF done[n].end <= r.end THEN r.end ELSE done[n].end
                    /\ \A i \in 1..(n - 1) : m[i] = done[i]
                 \/ /\ n > 0 => ~Merges(done[n], r)
                    /\ Len(m) = n + 1 /\ m[n + 1] = r
                    /\ \A i \in 1..n : m[i] = done[i]
<1> DEFINE m == MergeOne(done, r)
           n == Len(done)
<1>1. n \in Nat /\ (done # <<>> <=> n > 0)
      OBVIOUS
<1>2. CASE ~(done # <<>> /\ Merges(Last(done), r))
  <2>1. m = Append(done, r)
        BY <1>2 DEF MergeOne
  <2>2. n > 0 => ~Merges(done[n], r)
        BY <1>1, <1>2 DEF Last
  <2>3. /\ Append(done, r) \in Seq(Ranges) /\ Append(done, r) # <<>>
        /\ Len(Append(done, r)) = n + 1 /\ Append(done, r)[n + 1] = r
        /\ \A i \in 1..n : Append(done, r)[i] = done[i]
        OBVIOUS
  <2> HIDE DEF m, n
  <2> QED
      BY <2>1, <2>2, <2>3 DEF m, n
<1>3. CASE done # <<>> /\ Merges(Last(done), r)
  <2> DEFINE last == done[n]
             new == [start |-> last.start,
                     end |-> IF last.end <= r.end THEN r.end ELSE last.end]
             front == SubSeq(done, 1, n - 1)
  <2>1. n > 0 /\ Merges(last, r) /\ last \in Ranges
        BY <1>1, <1>3 DEF Last
  <2>2. last.end \in Int /\ r.end \in Int
        BY <2>1, RangeType
  <2>3. [last EXCEPT !.end = Max({last.end, r.end})] = new
    <3>1. last = [start |-> last.start, end |-> last.end]
          BY <2>1, RangeType
    <3>2. Max({last.end, r.end}) = IF last.end <= r.end THEN r.end ELSE last.end
          BY <2>2, MaxOfPair
    <3> HIDE DEF last
    <3> QED
        BY <3>1, <3>2
  <2>4. new \in Ranges
    <3>1. /\ last.start \in Addrs /\ last.end \in Addrs /\ r.end \in Addrs
          /\ last.start <= last.end /\ last.start \in Nat /\ last.end \in Nat /\ r.end \in Nat
          BY <2>1, RangeType
    <3> HIDE DEF last
    <3> QED
        BY <3>1 DEF Ranges
  <2>5. m = front \o <<new>>
        BY <1>3, <2>3 DEF MergeOne, Last, Front
  <2>6. front \in Seq(Ranges) /\ Len(front) = n - 1 /\ \A i \in 1..(n - 1) : front[i] = done[i]
    <3>1. n = Len(done) /\ n > 0
          BY <2>1
    <3> HIDE DEF n, m
    <3> QED
        BY <3>1, FrontIs
  <2> HIDE DEF m, front, new
  <2>7. /\ m \in Seq(Ranges) /\ Len(m) = n /\ m[n] = new
        /\ \A i \in 1..(n - 1) : m[i] = front[i]
        BY <1>1, <2>1, <2>4, <2>5, <2>6
  <2>8. new.start = last.start /\ new.end = IF last.end <= r.end THEN r.end ELSE last.end
        BY DEF new
  <2>9. m # <<>>
        BY <1>1, <2>1, <2>7
  <2> HIDE DEF n
  <2> QED
      BY <2>1, <2>6, <2>7, <2>8, <2>9 DEF m, n
<1> QED
    BY <1>2, <1>3

LEMMA SpansAdd ==
    ASSUME NEW s, NEW A, NEW x
    PROVE  UNION {Span(s[i]) : i \in A \cup {x}} =
               (UNION {Span(s[i]) : i \in A}) \cup Span(s[x])
<1> DEFINE R == {Span(s[i]) : i \in A}
           S == {Span(s[i]) : i \in A \cup {x}}
           b == Span(s[x])
<1>1. S = R \cup {b}
      BY Zenon
<1> HIDE DEF R, S, b
<1>2. UNION (R \cup {b}) = (UNION R) \cup b
      OBVIOUS
<1> QED
    BY <1>1, <1>2 DEF R, S, b

LEMMA JoinIntervals ==
    ASSUME NEW a \in Int, NEW b \in Int, NEW c \in Int, NEW d \in Int, NEW m,
           a <= b, c <= d, a <= c, c <= b + 1, m = IF b <= d THEN d ELSE b
    PROVE  a..m = (a..b) \cup (c..d)
OBVIOUS

\* What holds of the ranges merged so far holds with one more that starts no earlier.
LEMMA MergeKeeps ==
    ASSUME NEW done \in Seq(Ranges), Gaps(done), NEW r \in Ranges,
           done # <<>> => done[Len(done)].start <= r.start
    PROVE  LET m == MergeOne(done, r) IN
           /\ m \in Seq(Ranges) /\ m # <<>> /\ m[Len(m)].start <= r.start
           /\ Gaps(m) /\ SpanOf(m) = SpanOf(done) \cup Span(r)
<1> DEFINE m == MergeOne(done, r)
           n == Len(done)
<1>1. /\ m \in Seq(Ranges) /\ m # <<>>
      /\ \/ /\ n > 0 /\ Merges(done[n], r) /\ Len(m) = n
            /\ m[n].start = done[n].start
            /\ m[n].end = IF done[n].end <= r.end THEN r.end ELSE done[n].end
            /\ \A i \in 1..(n - 1) : m[i] = done[i]
         \/ /\ n > 0 => ~Merges(done[n], r)
            /\ Len(m) = n + 1 /\ m[n + 1] = r
            /\ \A i \in 1..n : m[i] = done[i]
      BY MergeOneMeans
<1>2. n \in Nat /\ DOMAIN done = 1..n /\ DOMAIN m = 1..Len(m) /\ (done # <<>> <=> n > 0)
      BY <1>1
<1>3. \A i \in 1..n : done[i] \in Ranges
      OBVIOUS
<1> HIDE DEF m, n
<1>4. \A i \in 1..n : /\ done[i].start \in Nat /\ done[i].end \in Nat
                      /\ done[i].start <= done[i].end /\ done[i].end < Space
      BY <1>3, RangeType
<1>5. /\ r.start \in Nat /\ r.end \in Nat /\ r.start <= r.end /\ r.end < Space
      /\ Space \in Nat
      BY RangeType, SpaceType
<1>6. n > 0 => n \in 1..n /\ done[n].start <= r.start
      BY <1>2 DEF n
<1>7. \A i, j \in 1..n : i < j => done[i].end + 1 < done[j].start
      BY <1>2 DEF Gaps
<1>8. CASE /\ n > 0 /\ Merges(done[n], r) /\ Len(m) = n
           /\ m[n].start = done[n].start
           /\ m[n].end = IF done[n].end <= r.end THEN r.end ELSE done[n].end
           /\ \A i \in 1..(n - 1) : m[i] = done[i]
  <2>1. \A i \in 1..n : i < n => i \in 1..(n - 1)
        BY <1>2
  <2>2. Gaps(m)
    <3> SUFFICES ASSUME NEW i \in 1..n, NEW j \in 1..n, i < j
                 PROVE  m[i].end + 1 < m[j].start
        BY <1>2, <1>8 DEF Gaps
    <3>1. i < n /\ m[i] = done[i]
          BY <1>2, <1>8, <2>1
    <3>2. m[j].start = done[j].start
      <4>1. j < n \/ j = n
            BY <1>2
      <4> QED
          BY <1>8, <2>1, <4>1
    <3> QED
        BY <1>7, <3>1, <3>2
  <2>3. m[Len(m)].start <= r.start
        BY <1>6, <1>8
  <2>4. Span(m[n]) = Span(done[n]) \cup Span(r)
    <3>1. r.start <= done[n].end + 1
          BY <1>4, <1>5, <1>6, <1>8 DEF Merges
    <3>2. /\ done[n].start \in Nat /\ done[n].end \in Nat
          /\ done[n].start <= done[n].end /\ done[n].start <= r.start
          BY <1>4, <1>6, <1>8
    <3>3. Span(m[n]) = done[n].start..m[n].end
          BY <1>8 DEF Span
    <3>4. m[n].end = IF done[n].end <= r.end THEN r.end ELSE done[n].end
          BY <1>8
    <3>5. done[n].start..m[n].end = (done[n].start..done[n].end) \cup (r.start..r.end)
      <4>1. PICK a, b, c, d, e : /\ a = done[n].start /\ b = done[n].end
                                 /\ c = r.start /\ d = r.end /\ e = m[n].end
            OBVIOUS
      <4>2. /\ a \in Int /\ b \in Int /\ c \in Int /\ d \in Int
            /\ a <= b /\ c <= d /\ a <= c /\ c <= b + 1 /\ e = IF b <= d THEN d ELSE b
            BY <1>5, <3>1, <3>2, <3>4, <4>1
      <4>3. a..e = (a..b) \cup (c..d)
            BY ONLY <4>2, JoinIntervals
      <4> QED
          BY <4>1, <4>3
    <3> QED
        BY <3>3, <3>5 DEF Span
  <2>5. SpanOf(m) = SpanOf(done) \cup Span(r)
    <3>1. \A i \in 1..n : i # n => Span(m[i]) = Span(done[i])
      <4>1. \A i \in 1..n : i # n => i < n
            BY <1>2
      <4> QED
          BY <1>8, <2>1, <4>1
    <3>2. SpanOf(m) = UNION {Span(m[i]) : i \in 1..n}
          /\ SpanOf(done) = UNION {Span(done[i]) : i \in 1..n}
          BY <1>2, <1>8 DEF SpanOf
    <3>3. n \in 1..n
          BY <1>6, <1>8
    <3> QED
        BY <2>4, <3>1, <3>2, <3>3
  <2> QED
      BY <1>1, <2>2, <2>3, <2>5 DEF m
<1>9. CASE /\ n > 0 => ~Merges(done[n], r)
           /\ Len(m) = n + 1 /\ m[n + 1] = r
           /\ \A i \in 1..n : m[i] = done[i]
  <2>1. \A i \in 1..(n + 1) : i # n + 1 => i \in 1..n
        BY <1>2
  <2>2. ASSUME n > 0 PROVE done[n].end + 1 < r.start
    <3>1. ~(r.start <= done[n].end) /\ ~(done[n].end # Space - 1 /\ r.start = done[n].end + 1)
          BY <1>9, <2>2 DEF Merges
    <3> QED
        BY <1>4, <1>5, <1>6, <2>2, <3>1
  <2>3. Gaps(m)
    <3> SUFFICES ASSUME NEW i \in 1..(n + 1), NEW j \in 1..(n + 1), i < j
                 PROVE  m[i].end + 1 < m[j].start
        BY <1>2, <1>9 DEF Gaps
    <3>1. i \in 1..n /\ m[i] = done[i] /\ n > 0
          BY <1>2, <1>9, <2>1
    <3>2. CASE j \in 1..n
          BY <1>7, <1>9, <3>1, <3>2
    <3>3. CASE j = n + 1
      <4>1. done[i].end + 1 < r.start
        <5>1. CASE i = n
              BY <2>2, <3>1, <5>1
        <5>2. CASE i # n
          <6>1. n \in 1..n /\ i < n
                BY <1>2, <3>1, <5>2
          <6>2. done[i].end + 1 < done[n].start
                BY <1>7, <3>1, <6>1
          <6>3. /\ done[n].start \in Nat /\ done[n].end \in Nat /\ done[i].end \in Nat
                /\ done[n].start <= done[n].end
                BY <1>4, <3>1, <6>1
          <6>4. done[n].end + 1 < r.start /\ r.start \in Nat
                BY <1>5, <2>2, <3>1
          <6>5. PICK a, b, c, d : /\ a = done[i].end /\ b = done[n].start
                                  /\ c = done[n].end /\ d = r.start
                OBVIOUS
          <6>6. /\ a \in Int /\ b \in Int /\ c \in Int /\ d \in Int
                /\ a + 1 < b /\ b <= c /\ c + 1 < d
                BY <6>2, <6>3, <6>4, <6>5
          <6>7. a + 1 < d
                BY ONLY <6>6
          <6> QED
              BY <6>5, <6>7
        <5> QED
            BY <5>1, <5>2
      <4> QED
          BY <1>9, <3>1, <3>3, <4>1
    <3> QED
        BY <2>1, <3>2, <3>3
  <2>4. SpanOf(m) = SpanOf(done) \cup Span(r)
    <3>1. SpanOf(m) = UNION {Span(m[i]) : i \in 1..(n + 1)}
          /\ SpanOf(done) = UNION {Span(done[i]) : i \in 1..n}
          BY <1>2, <1>9 DEF SpanOf
    <3>2. 1..(n + 1) = (1..n) \cup {n + 1}
          BY <1>2
    <3>3. UNION {Span(m[i]) : i \in (1..n) \cup {n + 1}} =
              (UNION {Span(m[i]) : i \in 1..n}) \cup Span(m[n + 1])
          BY SpansAdd
    <3>4. \A i \in 1..n : Span(m[i]) = Span(done[i])
          BY <1>9
    <3> QED
        BY <1>9, <3>1, <3>2, <3>3, <3>4
  <2>5. m[Len(m)].start <= r.start
        BY <1>5, <1>9
  <2> QED
      BY <1>1, <2>3, <2>4, <2>5 DEF m
<1> QED
    BY <1>1, <1>8, <1>9

LEMMA IndexSets ==
    ASSUME NEW ranges \in Seq(Ranges)
    PROVE  /\ IsFiniteSet(DOMAIN ranges)
           /\ \A s \in SUBSET DOMAIN ranges : s # {} => Max(s) \in s
<1>1. DOMAIN ranges = 1..Len(ranges) /\ Len(ranges) \in Nat
      OBVIOUS
<1>2. IsFiniteSet(DOMAIN ranges)
      BY <1>1, FS_Interval
<1>3. ASSUME NEW s \in SUBSET DOMAIN ranges, s # {}
      PROVE  Max(s) \in s
  <2>1. IsFiniteSet(s)
        BY <1>2, FS_Subset
  <2>2. s \subseteq Int
        BY <1>1
  <2> QED
      BY <1>3, <2>1, <2>2, MaxOfFinite
<1> QED
    BY <1>2, <1>3

LEMMA MergingExists ==
    ASSUME NEW ranges \in Seq(Ranges)
    PROVE  \E g : Merging(ranges, g)
<1> DEFINE D == DOMAIN ranges
           step == [x \in D \X Seq(Ranges) |-> MergeOne(x[2], ranges[x[1]])]
<1>1. IsFiniteSet(D) /\ \A s \in SUBSET D : s # {} => Max(s) \in s
      BY IndexSets
<1>2. ASSUME NEW i \in D, NEW done \in Seq(Ranges)
      PROVE  step[<<i, done>>] = MergeOne(done, ranges[i]) /\ step[<<i, done>>] \in Seq(Ranges)
  <2>1. ranges[i] \in Ranges
        OBVIOUS
  <2>2. MergeOne(done, ranges[i]) \in Seq(Ranges)
        BY <2>1, MergeOneMeans
  <2>3. step[<<i, done>>] = MergeOne(done, ranges[i])
        OBVIOUS
  <2> QED
      BY <2>2, <2>3
<1> HIDE DEF step, D
<1>3. PICK g : FoldOf(step, <<>>, D, g)
      BY ONLY <1>1, FoldExists
<1>4. \A s \in SUBSET D : g[s] = IF s = {} THEN <<>> ELSE step[<<Max(s), g[s \ {Max(s)}]>>]
      BY ONLY <1>3, FoldValues
<1>5. \A s \in SUBSET D : g[s] \in Seq(Ranges)
  <2> DEFINE C == {s \in SUBSET D : g[s] \notin Seq(Ranges)}
  <2> SUFFICES ASSUME C # {} PROVE FALSE
      OBVIOUS
  <2>1. PICK s \in C : \A u \in C : u \subseteq s => u = s
    <3>1. C \subseteq SUBSET D
          OBVIOUS
    <3> HIDE DEF C
    <3> QED
        BY <1>1, <3>1, SmallestSubset
  <2>2. s \in SUBSET D /\ g[s] \notin Seq(Ranges)
        OBVIOUS
  <2>3. s # {}
    <3>1. <<>> \in Seq(Ranges)
          OBVIOUS
    <3> QED
        BY <1>4, <2>2, <3>1
  <2>4. Max(s) \in s /\ Max(s) \in D
        BY <1>1, <2>2, <2>3
  <2>5. g[s \ {Max(s)}] \in Seq(Ranges)
        BY <2>1, <2>2, <2>4
  <2>6. g[s] = step[<<Max(s), g[s \ {Max(s)}]>>]
        BY <1>4, <2>2, <2>3
  <2> QED
      BY <1>2, <2>2, <2>4, <2>5, <2>6
<1>6. ASSUME NEW s \in SUBSET D, s # {}
      PROVE  step[<<Max(s), g[s \ {Max(s)}]>>] = MergeOne(g[s \ {Max(s)}], ranges[Max(s)])
  <2>1. Max(s) \in D /\ s \ {Max(s)} \in SUBSET D
        BY <1>1, <1>6
  <2> QED
      BY <1>2, <1>5, <2>1
<1>7. \A s \in SUBSET D :
         g[s] = IF s = {} THEN <<>> ELSE MergeOne(g[s \ {Max(s)}], ranges[Max(s)])
      BY <1>4, <1>6
<1>8. g = [s \in SUBSET D |-> g[s]]
      BY <1>3 DEF FoldOf
<1>9. Merging(ranges, g)
      BY <1>7, <1>8 DEF Merging, D
<1> QED
    BY <1>9

LEMMA MergingValues ==
    ASSUME NEW ranges \in Seq(Ranges), NEW g, Merging(ranges, g), NEW s \in SUBSET DOMAIN ranges
    PROVE  g[s] = IF s = {} THEN <<>> ELSE MergeOne(g[s \ {Max(s)}], ranges[Max(s)])
<1> DEFINE body == [t \in SUBSET DOMAIN ranges |->
                      IF t = {} THEN <<>> ELSE MergeOne(g[t \ {Max(t)}], ranges[Max(t)])]
<1>1. g = body
      BY DEF Merging
<1>2. body[s] = IF s = {} THEN <<>> ELSE MergeOne(g[s \ {Max(s)}], ranges[Max(s)])
      OBVIOUS
<1> HIDE DEF body
<1> QED
    BY <1>1, <1>2

LEMMA LastIndex ==
    ASSUME NEW k \in Nat, k > 0
    PROVE  /\ Max(1..k) = k /\ (1..k) \ {k} = 1..(k - 1)
           /\ 1..k = (1..(k - 1)) \cup {k}
<1> DEFINE m == Max(1..k)
<1>1. IsFiniteSet(1..k)
      BY FS_Interval
<1>2. 1..k # {} /\ 1..k \subseteq Int
      OBVIOUS
<1>3. m \in 1..k /\ \A y \in 1..k : y <= m
      BY <1>1, <1>2, MaxOfFinite
<1> HIDE DEF m
<1>4. m = k
      BY <1>3
<1> QED
    BY <1>4 DEF m

\* Induction over the ranges: the first k of them, in order, make ranges with gaps.
LEMMA MergedSoFar ==
    ASSUME NEW ranges \in Seq(Ranges), ByStart(ranges), NEW g, Merging(ranges, g)
    PROVE  \A k \in 0..Len(ranges) :
              LET m == g[1..k] IN
              /\ m \in Seq(Ranges) /\ Gaps(m)
              /\ SpanOf(m) = UNION {Span(ranges[i]) : i \in 1..k}
              /\ k > 0 => m # <<>> /\ m[Len(m)].start <= ranges[k].start
              /\ k = 0 => m = <<>>
<1> DEFINE Ok(k) == /\ g[1..k] \in Seq(Ranges) /\ Gaps(g[1..k])
                    /\ SpanOf(g[1..k]) = UNION {Span(ranges[i]) : i \in 1..k}
                    /\ k > 0 => /\ g[1..k] # <<>>
                                /\ g[1..k][Len(g[1..k])].start <= ranges[k].start
                    /\ k = 0 => g[1..k] = <<>>
           C == {k \in 0..Len(ranges) : ~Ok(k)}
<1>1. Len(ranges) \in Nat /\ DOMAIN ranges = 1..Len(ranges)
      OBVIOUS
<1>2. Ok(0)
  <2>1. 1..0 = {} /\ 1..0 \in SUBSET DOMAIN ranges
        OBVIOUS
  <2>2. g[1..0] = <<>>
        BY <2>1, MergingValues
  <2>3. <<>> \in Seq(Ranges) /\ DOMAIN <<>> = {}
        OBVIOUS
  <2>4. Gaps(<<>>) /\ SpanOf(<<>>) = UNION {}
    <3>1. \A s : DOMAIN s = {} => SpanOf(s) = UNION {} /\ Gaps(s)
          BY DEF Gaps, SpanOf
    <3> QED
        BY <2>3, <3>1
  <2>5. {Span(ranges[i]) : i \in 1..0} = {}
        BY <2>1
  <2> QED
      BY <2>2, <2>3, <2>4, <2>5
<1>3. ASSUME NEW k \in 1..Len(ranges), Ok(k - 1)
      PROVE  Ok(k)
  <2> DEFINE done == g[1..(k - 1)]
             r == ranges[k]
  <2>1. k \in Nat /\ k > 0 /\ 1..k \in SUBSET DOMAIN ranges /\ 1..k # {} /\ r \in Ranges
        BY <1>1
  <2>2. /\ done \in Seq(Ranges) /\ Gaps(done)
        /\ SpanOf(done) = UNION {Span(ranges[i]) : i \in 1..(k - 1)}
        BY <1>3
  <2>3. Max(1..k) = k /\ (1..k) \ {k} = 1..(k - 1) /\ 1..k = (1..(k - 1)) \cup {k}
        BY <2>1, LastIndex
  <2>4. g[1..k] = MergeOne(done, r)
    <3>1. g[1..k] = MergeOne(g[(1..k) \ {Max(1..k)}], ranges[Max(1..k)])
          BY <2>1, MergingValues
    <3> QED
        BY <2>3, <3>1
  <2>5. done # <<>> => done[Len(done)].start <= r.start
    <3> SUFFICES ASSUME done # <<>> PROVE done[Len(done)].start <= r.start
        OBVIOUS
    <3>1. k - 1 > 0 /\ k - 1 \in DOMAIN ranges /\ k \in DOMAIN ranges /\ k - 1 < k
          BY <1>1, <1>3, <2>1
    <3>2. done[Len(done)].start <= ranges[k - 1].start
          BY <1>3, <3>1
    <3>3. ranges[k - 1].start <= r.start
          BY <3>1 DEF ByStart
    <3>4. /\ done[Len(done)] \in Ranges /\ ranges[k - 1] \in Ranges
          BY <2>2, <3>1
    <3>5. /\ done[Len(done)].start \in Nat /\ ranges[k - 1].start \in Nat /\ r.start \in Nat
          BY <2>1, <3>4, RangeType
    <3> QED
        BY <3>2, <3>3, <3>5
  <2> HIDE DEF done, r, Ok
  <2>6. LET m == MergeOne(done, r) IN
        /\ m \in Seq(Ranges) /\ m # <<>> /\ m[Len(m)].start <= r.start
        /\ Gaps(m) /\ SpanOf(m) = SpanOf(done) \cup Span(r)
        BY <2>1, <2>2, <2>5, MergeKeeps
  <2>7. SpanOf(g[1..k]) = UNION {Span(ranges[i]) : i \in 1..k}
    <3>1. UNION {Span(ranges[i]) : i \in (1..(k - 1)) \cup {k}} =
              (UNION {Span(ranges[i]) : i \in 1..(k - 1)}) \cup Span(ranges[k])
          BY SpansAdd
    <3> QED
        BY <2>2, <2>3, <2>4, <2>6, <3>1 DEF r
  <2> QED
      BY <2>1, <2>4, <2>6, <2>7 DEF Ok, r
<1>4. ASSUME C # {} PROVE FALSE
  <2>1. PICK k \in C : \A j \in C : k <= j
    <3>1. C \subseteq Nat
          BY <1>1
    <3> HIDE DEF C
    <3> QED
        BY <1>4, <3>1, SmallestNumber
  <2>2. k \in 0..Len(ranges) /\ ~Ok(k)
        OBVIOUS
  <2> HIDE DEF Ok
  <2>3. k # 0
        BY <1>2, <2>2
  <2>4. k \in 1..Len(ranges) /\ k - 1 \in 0..Len(ranges) /\ ~(k <= k - 1)
        BY <1>1, <2>2, <2>3
  <2>5. Ok(k - 1)
        BY <2>1, <2>4
  <2> QED
      BY <1>3, <2>2, <2>4, <2>5
<1> QED
    BY <1>4

LEMMA RangesFinite ==
    ASSUME NEW db, db \subseteq Entry
    PROVE  /\ RangesOf(db) \subseteq Ranges /\ IsFiniteSet(RangesOf(db))
           /\ UNION {Span(r) : r \in RangesOf(db)} = Covered(db)
<1>1. ASSUME NEW e \in db
      PROVE  /\ [start |-> e.start, end |-> e.end] \in Ranges
             /\ Span([start |-> e.start, end |-> e.end]) = Span(e)
  <2>1. e \in Line /\ e.start <= e.end
        BY DEF Entry
  <2> QED
      BY <2>1 DEF Line, Ranges, Span
<1>2. RangesOf(db) \subseteq Ranges
      BY <1>1 DEF RangesOf
<1>3. IsFiniteSet(Ranges)
  <2> DEFINE f == [p \in Addrs \X Addrs |-> [start |-> p[1], end |-> p[2]]]
             all == {f[p] : p \in Addrs \X Addrs}
  <2>1. IsFiniteSet(Addrs)
        BY SpaceType, FS_Interval DEF Addrs
  <2>2. IsFiniteSet(Addrs \X Addrs)
        BY <2>1, FS_Product
  <2>3. \A r \in Ranges : r = f[<<r.start, r.end>>] /\ <<r.start, r.end>> \in Addrs \X Addrs
        BY RangeType
  <2> HIDE DEF f
  <2>4. IsFiniteSet(all)
        BY <2>2, ImageFinite
  <2>5. Ranges \subseteq all
        BY <2>3
  <2> HIDE DEF all
  <2> QED
      BY <2>4, <2>5, FS_Subset
<1>4. IsFiniteSet(RangesOf(db))
      BY <1>2, <1>3, FS_Subset
<1>5. {Span(r) : r \in RangesOf(db)} = {Span(e) : e \in db}
      BY <1>1 DEF RangesOf
<1> QED
    BY <1>2, <1>4, <1>5 DEF Covered

LEMMA SortedRanges ==
    ASSUME NEW db, db \subseteq Entry
    PROVE  LET set == RangesOf(db)
               ranges == CHOOSE s \in [1..Cardinality(set) -> set] : ByStart(s)
           IN /\ ranges \in Seq(Ranges) /\ ByStart(ranges) /\ Len(ranges) = Cardinality(set)
              /\ UNION {Span(ranges[i]) : i \in 1..Len(ranges)} = Covered(db)
<1> DEFINE set == RangesOf(db)
           ranges == CHOOSE s \in [1..Cardinality(set) -> set] : ByStart(s)
           key == [r \in set |-> r.start]
<1>1. /\ set \subseteq Ranges /\ IsFiniteSet(set)
      /\ UNION {Span(r) : r \in set} = Covered(db)
      BY RangesFinite
<1>2. Cardinality(set) \in Nat
      BY <1>1, FS_CardinalityType
<1> HIDE DEF set
<1>3. \A r \in set : key[r] = r.start /\ key[r] \in Int
      BY <1>1, RangeType
<1> HIDE DEF key
<1>4. PICK s \in [1..Cardinality(set) -> set] : Ascending(s, key)
      BY <1>1, <1>3, SortedExists
<1>5. ByStart(s)
      BY <1>3, <1>4 DEF Ascending, ByStart
<1>6. ranges \in [1..Cardinality(set) -> set] /\ ByStart(ranges)
      BY <1>4, <1>5
<1> HIDE DEF ranges
<1>7. ranges \in Seq(Ranges) /\ Len(ranges) = Cardinality(set)
      BY <1>1, <1>2, <1>6
<1>8. \A r \in set : \E i \in 1..Cardinality(set) : ranges[i] = r
      BY <1>1, <1>6, SortedHasAll DEF ByStart
<1>9. {Span(ranges[i]) : i \in 1..Len(ranges)} = {Span(r) : r \in set}
      BY <1>6, <1>7, <1>8
<1> QED
    BY <1>1, <1>6, <1>7, <1>9 DEF ranges, set

\* Merging keeps the addresses and leaves one between any two ranges.
LEMMA MergedIs ==
    ASSUME NEW db, db \subseteq Entry
    PROVE  Merged(db) \in Seq(Ranges) /\ Gaps(Merged(db)) /\ SpanOf(Merged(db)) = Covered(db)
<1> DEFINE set == RangesOf(db)
           ranges == CHOOSE s \in [1..Cardinality(set) -> set] : ByStart(s)
           g == CHOOSE h : Merging(ranges, h)
<1>1. /\ ranges \in Seq(Ranges) /\ ByStart(ranges)
      /\ UNION {Span(ranges[i]) : i \in 1..Len(ranges)} = Covered(db)
      BY SortedRanges
<1>2. Merged(db) = g[DOMAIN ranges]
      BY DEF Merged, FoldLeft, MapThenFoldSet, Merging, MergeOne, RangesOf, ByStart
<1> HIDE DEF ranges
<1>3. Merging(ranges, g)
      BY <1>1, MergingExists
<1> HIDE DEF g
<1>4. Len(ranges) \in 0..Len(ranges) /\ DOMAIN ranges = 1..Len(ranges)
      BY <1>1
<1> QED
    BY <1>1, <1>2, <1>3, <1>4, MergedSoFar

-----------------------------------------------------------------------------
(* Resolve *)

\* A free address between two blocks keeps them apart, either way round.
LEMMA FarApart ==
    ASSUME NEW p, NEW q, IsBlock(p), IsBlock(q), p.addr + Size(p) < q.addr
    PROVE  Apart(p, q) /\ Apart(q, p)
<1>1. /\ p.addr \in Nat /\ q.addr \in Nat /\ Size(p) \in Nat /\ Size(p) > 0
      /\ Size(q) \in Nat /\ Size(q) > 0
      BY SizeType DEF IsBlock
<1>2. Block(p) \cap Block(q) = {}
      BY <1>1 DEF Block
<1>3. ~Siblings(p, q)
      BY <1>1, SiblingsTouch
<1>4. Siblings(q, p) => Siblings(p, q)
  <2>1. q.bits = p.bits => Size(q) = Size(p)
        BY DEF Size
  <2> QED
      BY <2>1 DEF Siblings
<1> QED
    BY <1>2, <1>3, <1>4 DEF Apart

\* Exact, without overlap and as few blocks as can be, for whatever is asked of any
\* database.
THEOREM ResolveCovers ==
    ASSUME NEW db, db \subseteq Entry, NEW sel
    PROVE  IsSmallestCover(Resolve(db, sel), Covered(Candidates(db, sel)))
<1> DEFINE found == Candidates(db, sel)
           merged == Merged(found)
           blocks == [i \in DOMAIN merged |-> RangeToCIDRs(merged[i].start, merged[i].end)]
<1>1. found \subseteq Entry
      BY DEF Candidates
<1> HIDE DEF found
<1>2. /\ merged \in Seq(Ranges) /\ Gaps(merged)
      /\ UNION {Span(merged[i]) : i \in DOMAIN merged} = Covered(found)
      BY <1>1, MergedIs DEF SpanOf
<1>3. Resolve(db, sel) = UNION {blocks[i] : i \in DOMAIN merged}
      BY DEF Resolve, found
<1> HIDE DEF merged
<1>4. ASSUME NEW i \in DOMAIN merged
      PROVE  /\ merged[i].start \in Nat /\ merged[i].end \in Nat
             /\ Covers(blocks[i], merged[i].start, merged[i].end)
  <2>1. merged[i] \in Ranges
        BY <1>2
  <2>2. /\ merged[i].start \in Nat /\ merged[i].end \in Nat
        /\ merged[i].start \in Addrs /\ merged[i].end \in Addrs
        /\ merged[i].start <= merged[i].end
        BY <2>1, RangeType
  <2>3. blocks[i] = RangeToCIDRs(merged[i].start, merged[i].end)
        OBVIOUS
  <2> HIDE DEF blocks
  <2>4. Covers(RangeToCIDRs(merged[i].start, merged[i].end), merged[i].start, merged[i].end)
    <3>1. PICK s, e : s = merged[i].start /\ e = merged[i].end
          OBVIOUS
    <3>2. s \in Addrs /\ e \in Addrs /\ s <= e
          BY <2>2, <3>1
    <3>3. Covers(RangeToCIDRs(s, e), s, e)
          BY <3>2, RangeCovers
    <3> QED
        BY <3>1, <3>3
  <2> QED
      BY <2>2, <2>3, <2>4
<1> HIDE DEF blocks
<1>5. ASSUME NEW i \in DOMAIN merged, NEW p \in blocks[i]
      PROVE  /\ IsBlock(p) /\ p.addr \in Nat /\ Size(p) \in Nat
             /\ merged[i].start <= p.addr /\ p.addr + Size(p) <= merged[i].end + 1
  <2>1. PICK S, s, e : S = blocks[i] /\ s = merged[i].start /\ e = merged[i].end
        OBVIOUS
  <2>2. Covers(S, s, e) /\ s \in Int /\ e \in Int /\ p \in S
        BY <1>4, <1>5, <2>1
  <2>3. s <= p.addr /\ p.addr + Size(p) <= e + 1
        BY ONLY <2>2, BlockBounds
  <2>4. IsBlock(p)
        BY <2>2 DEF Covers
  <2>5. p.addr \in Nat /\ Size(p) \in Nat
        BY <2>4, SizeType DEF IsBlock
  <2> QED
      BY <2>1, <2>3, <2>4, <2>5
<1>6. ASSUME NEW i \in DOMAIN merged, NEW j \in DOMAIN merged, i < j,
             NEW p \in blocks[i], NEW q \in blocks[j]
      PROVE  Apart(p, q) /\ Apart(q, p)
  <2>1. merged[i].end + 1 < merged[j].start
        BY <1>2, <1>6 DEF Gaps
  <2>2. /\ IsBlock(p) /\ p.addr \in Nat /\ Size(p) \in Nat
        /\ p.addr + Size(p) <= merged[i].end + 1
        BY <1>5
  <2>3. IsBlock(q) /\ q.addr \in Nat /\ merged[j].start <= q.addr
        BY <1>5
  <2>4. merged[i].end \in Nat /\ merged[j].start \in Nat
        BY <1>4
  <2>5. p.addr + Size(p) < q.addr
        BY <2>1, <2>2, <2>3, <2>4
  <2> QED
      BY <2>2, <2>3, <2>5, FarApart
<1>7. \A p \in Resolve(db, sel) : p.addr % Size(p) = 0
  <2> TAKE p \in Resolve(db, sel)
  <2>1. PICK i \in DOMAIN merged : p \in blocks[i]
        BY <1>3
  <2> QED
      BY <1>5, <2>1 DEF IsBlock
<1>8. ASSUME NEW p \in Resolve(db, sel), NEW q \in Resolve(db, sel), p # q
      PROVE  Apart(p, q)
  <2>1. PICK i \in DOMAIN merged : p \in blocks[i]
        BY <1>3
  <2>2. PICK j \in DOMAIN merged : q \in blocks[j]
        BY <1>3
  <2>3. CASE i = j
        BY <1>4, <1>8, <2>1, <2>2, <2>3 DEF Covers
  <2>4. CASE i # j
    <3>1. i \in Nat /\ j \in Nat
          BY <1>2
    <3>2. i < j \/ j < i
          BY <2>4, <3>1
    <3> QED
        BY <1>6, <2>1, <2>2, <3>2
  <2> QED
      BY <2>3, <2>4
<1>9. UNION {Block(p) : p \in Resolve(db, sel)} = Covered(found)
  <2>1. \A i \in DOMAIN merged : UNION {Block(p) : p \in blocks[i]} = Span(merged[i])
        BY <1>4 DEF Covers, Span
  <2>2. \A a : a \in UNION {Block(p) : p \in Resolve(db, sel)}
                 <=> \E i \in DOMAIN merged : a \in UNION {Block(p) : p \in blocks[i]}
        BY <1>3
  <2>3. \A a : a \in Covered(found) <=> \E i \in DOMAIN merged : a \in Span(merged[i])
        BY <1>2
  <2>4. \A a : a \in UNION {Block(p) : p \in Resolve(db, sel)} <=> a \in Covered(found)
        BY <2>1, <2>2, <2>3
  <2> HIDE DEF found
  <2> QED
      BY <2>4
<1> QED
    BY <1>7, <1>8, <1>9 DEF IsSmallestCover, Apart, Siblings, found
=============================================================================
