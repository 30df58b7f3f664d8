-------------------------------- MODULE Sums --------------------------------
(***************************************************************************)
(* Facts about SumFunction and SumFunctionOnSet of the module Functions:   *)
(* the order in which the values are added does not matter, so a sum can   *)
(* be taken apart at any of them.  At the end: finite sets of numbers have *)
(* a largest one, finite sets can be sorted, and a fold has a result.      *)
(***************************************************************************)
EXTENDS FiniteSetsExt, FiniteSetTheorems, TLAPS

\* Induction over a finite set: of several subsets there is a smallest one.
LEMMA SmallestSubset ==
    ASSUME NEW S, IsFiniteSet(S), NEW C, C \subseteq SUBSET S, C # {}
    PROVE  \E T \in C : \A U \in C : U \subseteq T => U = T
<1> DEFINE R == StrictSubsetOrdering(S)
<1>1. IsWellFoundedOn(R, SUBSET S)
  BY FS_StrictSubsetOrderingWellFounded, FS_FiniteSubsetsOfFinite
<1>2. PICK T \in C : \A U \in C : <<U, T>> \notin R
  <2> HIDE DEF R
  <2>1. QED
    BY <1>1, WFMin
<1>3. ASSUME NEW U \in C, U \subseteq T, U # T PROVE FALSE
  <2>1. <<U, T>> \in (SUBSET S) \X (SUBSET S)
    OBVIOUS
  <2>2. <<U, T>> \in R
    BY <1>3, <2>1 DEF StrictSubsetOrdering
  <2>3. QED
    BY <1>2, <2>2
<1>4. QED
  BY <1>3

-----------------------------------------------------------------------------
(* The function that adds up the values of f over the subsets of S *)

AnyOf(s) == CHOOSE x \in s : TRUE
Iter(f, S, g) ==
    g = [s \in SUBSET S |-> IF s = {} THEN 0 ELSE f[AnyOf(s)] + g[s \ {AnyOf(s)}]]

LEMMA IterValues ==
    ASSUME NEW f, NEW S, NEW g, Iter(f, S, g), NEW s \in SUBSET S
    PROVE  g[s] = IF s = {} THEN 0 ELSE f[AnyOf(s)] + g[s \ {AnyOf(s)}]
<1> DEFINE body == [t \in SUBSET S |-> IF t = {} THEN 0 ELSE f[AnyOf(t)] + g[t \ {AnyOf(t)}]]
<1>1. g = body
  BY DEF Iter
<1>2. body[s] = IF s = {} THEN 0 ELSE f[AnyOf(s)] + g[s \ {AnyOf(s)}]
  OBVIOUS
<1> HIDE DEF body
<1>3. QED
  BY <1>1, <1>2

LEMMA IterAgree ==
    ASSUME NEW S, IsFiniteSet(S), NEW T, T \subseteq S, NEW f, NEW k,
           \A x \in T : f[x] = k[x], NEW g, NEW i, Iter(f, S, g), Iter(k, T, i)
    PROVE  \A s \in SUBSET T : g[s] = i[s]
<1> DEFINE C == {s \in SUBSET T : g[s] # i[s]}
<1> SUFFICES ASSUME C # {} PROVE FALSE
  OBVIOUS
<1>1. C \subseteq SUBSET S
  OBVIOUS
<1>2. PICK s \in C : \A u \in C : u \subseteq s => u = s
  <2> HIDE DEF C
  <2>1. QED
    BY <1>1, SmallestSubset
<1>3. s \in SUBSET T /\ s \in SUBSET S /\ g[s] # i[s]
  OBVIOUS
<1>4. /\ g[s] = IF s = {} THEN 0 ELSE f[AnyOf(s)] + g[s \ {AnyOf(s)}]
      /\ i[s] = IF s = {} THEN 0 ELSE k[AnyOf(s)] + i[s \ {AnyOf(s)}]
  <2> HIDE DEF C
  <2>1. QED
    BY <1>3, IterValues
<1>5. s # {} /\ AnyOf(s) \in s
  BY <1>3, <1>4 DEF AnyOf
<1>6. g[s \ {AnyOf(s)}] = i[s \ {AnyOf(s)}]
  BY <1>2, <1>3, <1>5
<1>7. QED
  BY <1>3, <1>4, <1>5, <1>6

LEMMA IterExists ==
    ASSUME NEW S, IsFiniteSet(S), NEW f
    PROVE  \E g : Iter(f, S, g)
<1> DEFINE C == {T \in SUBSET S : ~\E g : Iter(f, T, g)}
<1> SUFFICES ASSUME C # {} PROVE FALSE
  OBVIOUS
<1>1. C \subseteq SUBSET S
  OBVIOUS
<1>2. PICK T \in C : \A U \in C : U \subseteq T => U = T
  <2> HIDE DEF C
  <2>1. QED
    BY <1>1, SmallestSubset
<1> DEFINE G(u) == CHOOSE g : Iter(f, u, g)
           it == [s \in SUBSET T |->
                    IF s = {} THEN 0 ELSE f[AnyOf(s)] + G(s \ {AnyOf(s)})[s \ {AnyOf(s)}]]
<1>3. ASSUME NEW u \in SUBSET T, u # T PROVE Iter(f, u, G(u))
  <2>1. \E g : Iter(f, u, g)
    BY <1>2, <1>3
  <2>2. QED
    BY <2>1
<1>4. ASSUME NEW u \in SUBSET T, u # T PROVE it[u] = G(u)[u]
  <2>1. G(u)[u] = IF u = {} THEN 0 ELSE f[AnyOf(u)] + G(u)[u \ {AnyOf(u)}]
    <3> HIDE DEF G
    <3>1. QED
      BY <1>3, <1>4, IterValues
  <2>2. CASE u = {}
    BY <2>1, <2>2
  <2>3. CASE u # {}
    <3> DEFINE w == u \ {AnyOf(u)}
    <3>1. AnyOf(u) \in u /\ w \in SUBSET T /\ w # T /\ w \subseteq u
      BY <1>4, <2>3 DEF AnyOf
    <3>2. IsFiniteSet(u)
      BY FS_Subset
    <3>3. G(u)[w] = G(w)[w]
      <4> HIDE DEF G, w
      <4>1. QED
        BY <1>3, <1>4, <3>1, <3>2, IterAgree
    <3>4. it[u] = f[AnyOf(u)] + G(w)[w]
      BY <2>3
    <3>5. QED
      BY <2>1, <2>3, <3>3, <3>4
  <2>4. QED
    BY <2>2, <2>3
<1>5. Iter(f, T, it)
  <2>1. ASSUME NEW s \in SUBSET T, s # {}
        PROVE  G(s \ {AnyOf(s)})[s \ {AnyOf(s)}] = it[s \ {AnyOf(s)}]
    <3>1. AnyOf(s) \in s
      BY <2>1 DEF AnyOf
    <3>2. QED
      BY <1>4, <3>1
  <2>2. ASSUME NEW s \in SUBSET T
        PROVE  it[s] = IF s = {} THEN 0 ELSE f[AnyOf(s)] + it[s \ {AnyOf(s)}]
    <3>1. it[s] = IF s = {} THEN 0 ELSE f[AnyOf(s)] + G(s \ {AnyOf(s)})[s \ {AnyOf(s)}]
      <4> HIDE DEF G
      <4>1. QED
        OBVIOUS
    <3> HIDE DEF it, G
    <3>2. CASE s = {}
      BY <3>1, <3>2
    <3>3. CASE s # {}
      BY <2>1, <3>1, <3>3
    <3>4. QED
      BY <3>2, <3>3
  <2>3. it = [s \in SUBSET T |-> it[s]]
    OBVIOUS
  <2> HIDE DEF it
  <2>4. QED
    BY <2>2, <2>3 DEF Iter
<1>6. QED
  BY <1>2, <1>5

-----------------------------------------------------------------------------
(* Sums *)

LEMMA SumOnSetIsIter ==
    ASSUME NEW f, NEW S, IsFiniteSet(S)
    PROVE  \E g : Iter(f, S, g) /\ SumFunctionOnSet(f, S) = g[S]
<1>1. SumFunctionOnSet(f, S) = (CHOOSE g : Iter(f, S, g))[S]
  BY DEF SumFunctionOnSet, FoldFunctionOnSet, MapThenFoldSet, Iter, AnyOf
<1>2. QED
  BY <1>1, IterExists

\* Only the values at the indices count.
THEOREM SumOnSetSame ==
    ASSUME NEW S, IsFiniteSet(S), NEW f, NEW k, \A x \in S : f[x] = k[x]
    PROVE  SumFunctionOnSet(f, S) = SumFunctionOnSet(k, S)
<1>1. PICK g : Iter(f, S, g) /\ SumFunctionOnSet(f, S) = g[S]
  BY SumOnSetIsIter
<1>2. PICK i : Iter(k, S, i) /\ SumFunctionOnSet(k, S) = i[S]
  BY SumOnSetIsIter
<1>3. \A s \in SUBSET S : g[s] = i[s]
  BY <1>1, <1>2, IterAgree
<1>4. QED
  BY <1>1, <1>2, <1>3

\* The sums over all subsets come from one function.
LEMMA SumOnSubsets ==
    ASSUME NEW f, NEW S, IsFiniteSet(S)
    PROVE  /\ SumFunctionOnSet(f, {}) = 0
           /\ \A T \in SUBSET S : T # {} =>
                 /\ AnyOf(T) \in T
                 /\ SumFunctionOnSet(f, T) = f[AnyOf(T)] + SumFunctionOnSet(f, T \ {AnyOf(T)})
<1>1. PICK g : Iter(f, S, g)
  BY IterExists
<1>2. ASSUME NEW T \in SUBSET S PROVE SumFunctionOnSet(f, T) = g[T]
  <2>1. IsFiniteSet(T)
    BY FS_Subset
  <2>2. PICK i : Iter(f, T, i) /\ SumFunctionOnSet(f, T) = i[T]
    BY <2>1, SumOnSetIsIter
  <2>3. \A s \in SUBSET T : g[s] = i[s]
    BY <1>1, <2>2, IterAgree
  <2>4. QED
    BY <2>2, <2>3
<1>3. g[{}] = 0
  BY <1>1, IterValues
<1>4. ASSUME NEW T \in SUBSET S, T # {}
      PROVE  AnyOf(T) \in T /\ g[T] = f[AnyOf(T)] + g[T \ {AnyOf(T)}]
  <2>1. AnyOf(T) \in T
    BY <1>4 DEF AnyOf
  <2>2. g[T] = f[AnyOf(T)] + g[T \ {AnyOf(T)}]
    BY <1>1, <1>4, IterValues
  <2>3. QED
    BY <2>1, <2>2
<1>5. QED
  BY <1>2, <1>3, <1>4

\* A sum of integers is one.
THEOREM SumOnSetType ==
    ASSUME NEW S, IsFiniteSet(S), NEW f, \A x \in S : f[x] \in Int
    PROVE  SumFunctionOnSet(f, S) \in Int
<1> DEFINE C == {T \in SUBSET S : SumFunctionOnSet(f, T) \notin Int}
<1> SUFFICES ASSUME C # {} PROVE FALSE
  OBVIOUS
<1>1. C \subseteq SUBSET S
  OBVIOUS
<1>2. PICK T \in C : \A U \in C : U \subseteq T => U = T
  <2> HIDE DEF C
  <2>1. QED
    BY <1>1, SmallestSubset
<1>3. T \in SUBSET S /\ SumFunctionOnSet(f, T) \notin Int
  OBVIOUS
<1>4. CASE T = {}
  BY <1>3, <1>4, SumOnSubsets
<1>5. CASE T # {}
  <2>1. AnyOf(T) \in T /\ SumFunctionOnSet(f, T) = f[AnyOf(T)] + SumFunctionOnSet(f, T \ {AnyOf(T)})
    BY <1>3, <1>5, SumOnSubsets
  <2>2. SumFunctionOnSet(f, T \ {AnyOf(T)}) \in Int
    BY <1>2, <1>3, <2>1
  <2>3. QED
    BY <1>3, <2>1, <2>2
<1>6. QED
  BY <1>4, <1>5

\* Any index can be the first.
LEMMA SumOnSetPickAll ==
    ASSUME NEW S, IsFiniteSet(S), NEW f, \A x \in S : f[x] \in Int
    PROVE  \A T \in SUBSET S : \A x \in T :
              SumFunctionOnSet(f, T) = f[x] + SumFunctionOnSet(f, T \ {x})
<1> DEFINE Sum(T) == SumFunctionOnSet(f, T)
           C == {T \in SUBSET S : \E x \in T : Sum(T) # f[x] + Sum(T \ {x})}
<1> SUFFICES ASSUME C # {} PROVE FALSE
  OBVIOUS
<1>1. C \subseteq SUBSET S
  OBVIOUS
<1>2. PICK T \in C : \A U \in C : U \subseteq T => U = T
  <2> HIDE DEF C
  <2>1. QED
    BY <1>1, SmallestSubset
<1>3. PICK x \in T : Sum(T) # f[x] + Sum(T \ {x})
  BY <1>2
<1>4. T \in SUBSET S
  BY <1>2
<1>5. \A U \in SUBSET T : U # T => \A y \in U : Sum(U) = f[y] + Sum(U \ {y})
  BY <1>2, <1>4
<1>6. \A U \in SUBSET S : Sum(U) \in Int
  <2> SUFFICES ASSUME NEW U \in SUBSET S PROVE Sum(U) \in Int
    OBVIOUS
  <2>1. IsFiniteSet(U)
    BY FS_Subset
  <2>2. QED
    BY <2>1, SumOnSetType
<1> DEFINE c == AnyOf(T)
<1>7. c \in T /\ Sum(T) = f[c] + Sum(T \ {c})
  BY <1>3, <1>4, SumOnSubsets
<1> HIDE DEF C, Sum, c
<1>8. c # x
  BY <1>3, <1>7
<1>9. Sum(T \ {c}) = f[x] + Sum((T \ {c}) \ {x})
  BY <1>5, <1>7, <1>8
<1>10. Sum(T \ {x}) = f[c] + Sum((T \ {x}) \ {c})
  BY <1>5, <1>7, <1>8
<1>11. (T \ {c}) \ {x} = (T \ {x}) \ {c}
  OBVIOUS
<1>12. PICK a \in Int : a = Sum((T \ {x}) \ {c})
  BY <1>4, <1>6
<1>13. Sum(T) = f[c] + (f[x] + a)
  BY <1>7, <1>9, <1>11, <1>12
<1>14. f[x] + Sum(T \ {x}) = f[x] + (f[c] + a)
  BY <1>10, <1>12
<1>15. f[c] \in Int /\ f[x] \in Int
  BY <1>4, <1>7
<1>16. f[c] + (f[x] + a) = f[x] + (f[c] + a)
  BY <1>15
<1>17. QED
  BY <1>3, <1>13, <1>14, <1>16

\* A sum over a finite set taken apart at any of its indices.
THEOREM SumOnSetPick ==
    ASSUME NEW S, IsFiniteSet(S), NEW f, \A x \in S : f[x] \in Int, NEW x \in S
    PROVE  SumFunctionOnSet(f, S) = f[x] + SumFunctionOnSet(f, S \ {x})
  BY SumOnSetPickAll

\* Nothing to add.
THEOREM SumOnSetEmpty ==
    ASSUME NEW f
    PROVE  SumFunctionOnSet(f, {}) = 0
  BY FS_EmptySet, SumOnSubsets

\* One index more.
THEOREM SumOnSetAdd ==
    ASSUME NEW S, IsFiniteSet(S), NEW x, x \notin S,
           NEW f, \A y \in S \cup {x} : f[y] \in Int
    PROVE  SumFunctionOnSet(f, S \cup {x}) = f[x] + SumFunctionOnSet(f, S)
<1>1. IsFiniteSet(S \cup {x})
  BY FS_AddElement
<1>2. (S \cup {x}) \ {x} = S
  OBVIOUS
<1>3. SumFunctionOnSet(f, S \cup {x}) = f[x] + SumFunctionOnSet(f, (S \cup {x}) \ {x})
  BY <1>1, SumOnSetPick
<1>4. QED
  BY <1>2, <1>3

\* One value changed.
THEOREM SumOnSetUpdate ==
    ASSUME NEW S, IsFiniteSet(S), NEW x \in S, NEW f, \A y \in S : f[y] \in Int,
           NEW k, k[x] \in Int, \A y \in S \ {x} : k[y] = f[y]
    PROVE  SumFunctionOnSet(k, S) = (SumFunctionOnSet(f, S) - f[x]) + k[x]
<1>1. IsFiniteSet(S \ {x})
  BY FS_Subset
<1>2. SumFunctionOnSet(f, S) = f[x] + SumFunctionOnSet(f, S \ {x})
  BY SumOnSetPick
<1>3. SumFunctionOnSet(k, S) = k[x] + SumFunctionOnSet(k, S \ {x})
  <2>1. \A y \in S : k[y] \in Int
    OBVIOUS
  <2>2. QED
    BY <2>1, SumOnSetPick
<1>4. SumFunctionOnSet(k, S \ {x}) = SumFunctionOnSet(f, S \ {x})
  BY <1>1, SumOnSetSame
<1>5. SumFunctionOnSet(f, S \ {x}) \in Int
  BY <1>1, SumOnSetType
<1>6. QED
  BY <1>2, <1>3, <1>4, <1>5

\* More indices with natural values make no smaller sum.
THEOREM SumOnSetMono ==
    ASSUME NEW S, IsFiniteSet(S), NEW f, \A x \in S : f[x] \in Nat, NEW T \in SUBSET S
    PROVE  SumFunctionOnSet(f, T) <= SumFunctionOnSet(f, S)
<1> DEFINE Sum(U) == SumFunctionOnSet(f, U)
           C == {U \in SUBSET S : T \subseteq U /\ ~(Sum(T) <= Sum(U))}
<1> SUFFICES ASSUME C # {} PROVE FALSE
  OBVIOUS
<1>1. C \subseteq SUBSET S
  OBVIOUS
<1>2. PICK U \in C : \A V \in C : V \subseteq U => V = U
  <2> HIDE DEF C
  <2>1. QED
    BY <1>1, SmallestSubset
<1>3. U \in SUBSET S /\ T \subseteq U /\ ~(Sum(T) <= Sum(U))
  BY <1>2
<1>4. \A V \in SUBSET S : Sum(V) \in Int
  <2> SUFFICES ASSUME NEW V \in SUBSET S PROVE Sum(V) \in Int
    OBVIOUS
  <2>1. IsFiniteSet(V)
    BY FS_Subset
  <2>2. QED
    BY <2>1, SumOnSetType
<1>5. U # T
  BY <1>3, <1>4
<1>6. PICK x \in U : x \notin T
  BY <1>3, <1>5
<1>7. Sum(U) = f[x] + Sum(U \ {x})
  <2>1. IsFiniteSet(U)
    BY <1>3, FS_Subset
  <2>2. QED
    BY <1>3, <2>1, SumOnSetPick
<1>8. Sum(T) <= Sum(U \ {x})
  BY <1>2, <1>3, <1>6
<1>9. f[x] \in Nat /\ Sum(U \ {x}) \in Int /\ Sum(T) \in Int
  BY <1>3, <1>4
<1> HIDE DEF Sum, C
<1>10. QED
  BY <1>3, <1>7, <1>8, <1>9

\* A sum of natural numbers is one.
THEOREM SumOnSetNat ==
    ASSUME NEW S, IsFiniteSet(S), NEW f, \A x \in S : f[x] \in Nat
    PROVE  SumFunctionOnSet(f, S) \in Nat
<1>1. SumFunctionOnSet(f, {}) <= SumFunctionOnSet(f, S)
  BY SumOnSetMono
<1>2. SumFunctionOnSet(f, S) \in Int
  BY SumOnSetType
<1>3. QED
  BY <1>1, <1>2, SumOnSetEmpty

\* A sum of zeros is zero.
THEOREM SumOnSetZero ==
    ASSUME NEW S, IsFiniteSet(S), NEW f, \A x \in S : f[x] = 0
    PROVE  SumFunctionOnSet(f, S) = 0
<1> DEFINE C == {T \in SUBSET S : SumFunctionOnSet(f, T) # 0}
<1> SUFFICES ASSUME C # {} PROVE FALSE
  OBVIOUS
<1>1. C \subseteq SUBSET S
  OBVIOUS
<1>2. PICK T \in C : \A U \in C : U \subseteq T => U = T
  <2> HIDE DEF C
  <2>1. QED
    BY <1>1, SmallestSubset
<1>3. T \in SUBSET S /\ SumFunctionOnSet(f, T) # 0
  OBVIOUS
<1>4. T # {}
  BY <1>3, SumOnSetEmpty
<1>5. AnyOf(T) \in T
      /\ SumFunctionOnSet(f, T) = f[AnyOf(T)] + SumFunctionOnSet(f, T \ {AnyOf(T)})
  BY <1>3, <1>4, SumOnSubsets
<1>6. SumFunctionOnSet(f, T \ {AnyOf(T)}) = 0
  BY <1>2, <1>3, <1>5
<1>7. QED
  BY <1>3, <1>5, <1>6

\* Values that may be negative, each covered by a natural value of its own.
THEOREM SumCovered ==
    ASSUME NEW H, IsFiniteSet(H), NEW d, \A h \in H : d[h] \in Int,
           NEW S, IsFiniteSet(S), NEW f, \A x \in S : f[x] \in Nat, NEW at,
           \A h \in H : d[h] < 0 => at[h] \in S /\ 0 <= d[h] + f[at[h]],
           \A g, h \in H : d[g] < 0 /\ d[h] < 0 /\ at[g] = at[h] => g = h
    PROVE  0 <= SumFunctionOnSet(d, H) + SumFunctionOnSet(f, S)
<1> DEFINE Low(K, U) == ~(0 <= SumFunctionOnSet(d, K) + SumFunctionOnSet(f, U))
           Covered(K, U) == \A h \in K : d[h] < 0 => at[h] \in U
           C == {K \in SUBSET H : \E U \in SUBSET S : Covered(K, U) /\ Low(K, U)}
<1> SUFFICES ASSUME C # {} PROVE FALSE
  BY DEF C
<1>1. C \subseteq SUBSET H
  OBVIOUS
<1>2. PICK K \in C : \A V \in C : V \subseteq K => V = K
  <2> HIDE DEF C
  <2>1. QED
    BY <1>1, SmallestSubset
<1>3. PICK U \in SUBSET S : Covered(K, U) /\ Low(K, U)
  BY <1>2
<1>4. K \in SUBSET H /\ IsFiniteSet(K) /\ IsFiniteSet(U)
  BY <1>2, FS_Subset
<1>5. \A V \in SUBSET K : V # K => \A W \in SUBSET S : Covered(V, W) => ~Low(V, W)
  BY <1>2, <1>4
<1> HIDE DEF C
<1>6. CASE K = {}
  <2>1. SumFunctionOnSet(f, U) \in Nat
    BY <1>4, SumOnSetNat
  <2>2. SumFunctionOnSet(d, K) = 0
    BY <1>6, SumOnSetEmpty
  <2>3. QED
    BY <1>3, <2>1, <2>2
<1>7. CASE K # {}
  <2>1. PICK h \in K : TRUE
    BY <1>7
  <2>2. SumFunctionOnSet(d, K) = d[h] + SumFunctionOnSet(d, K \ {h})
    BY <1>4, SumOnSetPick
  <2>3. /\ d[h] \in Int
        /\ SumFunctionOnSet(d, K \ {h}) \in Int
        /\ SumFunctionOnSet(f, U) \in Int
    <3>1. IsFiniteSet(K \ {h})
      BY <1>4, FS_Subset
    <3>2. QED
      BY <1>4, <3>1, SumOnSetType
  <2>4. CASE d[h] >= 0
    <3>1. Covered(K \ {h}, U)
      BY <1>3
    <3>2. ~Low(K \ {h}, U)
      BY <1>5, <3>1
    <3>3. QED
      BY <1>3, <2>2, <2>3, <2>4, <3>2
  <2>5. CASE d[h] < 0
    <3>1. at[h] \in U /\ 0 <= d[h] + f[at[h]]
      BY <1>3, <1>4, <2>5
    <3>2. Covered(K \ {h}, U \ {at[h]})
      BY <1>3, <1>4, <2>5
    <3>3. ~Low(K \ {h}, U \ {at[h]})
      BY <1>5, <3>2
    <3>4. SumFunctionOnSet(f, U) = f[at[h]] + SumFunctionOnSet(f, U \ {at[h]})
      BY <1>4, <3>1, SumOnSetPick
    <3>5. f[at[h]] \in Nat /\ SumFunctionOnSet(f, U \ {at[h]}) \in Int
      <4>1. IsFiniteSet(U \ {at[h]})
        BY <1>4, FS_Subset
      <4>2. QED
        BY <3>1, <4>1, SumOnSetType
    <3>6. QED
      BY <1>3, <2>2, <2>3, <3>1, <3>3, <3>4, <3>5
  <2>6. QED
    BY <2>3, <2>4, <2>5
<1>8. QED
  BY <1>6, <1>7

\* A sum over a whole function is one over its domain.
THEOREM SumFunctionIsOnSet ==
    ASSUME NEW f
    PROVE  SumFunction(f) = SumFunctionOnSet(f, DOMAIN f)
  BY DEF SumFunction, SumFunctionOnSet, FoldFunction

\* The cut-off at zero that Tracker.Release makes.
THEOREM MaxOfTwo ==
    ASSUME NEW n \in Int
    PROVE  /\ n >= 0 => Max({0, n}) = n
           /\ n < 0 => Max({0, n}) = 0
  BY DEF Max

\* As many indices renamed are still finitely many.
LEMMA ImageFinite ==
    ASSUME NEW S, IsFiniteSet(S), NEW b
    PROVE  IsFiniteSet({b[x] : x \in S})
<1> DEFINE T == {b[x] : x \in S}
           g == [x \in S |-> b[x]]
<1>1. g \in Surjection(S, T)
  BY DEF Surjection
<1>2. QED
  BY <1>1, FS_Surjection

\* The same values under other indices.
THEOREM SumOnSetImage ==
    ASSUME NEW S, IsFiniteSet(S), NEW b, \A x, y \in S : b[x] = b[y] => x = y,
           NEW f, NEW k, \A x \in S : f[b[x]] \in Int /\ k[x] = f[b[x]]
    PROVE  SumFunctionOnSet(f, {b[x] : x \in S}) = SumFunctionOnSet(k, S)
<1> DEFINE Im(T) == {b[x] : x \in T}
           C == {T \in SUBSET S : SumFunctionOnSet(f, Im(T)) # SumFunctionOnSet(k, T)}
<1> SUFFICES ASSUME C # {} PROVE FALSE
  OBVIOUS
<1>1. C \subseteq SUBSET S
  OBVIOUS
<1>2. PICK T \in C : \A U \in C : U \subseteq T => U = T
  <2> HIDE DEF C
  <2>1. QED
    BY <1>1, SmallestSubset
<1>3. T \in SUBSET S /\ SumFunctionOnSet(f, Im(T)) # SumFunctionOnSet(k, T)
  BY <1>2
<1>4. T # {}
  <2>1. SumFunctionOnSet(f, {}) = 0 /\ SumFunctionOnSet(k, {}) = 0
    BY SumOnSetEmpty
  <2>2. T = {} => Im(T) = {}
    OBVIOUS
  <2>3. QED
    BY <1>3, <2>1, <2>2
<1>5. PICK x \in T : TRUE
  BY <1>4
<1>6. SumFunctionOnSet(f, Im(T \ {x})) = SumFunctionOnSet(k, T \ {x})
  BY <1>2, <1>3, <1>5
<1>7. SumFunctionOnSet(k, T) = k[x] + SumFunctionOnSet(k, T \ {x})
  <2>1. IsFiniteSet(T) /\ \A y \in T : k[y] \in Int
    BY <1>3, FS_Subset
  <2>2. QED
    BY <1>5, <2>1, SumOnSetPick
<1>8. SumFunctionOnSet(f, Im(T)) = f[b[x]] + SumFunctionOnSet(f, Im(T \ {x}))
  <2>1. /\ Im(T) = Im(T \ {x}) \cup {b[x]}
        /\ b[x] \notin Im(T \ {x})
    BY <1>3, <1>5
  <2>2. IsFiniteSet(Im(T \ {x}))
    <3>1. IsFiniteSet(T \ {x})
      BY <1>3, FS_Subset
    <3>2. QED
      BY <3>1, ImageFinite
  <2>3. \A y \in Im(T \ {x}) \cup {b[x]} : f[y] \in Int
    BY <1>3, <1>5
  <2> HIDE DEF Im
  <2>4. QED
    BY <2>1, <2>2, <2>3, SumOnSetAdd
<1>9. QED
  BY <1>3, <1>5, <1>6, <1>7, <1>8

\* One value is at most the sum of natural values.
THEOREM SumOnSetBounds ==
    ASSUME NEW S, IsFiniteSet(S), NEW f, \A y \in S : f[y] \in Nat, NEW x \in S
    PROVE  f[x] <= SumFunctionOnSet(f, S)
<1>1. IsFiniteSet(S \ {x})
  BY FS_Subset
<1>2. SumFunctionOnSet(f, S) = f[x] + SumFunctionOnSet(f, S \ {x})
  BY SumOnSetPick
<1>3. SumFunctionOnSet(f, S \ {x}) \in Nat
  BY <1>1, SumOnSetNat
<1>4. QED
  BY <1>2, <1>3

\* The sum of sums place by place.
THEOREM SumOnSetPlus ==
    ASSUME NEW S, IsFiniteSet(S), NEW f, NEW g, NEW h,
           \A x \in S : f[x] \in Int /\ g[x] \in Int /\ h[x] = f[x] + g[x]
    PROVE  SumFunctionOnSet(h, S) = SumFunctionOnSet(f, S) + SumFunctionOnSet(g, S)
<1> DEFINE C == {T \in SUBSET S : SumFunctionOnSet(h, T) # SumFunctionOnSet(f, T) + SumFunctionOnSet(g, T)}
<1> SUFFICES ASSUME C # {} PROVE FALSE
  OBVIOUS
<1>1. C \subseteq SUBSET S
  OBVIOUS
<1>2. PICK T \in C : \A U \in C : U \subseteq T => U = T
  <2> HIDE DEF C
  <2>1. QED
    BY <1>1, SmallestSubset
<1>3. T \in SUBSET S /\ IsFiniteSet(T)
      /\ SumFunctionOnSet(h, T) # SumFunctionOnSet(f, T) + SumFunctionOnSet(g, T)
  BY FS_Subset
<1>4. T # {}
  <2> SUFFICES ASSUME T = {} PROVE FALSE
    OBVIOUS
  <2>1. /\ SumFunctionOnSet(h, {}) = 0 /\ SumFunctionOnSet(f, {}) = 0
        /\ SumFunctionOnSet(g, {}) = 0
    BY SumOnSetEmpty
  <2>2. QED
    BY <1>3, <2>1
<1>5. PICK x \in T : TRUE
  BY <1>4
<1> DEFINE U == T \ {x}
<1>6. U \in SUBSET S /\ U \subseteq T /\ U # T /\ IsFiniteSet(U)
  BY <1>3, FS_Subset
<1>7. SumFunctionOnSet(h, U) = SumFunctionOnSet(f, U) + SumFunctionOnSet(g, U)
  BY <1>2, <1>6
<1>8. \A y \in T : h[y] \in Int /\ f[y] \in Int /\ g[y] \in Int /\ h[y] = f[y] + g[y]
  BY <1>3
<1>9. SumFunctionOnSet(h, T) = h[x] + SumFunctionOnSet(h, U)
  BY <1>3, <1>8, SumOnSetPick
<1>10. SumFunctionOnSet(f, T) = f[x] + SumFunctionOnSet(f, U)
  BY <1>3, <1>8, SumOnSetPick
<1>11. SumFunctionOnSet(g, T) = g[x] + SumFunctionOnSet(g, U)
  BY <1>3, <1>8, SumOnSetPick
<1>12. SumFunctionOnSet(f, U) \in Int /\ SumFunctionOnSet(g, U) \in Int
  BY <1>6, <1>8, SumOnSetType
<1>13. h[x] = f[x] + g[x] /\ f[x] \in Int /\ g[x] \in Int
  BY <1>8
<1> HIDE DEF C, U
<1>14. QED
  BY <1>3, <1>7, <1>9, <1>10, <1>11, <1>12, <1>13

\* Larger values have a larger sum.
THEOREM SumOnSetLeq ==
    ASSUME NEW S, IsFiniteSet(S), NEW f, NEW g,
           \A x \in S : f[x] \in Nat /\ g[x] \in Nat /\ f[x] <= g[x]
    PROVE  SumFunctionOnSet(f, S) <= SumFunctionOnSet(g, S)
<1> DEFINE d == [x \in S |-> g[x] - f[x]]
<1>1. \A x \in S : d[x] \in Nat /\ f[x] \in Int /\ d[x] \in Int /\ g[x] = f[x] + d[x]
  OBVIOUS
<1> HIDE DEF d
<1>2. SumFunctionOnSet(g, S) = SumFunctionOnSet(f, S) + SumFunctionOnSet(d, S)
  BY <1>1, SumOnSetPlus
<1>3. SumFunctionOnSet(d, S) \in Nat
  BY <1>1, SumOnSetNat
<1>4. SumFunctionOnSet(f, S) \in Int
  BY <1>1, SumOnSetType
<1>5. QED
  BY <1>2, <1>3, <1>4

-----------------------------------------------------------------------------
(* Order *)

\* Numbers have a largest one when they are finitely many.
THEOREM MaxOfFinite ==
    ASSUME NEW S, IsFiniteSet(S), S # {}, S \subseteq Int
    PROVE  Max(S) \in S /\ \A y \in S : y <= Max(S)
<1> DEFINE Above(x) == {y \in S : x < y}
           C == {Above(x) : x \in S}
<1>1. C \subseteq SUBSET S /\ C # {}
  OBVIOUS
<1>2. PICK T \in C : \A U \in C : U \subseteq T => U = T
  <2> HIDE DEF C, Above
  <2>1. QED
    BY ONLY IsFiniteSet(S), <1>1, SmallestSubset
<1>3. PICK x \in S : T = Above(x)
  OBVIOUS
<1>4. ASSUME NEW y \in S, ~(y <= x) PROVE FALSE
  <2>1. x < y /\ x \in Int /\ y \in Int
    BY <1>4
  <2>2. Above(y) \in C /\ Above(y) \subseteq T
    <3>1. \A z \in S : y < z => x < z
      BY <2>1
    <3>2. Above(y) \subseteq Above(x)
      BY <3>1
    <3>3. QED
      BY <1>3, <3>2
  <2>3. y \in T /\ y \notin Above(y)
    BY <1>3, <2>1
  <2>4. QED
    BY <1>2, <2>2, <2>3
<1>5. QED
  BY <1>4 DEF Max

\* Elements in the order of their keys.
Ascending(s, key) ==
    IsInjective(s) /\ \A i, j \in DOMAIN s : i < j => key[s[i]] <= key[s[j]]

\* A finite set can be sorted by any numeric key.
THEOREM SortedExists ==
    ASSUME NEW S, IsFiniteSet(S), NEW key, \A x \in S : key[x] \in Int
    PROVE  \E s \in [1..Cardinality(S) -> S] : Ascending(s, key)
<1> DEFINE Sortable(T) == \E s \in [1..Cardinality(T) -> T] : Ascending(s, key)
           C == {T \in SUBSET S : ~Sortable(T)}
<1> SUFFICES ASSUME C # {} PROVE FALSE
  OBVIOUS
<1>1. C \subseteq SUBSET S
  OBVIOUS
<1>2. PICK T \in C : \A U \in C : U \subseteq T => U = T
  <2> HIDE DEF C
  <2>1. QED
    BY <1>1, SmallestSubset
<1>3. T \in SUBSET S /\ ~Sortable(T) /\ IsFiniteSet(T)
  BY FS_Subset
<1>4. T # {}
  <2>1. SUFFICES ASSUME T = {} PROVE FALSE
    OBVIOUS
  <2>2. Cardinality(T) = 0
    BY <2>1, FS_EmptySet
  <2>3. 1..Cardinality(T) = {}
    BY <2>2
  <2>4. [x \in {} |-> x] \in [1..Cardinality(T) -> T] /\ Ascending([x \in {} |-> x], key)
    BY <2>3 DEF Ascending, IsInjective
  <2>5. QED
    BY <1>3, <2>4
<1> DEFINE keys == {key[x] : x \in T}
<1>5. IsFiniteSet(keys) /\ keys # {} /\ keys \subseteq Int
  BY <1>3, <1>4, ImageFinite
<1>6. PICK t \in T : key[t] \in Int /\ \A x \in T : key[x] <= key[t]
  <2>1. Max(keys) \in keys /\ \A y \in keys : y <= Max(keys)
    <3> HIDE DEF keys
    <3>1. QED
      BY <1>5, MaxOfFinite
  <2>2. PICK t \in T : Max(keys) = key[t]
    BY <2>1
  <2>3. QED
    BY <1>5, <2>1, <2>2
<1> DEFINE U == T \ {t}
           n == Cardinality(U)
<1>7. IsFiniteSet(U) /\ n \in Nat /\ Cardinality(T) = n + 1
  <2>1. IsFiniteSet(U) /\ Cardinality(U) = Cardinality(T) - 1
    BY <1>3, FS_RemoveElement
  <2>2. Cardinality(T) \in Nat /\ n \in Nat
    BY <1>3, <2>1, FS_CardinalityType
  <2>3. QED
    BY <2>1, <2>2
<1>8. PICK s \in [1..n -> U] : Ascending(s, key)
  <2>1. U \in SUBSET S /\ U \subseteq T /\ U # T
    BY <1>3
  <2>2. Sortable(U)
    BY <1>2, <2>1
  <2>3. QED
    BY <2>2
<1> DEFINE r == [i \in 1..(n + 1) |-> IF i = n + 1 THEN t ELSE s[i]]
<1> HIDE DEF n, C
<1>9. \A i \in 1..(n + 1) : i # n + 1 => i \in 1..n
  BY <1>7
<1>10. \A i \in 1..n : s[i] \in U /\ r[i] = s[i] /\ i \in 1..(n + 1) /\ i # n + 1
  BY <1>7, <1>8
<1>11. n + 1 \in 1..(n + 1) /\ r[n + 1] = t
  BY <1>7
<1>12. r \in [1..(n + 1) -> T]
  BY <1>9, <1>10
<1>13. IsInjective(r)
  <2> SUFFICES ASSUME NEW a \in 1..(n + 1), NEW b \in 1..(n + 1), r[a] = r[b] PROVE a = b
    BY DEF IsInjective
  <2>1. a \in 1..n /\ b \in 1..n => s[a] = s[b]
    BY <1>10
  <2>2. a \in 1..n /\ b \in 1..n => a = b
    BY <1>8, <2>1 DEF Ascending, IsInjective
  <2>3. QED
    BY <1>9, <1>10, <1>11, <2>2
<1>14. ASSUME NEW i \in 1..(n + 1), NEW j \in 1..(n + 1), i < j PROVE key[r[i]] <= key[r[j]]
  <2>1. i \in 1..n
    BY <1>7, <1>14
  <2>2. CASE j = n + 1
    BY <1>6, <1>10, <1>11, <2>1, <2>2
  <2>3. CASE j # n + 1
    <3>1. j \in 1..n
      BY <1>9, <2>3
    <3>2. key[s[i]] <= key[s[j]]
      BY <1>8, <1>14, <2>1, <3>1 DEF Ascending
    <3>3. QED
      BY <1>10, <2>1, <3>1, <3>2
  <2>4. QED
    BY <2>2, <2>3
<1>15. DOMAIN r = 1..(n + 1)
  OBVIOUS
<1> HIDE DEF r
<1>16. Ascending(r, key)
  BY <1>13, <1>14, <1>15 DEF Ascending
<1>17. Sortable(T)
  BY <1>7, <1>12, <1>16
<1>18. QED
  BY <1>3, <1>17

\* Sorting loses no element: as many places as elements, and none of them twice.
THEOREM SortedHasAll ==
    ASSUME NEW S, IsFiniteSet(S), NEW s \in [1..Cardinality(S) -> S], IsInjective(s),
           NEW x \in S
    PROVE  \E i \in 1..Cardinality(S) : s[i] = x
<1>1. s \in Injection(1..Cardinality(S), S)
  BY DEF Injection
<1>2. Cardinality(S) \in Nat
  BY FS_CardinalityType
<1>3. Cardinality(1..Cardinality(S)) = Cardinality(S)
  BY <1>2, FS_Interval
<1>4. s \in Surjection(1..Cardinality(S), S)
  BY <1>1, <1>3, FS_Injection
<1>5. QED
  BY <1>4 DEF Surjection

-----------------------------------------------------------------------------
(* Folds over sequences *)

\* The function by which a fold over a sequence with the indices D is computed, from the
\* largest index down (FoldLeft).
FoldOf(step, base, D, g) ==
    g = [s \in SUBSET D |-> IF s = {} THEN base ELSE step[<<Max(s), g[s \ {Max(s)}]>>]]

LEMMA FoldValues ==
    ASSUME NEW step, NEW base, NEW D, NEW g, FoldOf(step, base, D, g), NEW s \in SUBSET D
    PROVE  g[s] = IF s = {} THEN base ELSE step[<<Max(s), g[s \ {Max(s)}]>>]
<1> DEFINE body == [t \in SUBSET D |->
                      IF t = {} THEN base ELSE step[<<Max(t), g[t \ {Max(t)}]>>]]
<1>1. g = body
  BY DEF FoldOf
<1>2. body[s] = IF s = {} THEN base ELSE step[<<Max(s), g[s \ {Max(s)}]>>]
  OBVIOUS
<1> HIDE DEF body
<1>3. QED
  BY <1>1, <1>2

LEMMA FoldAgree ==
    ASSUME NEW step, NEW base, NEW D, IsFiniteSet(D), \A s \in SUBSET D : s # {} => Max(s) \in s,
           NEW E, E \in SUBSET D, NEW g, NEW h,
           FoldOf(step, base, D, g), FoldOf(step, base, E, h)
    PROVE  \A s \in SUBSET E : g[s] = h[s]
<1> DEFINE C == {s \in SUBSET E : g[s] # h[s]}
<1> SUFFICES ASSUME C # {} PROVE FALSE
  OBVIOUS
<1>1. C \subseteq SUBSET D
  OBVIOUS
<1>2. PICK s \in C : \A u \in C : u \subseteq s => u = s
  <2> HIDE DEF C
  <2>1. QED
    BY ONLY IsFiniteSet(D), C # {}, <1>1, SmallestSubset
<1>3. s \in SUBSET E /\ s \in SUBSET D /\ g[s] # h[s]
  OBVIOUS
<1>4. /\ g[s] = IF s = {} THEN base ELSE step[<<Max(s), g[s \ {Max(s)}]>>]
      /\ h[s] = IF s = {} THEN base ELSE step[<<Max(s), h[s \ {Max(s)}]>>]
  <2> HIDE DEF C
  <2>1. /\ FoldOf(step, base, D, g) /\ FoldOf(step, base, E, h)
        /\ s \in SUBSET D /\ s \in SUBSET E
    BY <1>3
  <2>2. g[s] = IF s = {} THEN base ELSE step[<<Max(s), g[s \ {Max(s)}]>>]
    BY ONLY <2>1, FoldValues
  <2>3. h[s] = IF s = {} THEN base ELSE step[<<Max(s), h[s \ {Max(s)}]>>]
    BY ONLY <2>1, FoldValues
  <2>4. QED
    BY <2>2, <2>3
<1>5. s # {}
  BY <1>3, <1>4
<1>6. Max(s) \in s
  BY <1>3, <1>5
<1>7. g[s \ {Max(s)}] = h[s \ {Max(s)}]
  BY <1>2, <1>3, <1>6
<1>8. QED
  BY <1>3, <1>4, <1>5, <1>7

\* A fold has a result, whatever is folded.
THEOREM FoldExists ==
    ASSUME NEW step, NEW base, NEW D, IsFiniteSet(D),
           \A s \in SUBSET D : s # {} => Max(s) \in s
    PROVE  \E g : FoldOf(step, base, D, g)
<1> DEFINE C == {T \in SUBSET D : ~\E g : FoldOf(step, base, T, g)}
<1> SUFFICES ASSUME C # {} PROVE FALSE
  OBVIOUS
<1>1. C \subseteq SUBSET D
  OBVIOUS
<1>2. PICK T \in C : \A U \in C : U \subseteq T => U = T
  <2> HIDE DEF C
  <2>1. QED
    BY ONLY IsFiniteSet(D), C # {}, <1>1, SmallestSubset
<1> DEFINE G(u) == CHOOSE g : FoldOf(step, base, u, g)
           rest(s) == s \ {Max(s)}
           it == [s \in SUBSET T |->
                    IF s = {} THEN base ELSE step[<<Max(s), G(rest(s))[rest(s)]>>]]
<1>3. T \in SUBSET D
  OBVIOUS
<1>4. ASSUME NEW u \in SUBSET T, u # T PROVE FoldOf(step, base, u, G(u))
  <2>1. \E g : FoldOf(step, base, u, g)
    BY <1>2, <1>4
  <2>2. QED
    BY <2>1
<1>5. ASSUME NEW s \in SUBSET T, s # {}
      PROVE  rest(s) \in SUBSET s /\ rest(s) \in SUBSET T /\ rest(s) # T /\ rest(s) # s
  <2>1. Max(s) \in s
    BY <1>3, <1>5
  <2>2. QED
    BY <2>1
<1>6. ASSUME NEW u \in SUBSET T, u # T PROVE it[u] = G(u)[u]
  <2>1. G(u)[u] = IF u = {} THEN base ELSE step[<<Max(u), G(u)[rest(u)]>>]
    <3> HIDE DEF G
    <3>1. FoldOf(step, base, u, G(u)) /\ u \in SUBSET u
      BY <1>4, <1>6
    <3>2. QED
      BY ONLY <3>1, FoldValues
  <2>2. CASE u = {}
    BY <2>1, <2>2
  <2>3. CASE u # {}
    <3>1. rest(u) \in SUBSET u /\ rest(u) \in SUBSET T /\ rest(u) # T
      BY <1>5, <2>3
    <3>2. IsFiniteSet(u) /\ \A s \in SUBSET u : s # {} => Max(s) \in s
      BY <1>3, FS_Subset
    <3>3. FoldOf(step, base, u, G(u)) /\ FoldOf(step, base, rest(u), G(rest(u)))
      <4> HIDE DEF G, rest
      <4>1. QED
        BY <1>4, <1>6, <3>1
    <3>4. G(u)[rest(u)] = G(rest(u))[rest(u)]
      <4>1. PICK w, g, h : w = rest(u) /\ g = G(u) /\ h = G(w)
        OBVIOUS
      <4> HIDE DEF G, rest
      <4>2. w \in SUBSET u /\ FoldOf(step, base, u, g) /\ FoldOf(step, base, w, h)
        BY <3>1, <3>3, <4>1
      <4>3. \A s \in SUBSET w : g[s] = h[s]
        BY ONLY <3>2, <4>2, FoldAgree
      <4>4. g[w] = h[w]
        BY <4>3
      <4>5. QED
        BY <4>1, <4>4
    <3>5. it[u] = step[<<Max(u), G(rest(u))[rest(u)]>>]
      BY <2>3
    <3> HIDE DEF G, rest, it
    <3>6. QED
      BY <2>1, <2>3, <3>4, <3>5
  <2>4. QED
    BY <2>2, <2>3
<1>7. FoldOf(step, base, T, it)
  <2>1. ASSUME NEW s \in SUBSET T
        PROVE  it[s] = IF s = {} THEN base ELSE step[<<Max(s), it[rest(s)]>>]
    <3>1. it[s] = IF s = {} THEN base ELSE step[<<Max(s), G(rest(s))[rest(s)]>>]
      <4> HIDE DEF G
      <4>1. QED
        OBVIOUS
    <3>2. s # {} => it[rest(s)] = G(rest(s))[rest(s)]
      <4> HIDE DEF it, G, rest
      <4>1. QED
        BY <1>5, <1>6
    <3> HIDE DEF it, G, rest
    <3>3. QED
      BY <3>1, <3>2
  <2>2. it = [s \in SUBSET T |-> it[s]]
    OBVIOUS
  <2> HIDE DEF it
  <2>3. QED
    BY <2>1, <2>2 DEF FoldOf
<1>8. QED
  BY <1>2, <1>7
=============================================================================
