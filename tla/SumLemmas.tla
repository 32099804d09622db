------------------------------ MODULE SumLemmas ------------------------------
(***************************************************************************)
(* What the sums of the models are, and the two inductions that proofs     *)
(* about them and about rounds of an algorithm rest on.  The prover cannot *)
(* instantiate the induction theorems of its library, which take an        *)
(* operator: here the induction is over a set that is given.               *)
(***************************************************************************)
EXTENDS Integers, FiniteSets, FiniteSetsExt, FiniteSetTheorems, WellFoundedInduction, TLAPS

\* Of a set of numbers that is not empty there is a least one.
LEMMA LeastOf ==
    ASSUME NEW T \in SUBSET Nat, T # {}
    PROVE  \E n \in T : \A m \in T : n <= m
<1>1. PICK n \in T : \A m \in T : ~(<<m, n>> \in OpToRel(<, Nat))
  BY NatLessThanWellFounded, WFMin
<1>2. \A m \in T : ~(m < n)
  BY <1>1 DEF OpToRel
<1> QED BY <1>2

\* T holds every number when it holds 0 and with each number the next.
LEMMA CountingUp ==
    ASSUME NEW T, 0 \in T, \A n \in Nat : n \in T => n + 1 \in T
    PROVE  Nat \subseteq T
<1> SUFFICES ASSUME Nat \ T # {} PROVE FALSE
  OBVIOUS
<1>1. PICK n \in Nat \ T : \A m \in Nat \ T : n <= m
  BY LeastOf, Nat \ T \in SUBSET Nat
<1>2. n # 0 /\ n - 1 \in Nat
  BY <1>1
<1>3. n - 1 \in T
  BY <1>1, <1>2
<1>4. (n - 1) + 1 \in T
  BY <1>2, <1>3
<1> QED BY <1>1, <1>2, <1>4

\* Rounds that each go on from what the last one has left.
IsRounds(f, A, next, N) ==
    /\ f = [n \in 0 .. N |-> f[n]]
    /\ \A n \in 0 .. N : f[n] = IF n = 0 THEN A ELSE next[f[n - 1]]

LEMMA RoundsExist ==
    ASSUME NEW A, NEW next, NEW N \in Nat
    PROVE  \E f : IsRounds(f, A, next, N)
<1> DEFINE Rounds(f, m) == IsRounds(f, A, next, m)
           T == {m \in Nat : \E f : Rounds(f, m)}
<1>1. 0 \in T
  <2>1. Rounds([n \in 0 .. 0 |-> A], 0)
    BY DEF IsRounds
  <2> QED BY <2>1
<1>2. ASSUME NEW m \in Nat, m \in T PROVE m + 1 \in T
  <2>1. PICK f : Rounds(f, m)
    BY <1>2
  <2> DEFINE g == [n \in 0 .. m + 1 |-> IF n = m + 1 THEN next[f[m]] ELSE f[n]]
  <2>2. ASSUME NEW n \in 0 .. m + 1
        PROVE  g[n] = IF n = 0 THEN A ELSE next[g[n - 1]]
    <3>1. CASE n = m + 1
      <4>1. n # 0 /\ n - 1 = m /\ m \in 0 .. m + 1 /\ m # m + 1
        BY <3>1
      <4> QED BY <3>1, <4>1
    <3>2. CASE n # m + 1
      <4>1. n \in 0 .. m /\ (n # 0 => n - 1 \in 0 .. m + 1 /\ n - 1 # m + 1)
        BY <3>2
      <4>2. f[n] = IF n = 0 THEN A ELSE next[f[n - 1]]
        BY <2>1, <4>1 DEF IsRounds
      <4> QED BY <3>2, <4>1, <4>2
    <3> QED BY <3>1, <3>2
  <2>3. Rounds(g, m + 1)
    BY <2>2 DEF IsRounds
  <2> HIDE DEF g, Rounds
  <2> QED BY <2>3
<1> HIDE DEF T
<1>3. N \in T
  BY <1>1, <1>2, CountingUp
<1> QED BY <1>3 DEF T

\* G holds the set S when it holds every subset of it whose smaller subsets it holds.
LEMMA SubsetInduction ==
    ASSUME NEW S, IsFiniteSet(S), NEW G,
           \A s \in SUBSET S : (\A t \in SUBSET s : t # s => t \in G) => s \in G
    PROVE  S \in G
<1> SUFFICES ASSUME S \notin G PROVE FALSE
  OBVIOUS
<1> DEFINE Bad == {s \in SUBSET S : s \notin G}
           Sizes == {Cardinality(s) : s \in Bad}
<1>1. \A s \in SUBSET S : IsFiniteSet(s) /\ Cardinality(s) \in Nat
  BY FS_Subset, FS_CardinalityType
<1>2. Sizes \in SUBSET Nat /\ Sizes # {}
  BY <1>1
<1>3. PICK n \in Sizes : \A m \in Sizes : n <= m
  BY ONLY <1>2, LeastOf
<1>4. PICK s \in Bad : Cardinality(s) = n
  BY <1>3
<1>5. ASSUME NEW t \in SUBSET s, t # s PROVE t \in G
  <2>1. Cardinality(t) < Cardinality(s)
    BY <1>1, <1>4, <1>5, FS_Subset
  <2>2. Cardinality(t) \in Nat /\ Cardinality(s) \in Nat
    BY <1>1, <1>4, <1>5
  <2>3. t \in SUBSET S
    BY <1>4, <1>5
  <2> QED BY <1>3, <1>4, <2>1, <2>2, <2>3
<1> QED BY <1>4, <1>5

-----------------------------------------------------------------------------
\* What the sum over s is read from: the sums over its subsets.
Chosen(s) == CHOOSE x \in s : TRUE

IsSum(f, S, g) ==
    g = [s \in SUBSET S |-> IF s = {} THEN 0 ELSE f[Chosen(s)] + g[s \ {Chosen(s)}]]

LEMMA SumIsRead ==
    ASSUME NEW f, NEW S
    PROVE  SumFunctionOnSet(f, S) = (CHOOSE g : IsSum(f, S, g))[S]
BY DEF SumFunctionOnSet, FoldFunctionOnSet, MapThenFoldSet, IsSum, Chosen

LEMMA ChosenIn ==
    ASSUME NEW s, s # {}
    PROVE  Chosen(s) \in s
BY DEF Chosen

\* Whatever larger set the sums are read over, they are the same.
LEMMA SumsAgree ==
    ASSUME NEW f, NEW A, NEW B, NEW g, NEW h, IsSum(f, A, g), IsSum(f, B, h),
           NEW S, IsFiniteSet(S), S \subseteq A, S \subseteq B
    PROVE  g[S] = h[S]
<1> DEFINE G == {s \in SUBSET S : g[s] = h[s]}
<1>1. ASSUME NEW s \in SUBSET S, \A t \in SUBSET s : t # s => t \in G
      PROVE  s \in G
  <2>1. /\ g[s] = IF s = {} THEN 0 ELSE f[Chosen(s)] + g[s \ {Chosen(s)}]
        /\ h[s] = IF s = {} THEN 0 ELSE f[Chosen(s)] + h[s \ {Chosen(s)}]
    BY DEF IsSum
  <2>2. CASE s # {}
    <3>1. s \ {Chosen(s)} \in G
      BY <1>1, <2>2, ChosenIn
    <3> QED BY <2>1, <3>1
  <2> QED BY <2>1, <2>2
<1> HIDE DEF G
<1>2. S \in G
  BY <1>1, SubsetInduction
<1> QED BY <1>2 DEF G

LEMMA SumExists ==
    ASSUME NEW f, NEW S, IsFiniteSet(S)
    PROVE  \E g : IsSum(f, S, g)
<1> DEFINE G == {s \in SUBSET S : \E g : IsSum(f, s, g)}
<1>1. ASSUME NEW s \in SUBSET S, \A t \in SUBSET s : t # s => t \in G
      PROVE  s \in G
  <2> DEFINE below(t) == (CHOOSE g : IsSum(f, t, g))[t]
             sum(t) == IF t = {} THEN 0 ELSE f[Chosen(t)] + below(t \ {Chosen(t)})
             g == [t \in SUBSET s |-> sum(t)]
  <2>1. ASSUME NEW t \in SUBSET s, t # {}
        PROVE  IsSum(f, t \ {Chosen(t)}, CHOOSE h : IsSum(f, t \ {Chosen(t)}, h))
    <3>1. t \ {Chosen(t)} \in SUBSET s /\ t \ {Chosen(t)} # s
      BY <2>1, ChosenIn
    <3>2. \E h : IsSum(f, t \ {Chosen(t)}, h)
      BY <1>1, <3>1
    <3> QED BY <3>2
  <2>2. ASSUME NEW t \in SUBSET s, t # s PROVE below(t) = sum(t)
    <3>1. \E h : IsSum(f, t, h)
      BY <1>1, <2>2
    <3>2. PICK h : h = (CHOOSE k : IsSum(f, t, k)) /\ IsSum(f, t, h)
      BY <3>1
    <3>3. h[t] = IF t = {} THEN 0 ELSE f[Chosen(t)] + h[t \ {Chosen(t)}]
      BY <3>2 DEF IsSum
    <3>4. t # {} => h[t \ {Chosen(t)}] = below(t \ {Chosen(t)})
      <4>1. IsFiniteSet(t \ {Chosen(t)})
        BY <2>2, FS_Subset
      <4> QED BY <2>1, <3>2, <4>1, SumsAgree
    <3> QED BY <3>2, <3>3, <3>4
  <2>3. \A t \in SUBSET s : t # {} => /\ t \ {Chosen(t)} \in SUBSET s
                                      /\ t \ {Chosen(t)} # s
    BY ChosenIn
  <2>4. \A t \in SUBSET s : t # {} => g[t \ {Chosen(t)}] = below(t \ {Chosen(t)})
    BY <2>2, <2>3
  <2> HIDE DEF below
  <2>5. IsSum(f, s, g)
    BY <2>4 DEF IsSum
  <2> QED BY <2>5
<1> HIDE DEF G
<1>2. S \in G
  BY <1>1, SubsetInduction
<1> QED BY <1>2 DEF G

\* A sum is the number of one element and the sum of the others.
LEMMA SumUnfolds ==
    ASSUME NEW f, NEW S, IsFiniteSet(S)
    PROVE  SumFunctionOnSet(f, S) =
             IF S = {} THEN 0
             ELSE f[Chosen(S)] + SumFunctionOnSet(f, S \ {Chosen(S)})
<1> DEFINE r == S \ {Chosen(S)}
<1>1. IsFiniteSet(r)
  BY FS_Subset
<1>2. PICK g : g = (CHOOSE k : IsSum(f, S, k)) /\ IsSum(f, S, g)
  BY SumExists
<1>3. PICK h : h = (CHOOSE k : IsSum(f, r, k)) /\ IsSum(f, r, h)
  BY <1>1, SumExists
<1>4. g[S] = IF S = {} THEN 0 ELSE f[Chosen(S)] + g[r]
  BY <1>2 DEF IsSum
<1>5. g[r] = h[r]
  BY <1>1, <1>2, <1>3, SumsAgree
<1> QED BY <1>2, <1>3, <1>4, <1>5, SumIsRead

-----------------------------------------------------------------------------
(* What a model needs to know of its sums                                  *)

LEMMA SumIsNat ==
    ASSUME NEW f, NEW S, IsFiniteSet(S), \A x \in S : f[x] \in Nat
    PROVE  SumFunctionOnSet(f, S) \in Nat
<1> DEFINE G == {s \in SUBSET S : SumFunctionOnSet(f, s) \in Nat}
<1>1. ASSUME NEW s \in SUBSET S, \A t \in SUBSET s : t # s => t \in G
      PROVE  s \in G
  <2>1. IsFiniteSet(s)
    BY FS_Subset
  <2>2. s # {} => SumFunctionOnSet(f, s \ {Chosen(s)}) \in Nat /\ f[Chosen(s)] \in Nat
    BY <1>1, ChosenIn
  <2> QED BY <2>1, <2>2, SumUnfolds
<1> HIDE DEF G
<1>2. S \in G
  BY <1>1, SubsetInduction
<1> QED BY <1>2 DEF G

\* Which element is taken out first makes no difference.
LEMMA SumWithout ==
    ASSUME NEW f, NEW S, IsFiniteSet(S), \A x \in S : f[x] \in Nat, NEW x \in S
    PROVE  SumFunctionOnSet(f, S) = f[x] + SumFunctionOnSet(f, S \ {x})
<1> DEFINE Sum(s) == SumFunctionOnSet(f, s)
           G == {s \in SUBSET S : \A y \in s : Sum(s) = f[y] + Sum(s \ {y})}
<1>0. \A s \in SUBSET S : IsFiniteSet(s) /\ Sum(s) \in Nat
  <2> SUFFICES ASSUME NEW s \in SUBSET S PROVE IsFiniteSet(s) /\ Sum(s) \in Nat
    OBVIOUS
  <2>1. IsFiniteSet(s)
    BY FS_Subset
  <2> QED BY <2>1, SumIsNat
<1>1. ASSUME NEW s \in SUBSET S, \A t \in SUBSET s : t # s => t \in G
      PROVE  s \in G
  <2> SUFFICES ASSUME NEW y \in s PROVE Sum(s) = f[y] + Sum(s \ {y})
    OBVIOUS
  <2> DEFINE c == Chosen(s)
  <2>1. c \in s
    BY ChosenIn
  <2>2. Sum(s) = f[c] + Sum(s \ {c})
    BY <1>0, SumUnfolds
  <2>3. CASE y # c
    <3>1. s \ {c} \in G /\ s \ {y} \in G
      BY <1>1, <2>1
    <3>2. Sum(s \ {c}) = f[y] + Sum((s \ {c}) \ {y})
      BY <2>3, <3>1
    <3>3. Sum(s \ {y}) = f[c] + Sum((s \ {y}) \ {c})
      BY <2>1, <2>3, <3>1
    <3>4. (s \ {c}) \ {y} = (s \ {y}) \ {c}
      OBVIOUS
    <3>5. f[y] \in Nat /\ f[c] \in Nat /\ Sum((s \ {y}) \ {c}) \in Nat
      BY <1>0, <2>1
    <3> HIDE DEF Sum, c
    <3> QED BY <2>2, <3>2, <3>3, <3>4, <3>5
  <2> QED BY <2>2, <2>3
<1> HIDE DEF G
<1>2. S \in G
  BY <1>1, SubsetInduction
<1> QED BY <1>2 DEF G

LEMMA SumOfNone ==
    ASSUME NEW f
    PROVE  SumFunctionOnSet(f, {}) = 0
BY FS_EmptySet, SumUnfolds

\* One element more.
LEMMA SumAdds ==
    ASSUME NEW f, NEW S, IsFiniteSet(S), \A y \in S : f[y] \in Nat, NEW x, x \notin S,
           f[x] \in Nat
    PROVE  SumFunctionOnSet(f, S \cup {x}) = SumFunctionOnSet(f, S) + f[x]
<1>1. IsFiniteSet(S \cup {x}) /\ (S \cup {x}) \ {x} = S
  BY FS_AddElement
<1>2. \A y \in S \cup {x} : f[y] \in Nat
  OBVIOUS
<1>3. SumFunctionOnSet(f, S \cup {x}) = f[x] + SumFunctionOnSet(f, (S \cup {x}) \ {x})
  BY <1>1, <1>2, SumWithout
<1>4. SumFunctionOnSet(f, S) \in Nat
  BY SumIsNat
<1>5. SumFunctionOnSet(f, (S \cup {x}) \ {x}) = SumFunctionOnSet(f, S)
  BY <1>1, Zenon
<1> QED BY <1>3, <1>4, <1>5

\* The sum reads the numbers of its elements and nothing else.
LEMMA SumReads ==
    ASSUME NEW S, IsFiniteSet(S), NEW f, NEW g, \A x \in S : f[x] = g[x]
    PROVE  SumFunctionOnSet(f, S) = SumFunctionOnSet(g, S)
<1> DEFINE G == {s \in SUBSET S : SumFunctionOnSet(f, s) = SumFunctionOnSet(g, s)}
<1>1. ASSUME NEW s \in SUBSET S, \A t \in SUBSET s : t # s => t \in G
      PROVE  s \in G
  <2>1. IsFiniteSet(s)
    BY FS_Subset
  <2>2. s # {} => /\ f[Chosen(s)] = g[Chosen(s)]
                  /\ SumFunctionOnSet(f, s \ {Chosen(s)}) = SumFunctionOnSet(g, s \ {Chosen(s)})
    BY <1>1, ChosenIn
  <2> QED BY <2>1, <2>2, SumUnfolds
<1> HIDE DEF G
<1>2. S \in G
  BY <1>1, SubsetInduction
<1> QED BY <1>2 DEF G

\* Less to add of fewer elements.
LEMMA SumGrows ==
    ASSUME NEW S, IsFiniteSet(S), NEW T \in SUBSET S, NEW f, NEW g,
           \A x \in S : g[x] \in Nat, \A x \in T : f[x] \in Nat /\ f[x] <= g[x]
    PROVE  SumFunctionOnSet(f, T) <= SumFunctionOnSet(g, S)
<1> DEFINE G == {s \in SUBSET S :
                    SumFunctionOnSet(f, s \cap T) <= SumFunctionOnSet(g, s)}
<1>0. \A s \in SUBSET S : IsFiniteSet(s) /\ IsFiniteSet(s \cap T)
  BY FS_Subset
<1>1. ASSUME NEW s \in SUBSET S, \A t \in SUBSET s : t # s => t \in G
      PROVE  s \in G
  <2>1. CASE s = {}
    <3>1. s \cap T = {}
      BY <2>1
    <3> QED BY <2>1, <3>1, SumOfNone
  <2>2. ASSUME NEW x \in s PROVE s \in G
    <3> DEFINE r == s \ {x}
    <3>1. SumFunctionOnSet(f, r \cap T) <= SumFunctionOnSet(g, r)
      BY <1>1
    <3>2. SumFunctionOnSet(g, s) = g[x] + SumFunctionOnSet(g, r)
      <4>1. IsFiniteSet(s) /\ \A y \in s : g[y] \in Nat
        BY <1>0
      <4> QED BY <4>1, SumWithout
    <3>3. /\ SumFunctionOnSet(g, r) \in Nat /\ SumFunctionOnSet(f, r \cap T) \in Nat
          /\ g[x] \in Nat
      BY <1>0, SumIsNat
    <3>4. CASE x \in T
      <4>1. (s \cap T) \ {x} = r \cap T /\ x \in s \cap T
        BY <3>4
      <4>2. SumFunctionOnSet(f, s \cap T) = f[x] + SumFunctionOnSet(f, (s \cap T) \ {x})
        BY <1>0, <4>1, SumWithout
      <4>3. f[x] \in Nat /\ f[x] <= g[x]
        BY <3>4
      <4>4. SumFunctionOnSet(f, (s \cap T) \ {x}) = SumFunctionOnSet(f, r \cap T)
        BY <4>1, Zenon
      <4> HIDE DEF r
      <4>5. SumFunctionOnSet(f, s \cap T) <= SumFunctionOnSet(g, s)
        BY <3>1, <3>2, <3>3, <4>2, <4>3, <4>4
      <4> QED BY <4>5
    <3>5. CASE x \notin T
      <4>1. s \cap T = r \cap T
        BY <3>5
      <4>2. SumFunctionOnSet(f, s \cap T) = SumFunctionOnSet(f, r \cap T)
        BY <4>1, Zenon
      <4> HIDE DEF r
      <4>3. SumFunctionOnSet(f, s \cap T) <= SumFunctionOnSet(g, s)
        BY <3>1, <3>2, <3>3, <4>2
      <4> QED BY <4>3
    <3> QED BY <3>4, <3>5
  <2> QED BY <2>1, <2>2
<1> HIDE DEF G
<1>2. S \in G
  BY <1>1, SubsetInduction
<1>3. S \cap T = T
  OBVIOUS
<1> QED BY <1>2, <1>3 DEF G

\* Two parts that share nothing.
LEMMA SumSplits ==
    ASSUME NEW S, IsFiniteSet(S), NEW f, \A x \in S : f[x] \in Nat, NEW T \in SUBSET S
    PROVE  SumFunctionOnSet(f, S) = SumFunctionOnSet(f, T) + SumFunctionOnSet(f, S \ T)
<1> DEFINE Sum(s) == SumFunctionOnSet(f, s)
           G == {s \in SUBSET S : Sum(s) = Sum(s \cap T) + Sum(s \ T)}
<1>0. \A s \in SUBSET S : /\ IsFiniteSet(s) /\ IsFiniteSet(s \cap T) /\ IsFiniteSet(s \ T)
                          /\ \A y \in s : f[y] \in Nat
  BY FS_Subset
<1>1. ASSUME NEW s \in SUBSET S, \A t \in SUBSET s : t # s => t \in G
      PROVE  s \in G
  <2>1. CASE s = {}
    <3>1. s \cap T = {} /\ s \ T = {}
      BY <2>1
    <3>2. Sum(s) = 0 /\ Sum(s \cap T) = 0 /\ Sum(s \ T) = 0
      BY <2>1, <3>1, SumOfNone
    <3> QED BY <3>2
  <2>2. ASSUME NEW x \in s PROVE s \in G
    <3> DEFINE r == s \ {x}
    <3>1. Sum(r) = Sum(r \cap T) + Sum(r \ T)
      BY <1>1
    <3>2. Sum(s) = f[x] + Sum(r)
      <4>1. IsFiniteSet(s) /\ \A y \in s : f[y] \in Nat
        BY <1>0
      <4>2. Sum(s) = f[x] + Sum(s \ {x})
        BY <4>1, SumWithout
      <4> QED BY <4>2
    <3>3. Sum(r \cap T) \in Nat /\ Sum(r \ T) \in Nat /\ f[x] \in Nat
      <4>1. r \in SUBSET S
        OBVIOUS
      <4> HIDE DEF r
      <4> QED BY <1>0, <4>1, SumIsNat
    <3>4. CASE x \in T
      <4>1. (s \cap T) \ {x} = r \cap T /\ x \in s \cap T /\ s \ T = r \ T
        BY <3>4
      <4>2. Sum(s \cap T) = f[x] + Sum((s \cap T) \ {x})
        <5>1. IsFiniteSet(s \cap T) /\ \A y \in s \cap T : f[y] \in Nat
          BY <1>0
        <5> QED BY <4>1, <5>1, SumWithout
      <4>3. Sum((s \cap T) \ {x}) = Sum(r \cap T) /\ Sum(s \ T) = Sum(r \ T)
        BY <4>1, Zenon
      <4> HIDE DEF r, Sum
      <4>4. Sum(s) = Sum(s \cap T) + Sum(s \ T)
        BY <3>1, <3>2, <3>3, <4>2, <4>3
      <4> QED BY <4>4
    <3>5. CASE x \notin T
      <4>1. (s \ T) \ {x} = r \ T /\ x \in s \ T /\ s \cap T = r \cap T
        BY <3>5
      <4>2. Sum(s \ T) = f[x] + Sum((s \ T) \ {x})
        <5>1. IsFiniteSet(s \ T) /\ \A y \in s \ T : f[y] \in Nat
          BY <1>0
        <5> QED BY <4>1, <5>1, SumWithout
      <4>3. Sum((s \ T) \ {x}) = Sum(r \ T) /\ Sum(s \cap T) = Sum(r \cap T)
        BY <4>1, Zenon
      <4> HIDE DEF r, Sum
      <4>4. Sum(s) = Sum(s \cap T) + Sum(s \ T)
        BY <3>1, <3>2, <3>3, <4>2, <4>3
      <4> QED BY <4>4
    <3> QED BY <3>4, <3>5
  <2> QED BY <2>1, <2>2
<1> HIDE DEF G
<1>2. S \in G
  BY <1>1, SubsetInduction
<1>3. S \cap T = T
  OBVIOUS
<1> QED BY <1>2, <1>3 DEF G

\* The same sum, read through a name that each element has for itself.
LEMMA SumRenamed ==
    ASSUME NEW S, IsFiniteSet(S), NEW f, NEW g, NEW h,
           \A x \in S : g[x] \in Nat /\ f[h[x]] = g[x],
           \A x, y \in S : h[x] = h[y] => x = y
    PROVE  SumFunctionOnSet(f, {h[x] : x \in S}) = SumFunctionOnSet(g, S)
<1> DEFINE named(s) == {h[x] : x \in s}
           G == {s \in SUBSET S : SumFunctionOnSet(f, named(s)) = SumFunctionOnSet(g, s)}
<1>0. \A s \in SUBSET S : /\ IsFiniteSet(s) /\ IsFiniteSet(named(s))
                          /\ \A y \in named(s) : f[y] \in Nat
  <2> SUFFICES ASSUME NEW s \in SUBSET S
               PROVE  IsFiniteSet(s) /\ IsFiniteSet(named(s)) /\ \A y \in named(s) : f[y] \in Nat
    OBVIOUS
  <2>1. IsFiniteSet(s)
    BY FS_Subset
  <2>2. IsFiniteSet(named(s))
    <3> DEFINE k == [x \in s |-> h[x]]
    <3>1. k \in Surjection(s, named(s))
      BY DEF Surjection
    <3> HIDE DEF k
    <3> QED BY <2>1, <3>1, FS_Surjection
  <2> QED BY <2>1, <2>2
<1>1. ASSUME NEW s \in SUBSET S, \A t \in SUBSET s : t # s => t \in G
      PROVE  s \in G
  <2>1. CASE s = {}
    <3>1. named(s) = {}
      BY <2>1
    <3> QED BY <2>1, <3>1, SumOfNone
  <2>2. ASSUME NEW x \in s PROVE s \in G
    <3> DEFINE r == s \ {x}
    <3>1. SumFunctionOnSet(f, named(r)) = SumFunctionOnSet(g, r)
      BY <1>1
    <3>2. SumFunctionOnSet(g, s) = g[x] + SumFunctionOnSet(g, r)
      <4>1. IsFiniteSet(s) /\ \A y \in s : g[y] \in Nat
        BY <1>0
      <4> QED BY <4>1, SumWithout
    <3>3. named(s) \ {h[x]} = named(r) /\ h[x] \in named(s) /\ f[h[x]] = g[x]
      OBVIOUS
    <3>4. SumFunctionOnSet(f, named(s)) = f[h[x]] + SumFunctionOnSet(f, named(s) \ {h[x]})
      <4>1. IsFiniteSet(named(s)) /\ (\A y \in named(s) : f[y] \in Nat) /\ h[x] \in named(s)
        BY <1>0
      <4> HIDE DEF named
      <4> QED BY <4>1, SumWithout
    <3>5. SumFunctionOnSet(f, named(s) \ {h[x]}) = SumFunctionOnSet(f, named(r))
      BY <3>3, Zenon
    <3> HIDE DEF named, r
    <3>6. SumFunctionOnSet(f, named(s)) = SumFunctionOnSet(g, s)
      BY <3>1, <3>2, <3>3, <3>4, <3>5
    <3> QED BY <3>6 DEF named
  <2> QED BY <2>1, <2>2
<1> HIDE DEF G
<1>2. S \in G
  BY <1>1, SubsetInduction
<1> QED BY <1>2 DEF G
=============================================================================
