--------------------------- MODULE RunGatesProofs ---------------------------
(***************************************************************************)
(* What the gates between the steps of a run promise, for any number of    *)
(* milestones and attempts, any costs, ceilings, signals and resets, and   *)
(* any number of runs.                                                     *)
(***************************************************************************)
EXTENDS RunGates, FiniteSetTheorems, SequenceTheorems, TLAPS

-----------------------------------------------------------------------------
(* Sums                                                                    *)

(* A set of naturals has a smallest element, and Min is it.                *)
LEMMA Smallest ==
  ASSUME NEW S \in SUBSET Nat, S # {}
  PROVE  Min(S) \in S /\ \A n \in S : Min(S) <= n
<1> DEFINE Less == {pair \in Nat \X Nat : pair[1] < pair[2]}
<1>1. IsWellFoundedOn(Less, Nat)
  BY NatLessThanWellFounded, Zenon DEF OpToRel
<1>2. \A m, n \in Nat : m < n => <<m, n>> \in Less
  OBVIOUS
<1> HIDE DEF Less
<1>3. PICK least \in S : \A n \in S : ~(<<n, least>> \in Less)
  BY <1>1, WFMin
<1>4. ASSUME NEW n \in S PROVE least <= n
  <2>1. ~(n < least)
    BY <1>3, <1>2
  <2> QED BY <2>1
<1> QED BY <1>4 DEF Min

(* What holds of 0, and of n + 1 when of n, holds of every natural number. *)
LEMMA ByInduction ==
  ASSUME NEW S, 0 \in S, \A n \in Nat : n \in S => n + 1 \in S
  PROVE  Nat \subseteq S
<1> DEFINE out == Nat \ S
<1> SUFFICES out = {}
  OBVIOUS
<1>1. SUFFICES ASSUME out # {} PROVE FALSE
  OBVIOUS
<1>2. Min(out) \in out /\ \A n \in out : Min(out) <= n
  <2>1. out \in SUBSET Nat
    OBVIOUS
  <2> HIDE DEF out
  <2> QED BY <1>1, <2>1, Smallest
<1>3. Min(out) - 1 \in Nat /\ Min(out) - 1 \notin out
  BY <1>2
<1> QED BY <1>2, <1>3

(* How the sum of a function over the subsets of a set is computed: it     *)
(* takes out one element after the other.                                  *)
Adds(g, f, s) == IF s = {} THEN 0
                 ELSE f[CHOOSE x \in s : TRUE] + g[s \ {CHOOSE x \in s : TRUE}]
Computes(g, f, S) == g = [s \in SUBSET S |-> Adds(g, f, s)]

LEMMA SumIsComputed ==
  ASSUME NEW f, NEW S
  PROVE  SumFunctionOnSet(f, S) = (CHOOSE g : Computes(g, f, S))[S]
  BY DEF SumFunctionOnSet, FoldFunctionOnSet, MapThenFoldSet, Computes, Adds

LEMMA TakenOut ==
  ASSUME NEW S, IsFiniteSet(S), NEW s \in SUBSET S, NEW x \in s
  PROVE  /\ s \ {x} \in SUBSET S
         /\ Cardinality(s) \in Nat /\ Cardinality(s \ {x}) \in Nat
         /\ Cardinality(s) = Cardinality(s \ {x}) + 1
<1>2. IsFiniteSet(s) /\ IsFiniteSet(s \ {x})
  BY FS_Subset, FS_RemoveElement
<1>3. Cardinality(s) \in Nat /\ Cardinality(s \ {x}) \in Nat
  BY <1>2, FS_CardinalityType
<1>4. Cardinality(s \ {x}) = Cardinality(s) - 1
  BY <1>2, FS_RemoveElement
<1> QED BY <1>3, <1>4

LEMMA SumExists ==
  ASSUME NEW f, NEW S, IsFiniteSet(S), \A x \in S : f[x] \in Nat
  PROVE  \E g \in [SUBSET S -> Nat] : Computes(g, f, S)
<1> DEFINE Fits(g, k) == \A s \in SUBSET S : Cardinality(s) <= k => g[s] = Adds(g, f, s)
           Built == {k \in Nat : \E g \in [SUBSET S -> Nat] : Fits(g, k)}
<1>1. \A s \in SUBSET S : Cardinality(s) \in Nat
  BY FS_Subset, FS_CardinalityType
<1>2. ASSUME NEW g \in [SUBSET S -> Nat], NEW s \in SUBSET S PROVE Adds(g, f, s) \in Nat
  <2>1. CASE s = {}
    BY <2>1 DEF Adds
  <2>2. CASE s # {}
    <3> DEFINE x == CHOOSE y \in s : TRUE
    <3>1. x \in s /\ s \ {x} \in SUBSET S
      BY <2>2
    <3> HIDE DEF x
    <3>2. f[x] \in Nat /\ g[s \ {x}] \in Nat
      BY <3>1
    <3> QED BY <2>2, <3>2 DEF Adds, x
  <2> QED BY <2>1, <2>2
<1>3. 0 \in Built
  <2> DEFINE g == [s \in SUBSET S |-> 0]
  <2>1. ASSUME NEW s \in SUBSET S, Cardinality(s) <= 0 PROVE g[s] = Adds(g, f, s)
    <3>1. s = {}
      BY <1>1, <2>1, FS_Subset, FS_EmptySet
    <3> QED BY <3>1 DEF Adds
  <2>2. g \in [SUBSET S -> Nat] /\ Fits(g, 0)
    BY <2>1
  <2> HIDE DEF g, Fits
  <2> QED BY <2>2
<1>4. ASSUME NEW k \in Nat, k \in Built PROVE k + 1 \in Built
  <2>1. PICK g \in [SUBSET S -> Nat] : Fits(g, k)
    <3> HIDE DEF Fits
    <3> QED BY <1>4
  <2> DEFINE h == [s \in SUBSET S |-> Adds(g, f, s)]
  <2>2. h \in [SUBSET S -> Nat]
    BY <1>2
  <2>3. \A s \in SUBSET S : Cardinality(s) <= k => h[s] = g[s]
    BY <2>1
  <2>4. ASSUME NEW s \in SUBSET S, Cardinality(s) <= k + 1 PROVE h[s] = Adds(h, f, s)
    <3>1. CASE s = {}
      BY <3>1 DEF Adds
    <3>2. CASE s # {}
      <4> DEFINE x == CHOOSE y \in s : TRUE
      <4>1. s \ {x} \in SUBSET S /\ Cardinality(s \ {x}) <= k
        <5>1. /\ s \ {x} \in SUBSET S
              /\ Cardinality(s) \in Nat /\ Cardinality(s \ {x}) \in Nat
              /\ Cardinality(s) = Cardinality(s \ {x}) + 1
          <6>1. x \in s
            BY <3>2
          <6> HIDE DEF x
          <6> QED BY <6>1, TakenOut
        <5> HIDE DEF x
        <5> QED BY <2>4, <5>1
      <4>2. h[s \ {x}] = g[s \ {x}]
        <5> HIDE DEF h, x
        <5> QED BY <2>3, <4>1
      <4>3. h[s] = f[x] + g[s \ {x}]
        BY <3>2 DEF Adds
      <4>4. Adds(h, f, s) = f[x] + h[s \ {x}]
        <5> HIDE DEF h
        <5> QED BY <3>2 DEF Adds
      <4> HIDE DEF h, x
      <4> QED BY <4>2, <4>3, <4>4
    <3> QED BY <3>1, <3>2
  <2>5. Fits(h, k + 1)
    <3> HIDE DEF h
    <3> QED BY <2>4
  <2> HIDE DEF h, Fits
  <2> QED BY <2>2, <2>5
<1>5. Cardinality(S) \in Built
  <2>1. Cardinality(S) \in Nat
    BY <1>1
  <2> HIDE DEF Built
  <2> QED BY <1>3, <1>4, <2>1, ByInduction
<1>6. PICK g \in [SUBSET S -> Nat] : Fits(g, Cardinality(S))
  <2> HIDE DEF Fits
  <2> QED BY <1>5
<1>7. \A s \in SUBSET S : g[s] = Adds(g, f, s)
  BY <1>6, FS_Subset
<1>8. g = [s \in SUBSET S |-> Adds(g, f, s)]
  BY <1>7
<1> QED BY <1>8 DEF Computes

(* Whatever a sum is computed as part of, it is the same.                  *)
LEMMA SumOfPart ==
  ASSUME NEW f, NEW S, IsFiniteSet(S), \A x \in S : f[x] \in Nat,
         NEW g, Computes(g, f, S), NEW T \in SUBSET S
  PROVE  g[T] = SumFunctionOnSet(f, T)
<1> DEFINE h == CHOOSE k : Computes(k, f, T)
           Same == {k \in Nat : \A s \in SUBSET T : Cardinality(s) = k => g[s] = h[s]}
<1>1. IsFiniteSet(T)
  BY FS_Subset
<1>2. Computes(h, f, T)
  BY <1>1, SumExists
<1>3. SumFunctionOnSet(f, T) = h[T]
  BY SumIsComputed
<1> HIDE DEF h
<1>4. \A s \in SUBSET T : g[s] = Adds(g, f, s) /\ h[s] = Adds(h, f, s)
  BY <1>2 DEF Computes
<1>5. 0 \in Same
  <2>1. ASSUME NEW s \in SUBSET T, Cardinality(s) = 0 PROVE g[s] = h[s]
    <3>1. s = {}
      BY <1>1, <2>1, FS_Subset, FS_EmptySet
    <3> QED BY <1>4, <3>1 DEF Adds
  <2> QED BY <2>1
<1>6. ASSUME NEW k \in Nat, k \in Same PROVE k + 1 \in Same
  <2>1. ASSUME NEW s \in SUBSET T, Cardinality(s) = k + 1 PROVE g[s] = h[s]
    <3>1. s # {}
      BY <2>1, FS_EmptySet
    <3> DEFINE x == CHOOSE y \in s : TRUE
    <3>2. /\ s \ {x} \in SUBSET T
          /\ Cardinality(s) \in Nat /\ Cardinality(s \ {x}) \in Nat
          /\ Cardinality(s) = Cardinality(s \ {x}) + 1
      <4>1. x \in s
        BY <3>1
      <4> HIDE DEF x
      <4> QED BY <1>1, <4>1, TakenOut
    <3>3. g[s] = f[x] + g[s \ {x}] /\ h[s] = f[x] + h[s \ {x}]
      BY <1>4, <3>1 DEF Adds
    <3> HIDE DEF x
    <3>4. Cardinality(s \ {x}) = k
      BY <2>1, <3>2
    <3>5. g[s \ {x}] = h[s \ {x}]
      BY <1>6, <3>2, <3>4
    <3> QED BY <3>3, <3>5
  <2> QED BY <2>1
<1>7. Cardinality(T) \in Same
  <2>1. Cardinality(T) \in Nat
    BY <1>1, FS_CardinalityType
  <2> HIDE DEF Same
  <2> QED BY <1>5, <1>6, <2>1, ByInduction
<1> QED BY <1>3, <1>7

LEMMA SumOneByOne ==
  ASSUME NEW f, NEW S, IsFiniteSet(S), \A x \in S : f[x] \in Nat
  PROVE  /\ SumFunctionOnSet(f, S) \in Nat
         /\ S = {} => SumFunctionOnSet(f, S) = 0
         /\ S # {} => LET x == CHOOSE y \in S : TRUE
                      IN  SumFunctionOnSet(f, S) = f[x] + SumFunctionOnSet(f, S \ {x})
<1>1. PICK g \in [SUBSET S -> Nat] : Computes(g, f, S)
  BY SumExists
<1>2. \A T \in SUBSET S : g[T] = SumFunctionOnSet(f, T)
  BY <1>1, SumOfPart
<1>3. g[S] = Adds(g, f, S)
  BY <1>1 DEF Computes
<1>4. S = {} => g[S] = 0
  BY <1>3 DEF Adds
<1>5. S # {} => g[S] = f[CHOOSE y \in S : TRUE] + g[S \ {CHOOSE y \in S : TRUE}]
  BY <1>3 DEF Adds
<1> QED BY <1>1, <1>2, <1>4, <1>5

(* The order does not matter.                                              *)
LEMMA SumTakesAny ==
  ASSUME NEW f, NEW S, IsFiniteSet(S), \A x \in S : f[x] \in Nat, NEW z \in S
  PROVE  SumFunctionOnSet(f, S) = f[z] + SumFunctionOnSet(f, S \ {z})
<1> DEFINE Sum(T) == SumFunctionOnSet(f, T)
           Free == {k \in Nat : \A T \in SUBSET S : \A y \in T :
                     Cardinality(T) = k => Sum(T) = f[y] + Sum(T \ {y})}
<1>1. \A T \in SUBSET S : IsFiniteSet(T) /\ Cardinality(T) \in Nat /\ Sum(T) \in Nat
  BY FS_Subset, FS_CardinalityType, SumOneByOne
<1>2. 0 \in Free
  BY <1>1, FS_EmptySet
<1>3. ASSUME NEW k \in Nat, k \in Free PROVE k + 1 \in Free
  <2>1. ASSUME NEW T \in SUBSET S, NEW y \in T, Cardinality(T) = k + 1
        PROVE  Sum(T) = f[y] + Sum(T \ {y})
    <3> DEFINE x == CHOOSE v \in T : TRUE
    <3>1. Sum(T) = f[x] + Sum(T \ {x}) /\ x \in T
      <4>1. IsFiniteSet(T) /\ \A v \in T : f[v] \in Nat
        BY <1>1
      <4> QED BY <4>1, SumOneByOne
    <3> HIDE DEF x
    <3>2. CASE x = y
      BY <3>1, <3>2
    <3>3. CASE x # y
      <4>1. Cardinality(T \ {x}) = k /\ Cardinality(T \ {y}) = k
        <5>1. /\ Cardinality(T \ {x}) \in Nat /\ Cardinality(T \ {y}) \in Nat
              /\ Cardinality(T) = Cardinality(T \ {x}) + 1
              /\ Cardinality(T) = Cardinality(T \ {y}) + 1
          BY <3>1, TakenOut
        <5> QED BY <2>1, <5>1
      <4>2. T \ {x} \in SUBSET S /\ y \in T \ {x} /\ T \ {y} \in SUBSET S /\ x \in T \ {y}
        BY <3>1, <3>3
      <4>3. /\ Sum(T \ {x}) = f[y] + Sum((T \ {x}) \ {y})
            /\ Sum(T \ {y}) = f[x] + Sum((T \ {y}) \ {x})
        <5> HIDE DEF Sum
        <5> QED BY <1>3, <4>1, <4>2
      <4>4. (T \ {x}) \ {y} = (T \ {y}) \ {x} /\ (T \ {x}) \ {y} \in SUBSET S
        OBVIOUS
      <4>5. f[x] \in Nat /\ f[y] \in Nat /\ Sum((T \ {x}) \ {y}) \in Nat
        BY <1>1, <4>2, <4>4
      <4> HIDE DEF Sum
      <4> QED BY <3>1, <4>3, <4>4, <4>5
    <3> QED BY <3>2, <3>3
  <2> HIDE DEF Sum
  <2> QED BY <2>1
<1>4. Cardinality(S) \in Free
  <2>1. Cardinality(S) \in Nat
    BY FS_CardinalityType
  <2> HIDE DEF Free
  <2> QED BY <1>2, <1>3, <2>1, ByInduction
<1> HIDE DEF Sum
<1>5. Sum(S) = f[z] + Sum(S \ {z})
  BY <1>4
<1> QED BY <1>5 DEF Sum

(* The sum of less over less is less.                                      *)
LEMMA SumIsLess ==
  ASSUME NEW f, NEW A, IsFiniteSet(A), \A x \in A : f[x] \in Nat,
         NEW g, NEW B, IsFiniteSet(B), \A x \in B : g[x] \in Nat,
         \A x \in A : IF x \in B THEN f[x] <= g[x] ELSE f[x] = 0
  PROVE  SumFunctionOnSet(f, A) <= SumFunctionOnSet(g, B)
<1> DEFINE Of(T) == SumFunctionOnSet(f, T)
           In(U) == SumFunctionOnSet(g, U)
           Less == {k \in Nat : \A T \in SUBSET A, U \in SUBSET B :
                      Cardinality(T) = k /\ T \cap B \subseteq U => Of(T) <= In(U)}
<1>1. \A T \in SUBSET A : IsFiniteSet(T) /\ Cardinality(T) \in Nat /\ Of(T) \in Nat
  BY FS_Subset, FS_CardinalityType, SumOneByOne
<1>2. \A U \in SUBSET B : IsFiniteSet(U) /\ In(U) \in Nat
  BY FS_Subset, SumOneByOne
<1>3. 0 \in Less
  <2>1. ASSUME NEW T \in SUBSET A, NEW U \in SUBSET B, Cardinality(T) = 0
        PROVE  Of(T) <= In(U)
    <3>1. T = {}
      BY <1>1, <2>1, FS_EmptySet
    <3>2. Of(T) = 0
      BY <1>1, <3>1, SumOneByOne
    <3> HIDE DEF Of, In
    <3> QED BY <1>2, <3>2
  <2> HIDE DEF Of, In
  <2> QED BY <2>1
<1>4. ASSUME NEW k \in Nat, k \in Less PROVE k + 1 \in Less
  <2>1. ASSUME NEW T \in SUBSET A, NEW U \in SUBSET B, Cardinality(T) = k + 1,
               T \cap B \subseteq U
        PROVE  Of(T) <= In(U)
    <3>1. PICK x \in T : TRUE
      BY <2>1, FS_EmptySet
    <3> DEFINE less == T \ {x}
    <3>2. less \in SUBSET A /\ Cardinality(less) = k
      <4>1. Cardinality(T \ {x}) \in Nat /\ Cardinality(T) = Cardinality(T \ {x}) + 1
        BY TakenOut
      <4> QED BY <2>1, <4>1
    <3>3. Of(T) = f[x] + Of(less)
      BY <1>1, SumTakesAny
    <3>4. f[x] \in Nat /\ Of(less) \in Nat
      BY <1>1, <3>2
    <3>5. CASE x \in B
      <4>1. In(U) = g[x] + In(U \ {x})
        BY <1>2, <2>1, <3>5, SumTakesAny
      <4>2. U \ {x} \in SUBSET B /\ less \cap B \subseteq U \ {x}
        BY <2>1
      <4>3. f[x] <= g[x] /\ g[x] \in Nat /\ In(U \ {x}) \in Nat
        BY <1>2, <3>5, <4>2
      <4> HIDE DEF less, Of, In
      <4>4. Of(less) <= In(U \ {x})
        BY <1>4, <3>2, <4>2
      <4> QED BY <3>3, <3>4, <4>1, <4>3, <4>4
    <3>6. CASE x \notin B
      <4>1. less \cap B \subseteq U /\ f[x] = 0
        BY <2>1, <3>6
      <4> HIDE DEF less, Of, In
      <4>2. Of(less) <= In(U)
        BY <1>4, <3>2, <4>1
      <4> QED BY <3>3, <3>4, <4>1, <4>2
    <3> QED BY <3>5, <3>6
  <2> HIDE DEF Of, In
  <2> QED BY <2>1
<1>5. Cardinality(A) \in Less
  <2>1. Cardinality(A) \in Nat
    BY FS_CardinalityType
  <2> HIDE DEF Less
  <2> QED BY <1>3, <1>4, <2>1, ByInduction
<1> HIDE DEF Of, In
<1>6. Of(A) <= In(B)
  BY <1>5
<1> QED BY <1>6 DEF Of, In

(* A value more adds to the sum.                                           *)
LEMMA SumAfterCharge ==
  ASSUME NEW S, IsFiniteSet(S), NEW f \in [S -> Nat], NEW x \in S, NEW c \in Nat
  PROVE  SumFunctionOnSet([f EXCEPT ![x] = @ + c], S) = SumFunctionOnSet(f, S) + c
<1> DEFINE g == [f EXCEPT ![x] = @ + c]
           rest == S \ {x}
<1>1. g \in [S -> Nat] /\ g[x] = f[x] + c /\ \A y \in rest : g[y] = f[y]
  OBVIOUS
<1> HIDE DEF g
<1>2. IsFiniteSet(rest) /\ rest \subseteq S
  BY FS_RemoveElement
<1>3. /\ SumFunctionOnSet(g, S) = g[x] + SumFunctionOnSet(g, rest)
      /\ SumFunctionOnSet(f, S) = f[x] + SumFunctionOnSet(f, rest)
  BY <1>1, SumTakesAny
<1> HIDE DEF rest
<1>4. \A y \in rest : f[y] \in Nat /\ g[y] \in Nat /\ g[y] <= f[y] /\ f[y] <= g[y]
  BY <1>1, <1>2
<1>5. /\ SumFunctionOnSet(g, rest) <= SumFunctionOnSet(f, rest)
      /\ SumFunctionOnSet(f, rest) <= SumFunctionOnSet(g, rest)
  BY <1>2, <1>4, SumIsLess
<1>6. SumFunctionOnSet(g, rest) \in Nat /\ SumFunctionOnSet(f, rest) \in Nat
  BY <1>2, <1>4, SumOneByOne
<1>7. SumFunctionOnSet(g, S) = SumFunctionOnSet(f, S) + c
  BY <1>1, <1>3, <1>5, <1>6
<1> QED BY <1>7 DEF g

-----------------------------------------------------------------------------
(* The types                                                               *)

(* The last n entries of a window, or all of them.                         *)
LEMMA LastOnes ==
  ASSUME NEW S, NEW s \in Seq(S), NEW n \in Nat
  PROVE  /\ LastOf(s, n) \in Seq(S)
         /\ Len(LastOf(s, n)) = (IF n < Len(s) THEN n ELSE Len(s))
         /\ \A i \in 1 .. Len(LastOf(s, n)) :
              LastOf(s, n)[i] = s[Len(s) - Len(LastOf(s, n)) + i]
<1> DEFINE first == IF n < Len(s) THEN Len(s) - n + 1 ELSE 1
           last  == SubSeq(s, first, Len(s))
<1>1. Len(s) \in Nat /\ \A i \in 1 .. Len(s) : s[i] \in S
  OBVIOUS
<1>2. first \in Int /\ first >= 1 /\ first <= Len(s) + 1
  BY <1>1
<1>3. last = LastOf(s, n)
  BY DEF LastOf
<1>4. Len(s) - first + 1 = IF n < Len(s) THEN n ELSE Len(s)
  BY <1>1
<1> HIDE DEF first
<1>5. /\ last \in Seq(S)
      /\ Len(last) = (IF first <= Len(s) THEN Len(s) - first + 1 ELSE 0)
      /\ \A i \in 1 .. Len(s) - first + 1 : last[i] = s[first + i - 1]
  <2>1. \A i \in first .. Len(s) : s[i] \in S
    BY <1>1, <1>2
  <2> QED BY <1>1, <1>2, <2>1, SubSeqProperties
<1> HIDE DEF last
<1>6. Len(last) = Len(s) - first + 1
  BY <1>1, <1>2, <1>5
<1>7. \A i \in 1 .. Len(last) : last[i] = s[Len(s) - Len(last) + i]
  BY <1>1, <1>2, <1>5, <1>6
<1> QED BY <1>3, <1>4, <1>5, <1>6, <1>7

(* The rules are a sequence of what the four lists hold.                   *)
Listed == {LimitRules[1], LimitRules[2], LimitRules[3], LimitRules[4],
           CheckRules[1], CheckRules[2], CheckRules[3],
           CallRules[1], CallRules[2], CallRules[3],
           ReviewRules[1], ReviewRules[2], ReviewRules[3], ReviewRules[4]}

LEMMA Tuples ==
  ASSUME NEW S, NEW s
  PROVE  /\ s = <<s[1], s[2], s[3]>> /\ {s[1], s[2], s[3]} \subseteq S => s \in Seq(S)
         /\ s = <<s[1], s[2], s[3], s[4]>> /\ {s[1], s[2], s[3], s[4]} \subseteq S
              => s \in Seq(S)
<1> DEFINE a == s[1]
           b == s[2]
           c == s[3]
           d == s[4]
<1>1. ASSUME s = <<a, b, c>>, {a, b, c} \subseteq S PROVE s \in Seq(S)
  <2> HIDE DEF a, b, c
  <2> QED BY <1>1
<1>2. ASSUME s = <<a, b, c, d>>, {a, b, c, d} \subseteq S PROVE s \in Seq(S)
  <2> HIDE DEF a, b, c, d
  <2> QED BY <1>2
<1> QED BY <1>1, <1>2, Zenon

LEMMA RulesAreListed == Rules \in Seq(Listed)
<1>1. LimitRules = <<LimitRules[1], LimitRules[2], LimitRules[3], LimitRules[4]>>
  BY DEF LimitRules
<1>2. CheckRules = <<CheckRules[1], CheckRules[2], CheckRules[3]>>
  BY DEF CheckRules
<1>3. CallRules = <<CallRules[1], CallRules[2], CallRules[3]>>
  BY DEF CallRules
<1>4. ReviewRules = <<ReviewRules[1], ReviewRules[2], ReviewRules[3], ReviewRules[4]>>
  BY DEF ReviewRules
<1>5. /\ {LimitRules[1], LimitRules[2], LimitRules[3], LimitRules[4]} \subseteq Listed
      /\ {CheckRules[1], CheckRules[2], CheckRules[3]} \subseteq Listed
      /\ {CallRules[1], CallRules[2], CallRules[3]} \subseteq Listed
      /\ {ReviewRules[1], ReviewRules[2], ReviewRules[3], ReviewRules[4]} \subseteq Listed
  BY Zenon DEF Listed
<1>6. LimitRules \in Seq(Listed) /\ CheckRules \in Seq(Listed)
  BY <1>1, <1>2, <1>5, Tuples, Zenon
<1>7. CallRules \in Seq(Listed) /\ ReviewRules \in Seq(Listed)
  BY <1>3, <1>4, <1>5, Tuples, Zenon
<1> QED BY <1>6, <1>7, ConcatProperties DEF Rules

LEMMA RulesAreSureOrNot == ASSUME NEW i \in DOMAIN Rules PROVE Rules[i].sure \in BOOLEAN
<1>1. /\ LimitRules[1].sure = TRUE /\ LimitRules[2].sure = TRUE
      /\ LimitRules[3].sure = TRUE /\ LimitRules[4].sure = TRUE
  BY DEF LimitRules
<1>2. CheckRules[1].sure = TRUE /\ CheckRules[2].sure = TRUE /\ CheckRules[3].sure = TRUE
  BY DEF CheckRules
<1>3. CallRules[1].sure = TRUE /\ CallRules[2].sure = TRUE /\ CallRules[3].sure = FALSE
  BY DEF CallRules
<1>4. /\ ReviewRules[1].sure = TRUE /\ ReviewRules[2].sure = TRUE
      /\ ReviewRules[3].sure = TRUE /\ ReviewRules[4].sure = TRUE
  BY DEF ReviewRules
<1>5. Rules[i] \in Listed
  BY RulesAreListed
<1> QED BY <1>1, <1>2, <1>3, <1>4, <1>5, Zenon DEF Listed

(* A failure is unknown, or has the class of a rule that saw something.    *)
LEMMA ClassifiedByARule ==
  ASSUME NEW signals, NEW anchor
  PROVE  \/ Classify(signals, anchor) = Unknown
         \/ \E i \in DOMAIN Rules :
              /\ Rules[i].accepts \cap Seen(signals, anchor) # {}
              /\ Classify(signals, anchor) = [class |-> Rules[i].class,
                                              sure |-> Rules[i].sure]
<1> DEFINE matching == {i \in DOMAIN Rules :
                          Rules[i].accepts \cap Seen(signals, anchor) # {}}
<1>1. DOMAIN Rules \subseteq Nat
  BY RulesAreListed
<1>2. CASE matching = {}
  BY <1>2 DEF Classify
<1>3. CASE matching # {}
  <2>1. matching \in SUBSET Nat
    BY <1>1
  <2>2. Classify(signals, anchor) = [class |-> Rules[Min(matching)].class,
                                     sure |-> Rules[Min(matching)].sure]
    BY <1>3 DEF Classify
  <2>3. Min(matching) \in matching
    <3> HIDE DEF matching
    <3> QED BY <1>3, <2>1, Smallest
  <2> QED BY <2>2, <2>3
<1> QED BY <1>2, <1>3

LEMMA ClassIsOne ==
  ASSUME NEW signals, NEW anchor
  PROVE  Classify(signals, anchor) \in Entry
<1>1. CASE Classify(signals, anchor) = Unknown
  BY <1>1 DEF Unknown, Entry, Class
<1>2. ASSUME NEW i \in DOMAIN Rules,
             Classify(signals, anchor) = [class |-> Rules[i].class, sure |-> Rules[i].sure]
      PROVE  Classify(signals, anchor) \in Entry
  <2>2. Rules[i].sure \in BOOLEAN /\ Rules[i].class \in Class
    BY RulesAreSureOrNot, Zenon DEF Class
  <2> QED BY <1>2, <2>2 DEF Entry
<1> QED BY <1>1, <1>2, ClassifiedByARule

(* What the steps do to the state keeps its form.                          *)
LEMMA StateCharged ==
  ASSUME NEW s \in State, NEW c \in Nat
  PROVE  /\ [s EXCEPT !.total = @ + c] \in State
         /\ [s EXCEPT !.total = @ + c].total = s.total + c
         /\ [s EXCEPT !.total = @ + c].window = s.window
<1>1. s.total + c \in Nat
  BY DEF State
<1> QED BY <1>1 DEF State

LEMMA StateSettled ==
  ASSUME NEW s \in State, NEW m \in Names
  PROVE  /\ [s EXCEPT !.completed = @ \cup {m}] \in State
         /\ [s EXCEPT !.failed = @ \cup {m}] \in State
         /\ [s EXCEPT !.completed = @ \cup {m}].total = s.total
         /\ [s EXCEPT !.failed = @ \cup {m}].total = s.total
         /\ [s EXCEPT !.completed = @ \cup {m}].window = s.window
         /\ [s EXCEPT !.failed = @ \cup {m}].window = s.window
<1>1. s.completed \cup {m} \in SUBSET Names /\ s.failed \cup {m} \in SUBSET Names
  BY DEF State
<1> QED BY <1>1 DEF State

LEMMA StateRemembers ==
  ASSUME NEW s \in State, NEW w \in Seq(Entry)
  PROVE  /\ [s EXCEPT !.window = w] \in State
         /\ [s EXCEPT !.window = w].total = s.total
         /\ [s EXCEPT !.window = w].window = w
  BY DEF State

LEMMA TypeInitial == Init => TypeOK
<1> SUFFICES ASSUME Init PROVE TypeOK
  OBVIOUS
<1>1. Milestones \in Nat /\ Attempts \in Nat \ {0} /\ MaxRuns \in Nat /\ MaxResets \in Nat
      /\ Horizon \in Nat \ {0} /\ DiversityWindow \in Nat \ {0}
  BY GatesAssumption, BreakerAssumption
<1>2. TelemetryTyped
  <2>1. NoTriage \in Triages
    BY <1>1 DEF NoTriage, Triages, Class
  <2> QED BY <2>1 DEF Init, TelemetryTyped
<1>3. StateTyped
  <2>1. Fresh \in State /\ Len(Fresh.window) = 0
    BY DEF Fresh, State
  <2> QED BY <1>1, <2>1 DEF Init, StateTyped
<1>4. RunTyped
  <2>1. projected \in Fraction /\ options \in Option
    BY DEF Init, Fraction, Option
  <2> QED BY <1>1, <2>1 DEF Init, RunTyped, Points, Idle
<1>5. GhostsTyped
  <2>1. lost \in BOOLEAN /\ clobbered \in BOOLEAN
    BY DEF Init
  <2> QED BY <1>1, <2>1 DEF Init, GhostsTyped
<1> QED BY <1>2, <1>3, <1>4, <1>5 DEF TypeOK

LEMMA Constants ==
  /\ Milestones \in Nat /\ Attempts \in Nat \ {0} /\ MaxRuns \in Nat
  /\ MaxResets \in Nat /\ Horizon \in Nat \ {0} /\ Estimate \in Nat
  /\ DiversityWindow \in Nat \ {0} /\ DiversityThreshold \in Nat \ {0}
  /\ Costs \subseteq Nat /\ UpTo \subseteq Names /\ Bypasses \subseteq BOOLEAN
  BY GatesAssumption, BreakerAssumption

(* Every entry that a gate writes is one of a run, and of no milestone.    *)
LEMMA LogKept ==
  ASSUME TypeOK, NEW n \in 1 .. MaxRuns, UNCHANGED <<ledger, triaged>>,
         \/ log' = log
         \/ log' = log \cup {[type |-> "cost_ceiling_blocked", run |-> n,
                              milestone |-> NoMilestone]}
  PROVE  TelemetryTyped'
<1> DEFINE block == [type |-> "cost_ceiling_blocked", run |-> n, milestone |-> NoMilestone]
<1>1. block.run = n /\ block.milestone = NoMilestone
  OBVIOUS
<1> HIDE DEF block
<1>2. log' \subseteq log \cup {block}
  BY DEF block
<1> QED BY <1>1, <1>2 DEF TelemetryTyped, TypeOK

LEMMA TelemetryStep == TypeOK /\ [Next]_vars => TelemetryTyped'
<1> SUFFICES ASSUME TypeOK, [Next]_vars PROVE TelemetryTyped'
  OBVIOUS
<1> USE DEF telemetry
<1>1. ASSUME UNCHANGED telemetry PROVE TelemetryTyped'
  BY <1>1 DEF TelemetryTyped, TypeOK
<1>2. ASSUME NEW ignoring \in Bypasses, NEW to \in UpTo, StartRun(ignoring, to)
      PROVE  TelemetryTyped'
  <2>1. run + 1 \in 1 .. MaxRuns
    BY <1>2, Constants DEF StartRun, TypeOK, RunTyped
  <2>2. /\ \/ log' = log
           \/ log' = log \cup {[type |-> "cost_ceiling_blocked", run |-> run + 1,
                                milestone |-> NoMilestone]}
        /\ UNCHANGED <<ledger, triaged>>
    BY <1>2 DEF StartRun, Gate
  <2> QED BY <2>1, <2>2, LogKept
<1>3. CASE StartMilestone \/ Retry
  <2>1. run \in 1 .. MaxRuns
    BY <1>3, Constants DEF StartMilestone, Due, Retry, TypeOK, RunTyped, Idle
  <2>2. /\ \/ log' = log
           \/ log' = log \cup {[type |-> "cost_ceiling_blocked", run |-> run,
                                milestone |-> NoMilestone]}
        /\ UNCHANGED <<ledger, triaged>>
    BY <1>3 DEF StartMilestone, Retry, Gate
  <2> QED BY <2>1, <2>2, LogKept
<1>4. ASSUME NEW cost \in Costs, NEW types \in Signals, Fail(cost, types)
      PROVE  TelemetryTyped'
  <2>1. /\ log' = log \cup {[type |-> t, run |-> run, milestone |-> current] : t \in types}
        /\ at = "attempt" /\ UNCHANGED <<ledger, triaged>>
    BY <1>4 DEF Fail, Move
  <2>2. run \in 1 .. MaxRuns /\ current \in Names
    BY <2>1, Constants DEF TypeOK, RunTyped, Idle
  <2>3. ASSUME NEW s \in log'
        PROVE  s.run \in 1 .. MaxRuns /\ s.milestone \in Names \cup {NoMilestone}
    <3>1. s \in log \/ \E t \in types : s = [type |-> t, run |-> run,
                                             milestone |-> current]
      BY <2>1, <2>3
    <3> QED BY <2>2, <3>1 DEF TelemetryTyped, TypeOK
  <2> QED BY <2>1, <2>3 DEF TelemetryTyped, TypeOK
<1>5. ASSUME NEW fails \in TriageFails, NEW reason \in Reasons, Triage(fails, reason)
      PROVE  TelemetryTyped'
  <2> DEFINE failure == Classify(log, [run |-> run, milestone |-> current,
                                       reason |-> reason])
             triage == [class |-> failure.class, sure |-> failure.sure, run |-> run,
                        reason |-> reason]
  <2>1. failure \in Entry
    BY ClassIsOne
  <2>2. /\ triaged' = triaged \/ triaged' = [triaged EXCEPT ![current] = triage]
        /\ UNCHANGED <<ledger, log>>
    BY <1>5 DEF Triage
  <2> HIDE DEF failure
  <2>3. triage \in Triages
    BY <2>1 DEF Entry, Triages, TypeOK, RunTyped
  <2> HIDE DEF triage
  <2>4. triaged' \in [Names -> Triages]
    BY <2>2, <2>3 DEF TelemetryTyped, TypeOK
  <2> QED BY <2>2, <2>4 DEF TelemetryTyped, TypeOK
<1>6. CASE Complete
  <2> DEFINE report == [at |-> now, cost |-> mem.total]
  <2>1. report \in Report
    BY DEF Report, TypeOK, RunTyped, StateTyped, State
  <2>2. ledger' = Append(ledger, report) /\ UNCHANGED <<log, triaged>>
    BY <1>6 DEF Complete
  <2> HIDE DEF report
  <2> QED BY <2>1, <2>2 DEF TelemetryTyped, TypeOK
<1>7. CASE PassOver \/ EndLoop \/ Record \/ RecordFailed \/ Evaluate \/ NoBreaker
  BY <1>1, <1>7 DEF PassOver, EndLoop, Record, RecordFailed, Evaluate, NoBreaker
<1>8. ASSUME NEW cost \in Costs, Succeed(cost) PROVE TelemetryTyped'
  BY <1>1, <1>8 DEF Succeed
<1>9. CASE Crash \/ Tick \/ LoadForReset \/ SaveReset
  BY <1>1, <1>9 DEF Crash, Tick, LoadForReset, SaveReset
<1>10. ASSUME NEW w \in Windows, BudgetReset(w) PROVE TelemetryTyped'
  BY <1>1, <1>10 DEF BudgetReset
<1>11. CASE UNCHANGED vars
  BY <1>1, <1>11 DEF vars
<1> QED
  BY <1>2, <1>3, <1>4, <1>5, <1>6, <1>7, <1>8, <1>9, <1>10, <1>11 DEF Next, Step

(* The window that is kept has room for what it is kept for.               *)
LEMMA RememberedFits ==
  ASSUME NEW w \in Seq(Entry), NEW entry \in Entry
  PROVE  /\ Remembered(w, entry) \in Seq(Entry)
         /\ Len(Remembered(w, entry)) <= DiversityWindow
<1> DEFINE longer == Append(w, entry)
<1>1. longer \in Seq(Entry)
  OBVIOUS
<1>2. Remembered(w, entry) = LastOf(longer, DiversityWindow)
  BY DEF Remembered
<1>3. Len(longer) \in Nat /\ DiversityWindow \in Nat
  BY <1>1, Constants
<1> HIDE DEF longer
<1>4. /\ LastOf(longer, DiversityWindow) \in Seq(Entry)
      /\ Len(LastOf(longer, DiversityWindow))
           = IF DiversityWindow < Len(longer) THEN DiversityWindow ELSE Len(longer)
  BY <1>1, <1>3, LastOnes
<1> QED BY <1>2, <1>3, <1>4

LEMMA TriagedEntry ==
  ASSUME TypeOK, current \in Names
  PROVE  [class |-> triaged[current].class, sure |-> triaged[current].sure] \in Entry
<1>1. triaged[current] \in Triages
  BY DEF TypeOK, TelemetryTyped
<1> QED BY <1>1 DEF Triages, Entry

LEMMA StateStep == TypeOK /\ [Next]_vars => StateTyped'
<1> SUFFICES ASSUME TypeOK, [Next]_vars PROVE StateTyped'
  OBVIOUS
<1>1. ASSUME UNCHANGED <<checkpoints, file, mem, cli, resets>> PROVE StateTyped'
  BY <1>1 DEF StateTyped, TypeOK
<1>2. ASSUME NEW ignoring \in Bypasses, NEW to \in UpTo, StartRun(ignoring, to)
      PROVE  StateTyped'
  BY <1>2 DEF StartRun, StateTyped, TypeOK
<1>3. CASE StartMilestone \/ Retry
  BY <1>1, <1>3 DEF StartMilestone, Retry
<1>4. ASSUME NEW cost \in Costs, Charge(cost), UNCHANGED <<checkpoints, cli, resets>>
      PROVE  StateTyped'
  <2>1. mem \in State /\ cost \in Nat /\ Len(mem.window) <= DiversityWindow
    BY Constants DEF TypeOK, StateTyped
  <2>2. mem' = [mem EXCEPT !.total = @ + cost] /\ file' = mem'
    BY <1>4 DEF Charge
  <2>3. mem' \in State /\ mem'.window = mem.window
    BY <2>1, <2>2, StateCharged
  <2> QED BY <1>4, <2>1, <2>2, <2>3 DEF StateTyped, TypeOK
<1>5. ASSUME NEW cost \in Costs, Succeed(cost) PROVE StateTyped'
  BY <1>4, <1>5 DEF Succeed
<1>6. ASSUME NEW cost \in Costs, NEW types \in Signals, Fail(cost, types)
      PROVE  StateTyped'
  BY <1>4, <1>6 DEF Fail
<1>7. ASSUME NEW fails \in TriageFails, NEW reason \in Reasons, Triage(fails, reason)
      PROVE  StateTyped'
  BY <1>1, <1>7 DEF Triage
<1>8. CASE Record \/ RecordFailed
  <2>1. current \in Names /\ mem \in State /\ Len(mem.window) <= DiversityWindow
    BY <1>8 DEF Record, RecordFailed, Move, TypeOK, StateTyped, RunTyped
  <2>2. /\ \/ mem' = [mem EXCEPT !.completed = @ \cup {current}]
           \/ mem' = [mem EXCEPT !.failed = @ \cup {current}]
        /\ file' = mem' /\ UNCHANGED <<checkpoints, cli, resets>>
    BY <1>8 DEF Record, RecordFailed
  <2>3. mem' \in State /\ mem'.window = mem.window
    BY <2>1, <2>2, StateSettled
  <2> QED BY <2>1, <2>2, <2>3 DEF StateTyped, TypeOK
<1>9. CASE Evaluate
  <2> DEFINE entry == [class |-> triaged[current].class, sure |-> triaged[current].sure]
  <2>1. entry \in Entry
    BY <1>9, TriagedEntry DEF Evaluate, TypeOK, RunTyped
  <2>2. /\ mem' = [mem EXCEPT !.window = Remembered(mem.window, entry)]
        /\ UNCHANGED <<checkpoints, file, cli, resets>>
    BY <1>9 DEF Evaluate
  <2>3. mem \in State /\ mem.window \in Seq(Entry)
    BY DEF TypeOK, StateTyped, State
  <2> HIDE DEF entry
  <2>4. /\ Remembered(mem.window, entry) \in Seq(Entry)
        /\ Len(Remembered(mem.window, entry)) <= DiversityWindow
    BY <2>1, <2>3, RememberedFits
  <2>5. mem' \in State /\ mem'.window = Remembered(mem.window, entry)
    BY <2>2, <2>3, <2>4, StateRemembers
  <2> QED BY <2>2, <2>4, <2>5 DEF StateTyped, TypeOK
<1>10. CASE PassOver \/ EndLoop \/ NoBreaker \/ Complete \/ Crash \/ Tick
  BY <1>1, <1>10 DEF PassOver, EndLoop, NoBreaker, Complete, Crash, Tick
<1>11. ASSUME NEW w \in Windows, BudgetReset(w) PROVE StateTyped'
  <2>1. resets' \in 0 .. MaxResets
    BY <1>11, Constants DEF BudgetReset, StateTyped, TypeOK
  <2>2. checkpoints' \in [Keys -> 0 .. Horizon]
    <3>1. now \in 0 .. Horizon /\ checkpoints \in [Keys -> 0 .. Horizon]
      BY Constants DEF StateTyped, RunTyped, TypeOK
    <3>2. checkpoints' = [checkpoints EXCEPT ![w] = now]
      BY <1>11 DEF BudgetReset
    <3> QED BY <3>1, <3>2
  <2> QED BY <1>11, <2>1, <2>2 DEF BudgetReset, StateTyped, TypeOK
<1>12. CASE LoadForReset
  BY <1>12, Constants DEF LoadForReset, StateTyped, TypeOK
<1>13. CASE SaveReset
  <2>1. cli \in State /\ <<>> \in Seq(Entry)
    BY <1>13 DEF SaveReset, StateTyped, TypeOK
  <2>2. file' = [cli EXCEPT !.window = <<>>] /\ cli' = NoCopy
        /\ UNCHANGED <<checkpoints, mem, resets>>
    BY <1>13 DEF SaveReset
  <2>3. file' \in State /\ file'.window = <<>>
    BY <2>1, <2>2, StateRemembers
  <2> QED BY <2>2, <2>3, Constants DEF StateTyped, TypeOK
<1>14. CASE UNCHANGED vars
  BY <1>1, <1>14 DEF vars
<1> QED
  BY <1>2, <1>3, <1>5, <1>6, <1>7, <1>8, <1>9, <1>10, <1>11, <1>12, <1>13, <1>14
  DEF Next, Step

LEMMA RunStep == TypeOK /\ [Next]_vars => RunTyped'
<1> SUFFICES ASSUME TypeOK, [Next]_vars PROVE RunTyped'
  OBVIOUS
<1> USE DEF runVars, Points, Idle
<1>1. ASSUME UNCHANGED <<now, runVars>> PROVE RunTyped'
  BY <1>1 DEF RunTyped, TypeOK
<1>2. ASSUME NEW ignoring \in Bypasses, NEW to \in UpTo, StartRun(ignoring, to)
      PROVE  RunTyped'
  <2>1. options' \in Option
    BY <1>2, Constants DEF StartRun, Option
  <2>2. /\ \/ at' = "loop" /\ current' = 1
           \/ at' = at /\ current' = current
        /\ at = "idle" /\ run < MaxRuns /\ run' = run + 1
        /\ UNCHANGED <<now, attempt, projected>>
    BY <1>2 DEF StartRun, Gate
  <2>3. run' \in 0 .. MaxRuns /\ run' > 0 /\ current' \in 1 .. Milestones + 1
    BY <2>2, Constants DEF RunTyped, TypeOK
  <2> QED BY <2>1, <2>2, <2>3 DEF RunTyped, TypeOK
<1>3. CASE PassOver
  <2>1. current + 1 \in 1 .. Milestones + 1
    BY <1>3, Constants DEF PassOver, TypeOK, RunTyped, Option, Names
  <2> QED BY <1>3, <2>1 DEF PassOver, RunTyped, TypeOK
<1>4. CASE EndLoop
  BY <1>4 DEF EndLoop, Move, RunTyped, TypeOK
<1>5. CASE StartMilestone
  <2>1. /\ current \in 1 .. options.to /\ at = "loop" /\ at' \in {"attempt", "idle"}
        /\ projected' = Remaining(mem.total) /\ attempt' = 1
        /\ UNCHANGED <<now, run, current, options>>
    BY <1>5 DEF StartMilestone, Due, Gate, LeaveIdle
  <2>2. current \in Names /\ options.to \in Nat /\ mem.total \in Nat
    BY <2>1, Constants DEF TypeOK, RunTyped, Option, Names, StateTyped, State
  <2>3. projected' \in Fraction
    BY <2>1, <2>2, Constants DEF Remaining, Fraction, Names
  <2> QED BY <2>1, <2>2, <2>3, Constants DEF RunTyped, TypeOK
<1>6. CASE Retry
  <2>1. /\ at = "retry" /\ at' \in {"attempt", "idle"}
        /\ attempt < Attempts /\ attempt' = attempt + 1
        /\ UNCHANGED <<now, run, current, projected, options>>
    BY <1>6 DEF Retry, Gate, LeaveIdle
  <2> QED BY <2>1, Constants DEF RunTyped, TypeOK
<1>7. ASSUME NEW cost \in Costs, Succeed(cost) PROVE RunTyped'
  BY <1>7 DEF Succeed, Move, RunTyped, TypeOK
<1>8. ASSUME NEW cost \in Costs, NEW types \in Signals, Fail(cost, types)
      PROVE  RunTyped'
  BY <1>8 DEF Fail, Move, RunTyped, TypeOK
<1>9. ASSUME NEW fails \in TriageFails, NEW reason \in Reasons, Triage(fails, reason)
      PROVE  RunTyped'
  <2>1. at = "retry" /\ at' = "failing" /\ UNCHANGED <<now, run, current, attempt,
                                                         projected, options>>
    BY <1>9 DEF Triage, Move
  <2> QED BY <2>1 DEF RunTyped, TypeOK
<1>10. CASE Record \/ NoBreaker
  BY <1>10, Constants DEF Record, NoBreaker, Move, RunTyped, TypeOK, Names
<1>11. CASE RecordFailed
  BY <1>11 DEF RecordFailed, Move, RunTyped, TypeOK
<1>12. CASE Evaluate
  <2>1. /\ at = "breaker" /\ UNCHANGED <<now, run, attempt, projected, options>>
        /\ \/ at' = "completing" /\ current' = current
           \/ at' = "loop" /\ current' = current + 1
    BY <1>12 DEF Evaluate
  <2> QED BY <2>1, Constants DEF RunTyped, TypeOK, Names
<1>13. CASE Complete \/ Crash
  BY <1>13 DEF Complete, Crash, LeaveIdle, RunTyped, TypeOK
<1>14. CASE Tick
  BY <1>14, Constants DEF Tick, RunTyped, TypeOK
<1>15. ASSUME NEW w \in Windows, BudgetReset(w) PROVE RunTyped'
  BY <1>1, <1>15 DEF BudgetReset
<1>16. CASE LoadForReset \/ SaveReset
  BY <1>1, <1>16 DEF LoadForReset, SaveReset
<1>17. CASE UNCHANGED vars
  BY <1>1, <1>17 DEF vars
<1> QED
  BY <1>2, <1>3, <1>4, <1>5, <1>6, <1>7, <1>8, <1>9, <1>10, <1>11, <1>12, <1>13, <1>14,
     <1>15, <1>16, <1>17
  DEF Next, Step

LEMMA GhostsStep == TypeOK /\ [Next]_vars => GhostsTyped'
<1> SUFFICES ASSUME TypeOK, [Next]_vars PROVE GhostsTyped'
  OBVIOUS
<1> USE DEF spending, breaking
<1>0. TypeOK => /\ charged \in [1 .. Horizon -> Nat] /\ reported \in [1 .. Horizon -> Nat]
                /\ history \in Seq(Entry) /\ failures \in Seq(Entry)
                /\ lost \in BOOLEAN /\ clobbered \in BOOLEAN
                /\ matched \in {"none", "same_class_repeat", "diversity_overflow"}
  BY DEF GhostsTyped, TypeOK
<1>1. ASSUME UNCHANGED <<spending, breaking, clobbered>> PROVE GhostsTyped'
  BY <1>0, <1>1 DEF GhostsTyped
<1>2. ASSUME lost' \in BOOLEAN, UNCHANGED <<charged, history, failures, matched, clobbered>>,
             reported' \in {charged, reported}
      PROVE  GhostsTyped'
  BY <1>0, <1>2 DEF GhostsTyped
<1>3. ASSUME LeaveIdle(mem) PROVE lost' \in BOOLEAN
  BY <1>3, Zenon DEF LeaveIdle
<1>4. ASSUME NEW ignoring \in Bypasses, NEW to \in UpTo, StartRun(ignoring, to)
      PROVE  GhostsTyped'
  BY <1>0, <1>4 DEF StartRun, GhostsTyped
<1>5. CASE StartMilestone \/ Retry
  <2>1. lost' = lost \/ LeaveIdle(mem)
    BY <1>5 DEF StartMilestone, Retry, Gate
  <2>2. lost' \in BOOLEAN
    BY <1>0, <1>3, <2>1
  <2> QED BY <1>2, <1>5, <2>2 DEF StartMilestone, Retry
<1>6. ASSUME NEW cost \in Costs, Charge(cost), UNCHANGED <<reported, breaking, clobbered>>
      PROVE  GhostsTyped'
  <2>1. charged' \in [1 .. Horizon -> Nat]
    <3>1. cost \in Nat /\ charged' = [charged EXCEPT ![now] = @ + cost]
      BY <1>6, Constants DEF Charge
    <3>2. charged \in [1 .. Horizon -> Nat] /\ now \in 1 .. Horizon
      BY <1>0 DEF TypeOK, RunTyped
    <3>3. charged[now] + cost \in Nat
      BY <3>1, <3>2
    <3> QED BY <3>1, <3>2, <3>3
  <2> QED BY <1>0, <1>6, <2>1 DEF GhostsTyped
<1>7. ASSUME NEW cost \in Costs, Succeed(cost) PROVE GhostsTyped'
  BY <1>6, <1>7 DEF Succeed
<1>8. ASSUME NEW cost \in Costs, NEW types \in Signals, Fail(cost, types)
      PROVE  GhostsTyped'
  BY <1>6, <1>8 DEF Fail
<1>9. ASSUME NEW fails \in TriageFails, NEW reason \in Reasons, Triage(fails, reason)
      PROVE  GhostsTyped'
  BY <1>1, <1>9 DEF Triage
<1>10. CASE PassOver \/ EndLoop \/ Record \/ RecordFailed \/ NoBreaker
  BY <1>1, <1>10 DEF PassOver, EndLoop, Record, RecordFailed, NoBreaker
<1>11. CASE Evaluate
  <2> DEFINE entry == [class |-> triaged[current].class, sure |-> triaged[current].sure]
  <2>1. entry \in Entry
    BY <1>11, TriagedEntry DEF Evaluate, TypeOK, RunTyped
  <2>2. /\ matched' = RuleMatched(mem.window, entry)
        /\ history' = Append(history, entry) /\ failures' = Append(failures, entry)
        /\ UNCHANGED <<spending, lost, clobbered>>
    BY <1>11 DEF Evaluate
  <2> HIDE DEF entry
  <2>3. matched' \in {"none", "same_class_repeat", "diversity_overflow"}
    BY <2>2 DEF RuleMatched
  <2> QED BY <1>0, <2>1, <2>2, <2>3 DEF GhostsTyped
<1>12. CASE Complete \/ Crash
  BY <1>2, <1>3, <1>12 DEF Complete, Crash
<1>13. CASE Tick \/ LoadForReset
  BY <1>1, <1>13 DEF Tick, LoadForReset
<1>14. ASSUME NEW w \in Windows, BudgetReset(w) PROVE GhostsTyped'
  BY <1>1, <1>14 DEF BudgetReset
<1>15. CASE SaveReset
  <2>1. lost' \in BOOLEAN /\ clobbered' \in BOOLEAN
    BY <1>15, Zenon DEF SaveReset
  <2>2. history' = <<>> /\ UNCHANGED <<spending, failures, matched>>
    BY <1>15 DEF SaveReset
  <2> QED BY <1>0, <2>1, <2>2 DEF GhostsTyped
<1>16. CASE UNCHANGED vars
  BY <1>1, <1>16 DEF vars
<1> QED
  BY <1>4, <1>5, <1>7, <1>8, <1>9, <1>10, <1>11, <1>12, <1>13, <1>14, <1>15, <1>16
  DEF Next, Step

LEMMA TypeStep == TypeOK /\ [Next]_vars => TypeOK'
  BY TelemetryStep, StateStep, RunStep, GhostsStep DEF TypeOK

(* The types, for any number of milestones, runs, costs and resets: what a *)
(* run leaves behind is what the next one can start from.                  *)
THEOREM TypeCorrect == Spec => []TypeOK
  BY TypeInitial, TypeStep, PTL DEF Spec

-----------------------------------------------------------------------------
(* Evidence                                                                *)

(* The class of a triage is that of a rule that saw something; the class   *)
(* for which an enforcing breaker stops a run is that of a triage.         *)
Backed ==
  \A m \in Names : triaged[m].class \notin {"", "unknown"} =>
    \E i \in DOMAIN Rules : /\ Rules[i].class = triaged[m].class
                            /\ Rules[i].accepts \cap EvidenceFor(m) # {}
Stopped ==
  BreakerMode = "enforce" /\ matched # "none" =>
    /\ at \in {"completing", Idle}
    /\ at = "completing" /\ matched = "same_class_repeat" =>
         current \in Names /\ triaged[current].class \notin {"", "unknown"}
Evidenced == Backed /\ Stopped

LEMMA EvidenceInitial == Init => Evidenced
<1> SUFFICES ASSUME Init PROVE Evidenced
  OBVIOUS
<1>1. \A m \in Names : triaged[m].class = ""
  BY DEF Init, NoTriage
<1> QED BY <1>1 DEF Init, Evidenced, Backed, Stopped, Idle

(* Evidence is never taken away.                                           *)
LEMMA EvidenceStays ==
  ASSUME Backed, log \subseteq log', UNCHANGED triaged
  PROVE  Backed'
<1>1. \A m \in Names : EvidenceFor(m) \subseteq EvidenceFor(m)'
  BY DEF EvidenceFor
<1> QED BY <1>1 DEF Backed

LEMMA TriageIsBacked ==
  ASSUME TypeOK, Backed, NEW fails, NEW reason \in Reasons, Triage(fails, reason)
  PROVE  Backed'
<1> USE DEF telemetry
<1> DEFINE anchor  == [run |-> run, milestone |-> current, reason |-> reason]
           failure == Classify(log, anchor)
           triage  == [class |-> failure.class, sure |-> failure.sure, run |-> run,
                       reason |-> reason]
<1>1. /\ triaged' = triaged \/ triaged' = [triaged EXCEPT ![current] = triage]
      /\ log' = log /\ at = "retry"
  BY DEF Triage, Move
<1>2. \/ failure.class = "unknown"
      \/ \E i \in DOMAIN Rules : /\ Rules[i].accepts \cap Seen(log, anchor) # {}
                                 /\ failure.class = Rules[i].class
  <2> HIDE DEF anchor
  <2>1. CASE failure = Unknown
    BY <2>1 DEF Unknown
  <2>2. ASSUME NEW i \in DOMAIN Rules, Rules[i].accepts \cap Seen(log, anchor) # {},
               failure = [class |-> Rules[i].class, sure |-> Rules[i].sure]
        PROVE  failure.class = Rules[i].class
    <3> HIDE DEF failure
    <3> QED BY <2>2
  <2> QED BY <2>1, <2>2, ClassifiedByARule
<1> HIDE DEF failure
<1>3. triage.class = failure.class /\ triage.run = run /\ triage.reason = reason
  OBVIOUS
<1> HIDE DEF triage
<1>4. CASE triaged' = triaged
  BY <1>1, <1>4, EvidenceStays
<1>5. CASE triaged' = [triaged EXCEPT ![current] = triage]
  <2>1. current \in Names /\ triaged'[current] = triage
        /\ \A m \in Names : m # current => triaged'[m] = triaged[m]
    BY <1>1, <1>5 DEF TypeOK, TelemetryTyped, RunTyped
  <2>2. EvidenceFor(current)' = Seen(log, anchor)
    <3>1. EvidenceFor(current)' =
            reason \cup {s.type : s \in {t \in log : t.run = run
                                         /\ t.milestone \in {current', NoMilestone}}}
      <4>1. current' = current
        BY DEF Triage
      <4> QED BY <1>1, <1>3, <2>1, <4>1 DEF EvidenceFor
    <3>2. current' = current
      BY DEF Triage
    <3> QED BY <3>1, <3>2 DEF Seen, InBundle
  <2>3. ASSUME NEW m \in Names, m # current PROVE EvidenceFor(m)' = EvidenceFor(m)
    BY <1>1, <2>1, <2>3 DEF EvidenceFor
  <2>4. current' = current
    BY DEF Triage
  <2> QED BY <1>2, <1>3, <2>1, <2>2, <2>3, <2>4 DEF Backed
<1> QED BY <1>1, <1>4, <1>5

LEMMA BackedStep == TypeOK /\ Backed /\ [Next]_vars => Backed'
<1> SUFFICES ASSUME TypeOK, Backed, [Next]_vars PROVE Backed'
  OBVIOUS
<1> USE EvidenceStays DEF telemetry
<1>1. ASSUME NEW ignoring \in Bypasses, NEW to \in UpTo, StartRun(ignoring, to)
      PROVE  Backed'
  BY <1>1 DEF StartRun, Gate
<1>2. CASE StartMilestone \/ Retry
  BY <1>2 DEF StartMilestone, Retry, Gate
<1>3. ASSUME NEW cost \in Costs, NEW types \in Signals, Fail(cost, types)
      PROVE  Backed'
  BY <1>3 DEF Fail
<1>4. ASSUME NEW fails \in TriageFails, NEW reason \in Reasons, Triage(fails, reason)
      PROVE  Backed'
  BY <1>4, TriageIsBacked
<1>5. CASE PassOver \/ EndLoop \/ Record \/ RecordFailed \/ Evaluate \/ NoBreaker
           \/ Complete
  BY <1>5 DEF PassOver, EndLoop, Record, RecordFailed, Evaluate, NoBreaker, Complete
<1>6. ASSUME NEW cost \in Costs, Succeed(cost) PROVE Backed'
  BY <1>6 DEF Succeed
<1>7. CASE Crash \/ Tick \/ LoadForReset \/ SaveReset
  BY <1>7 DEF Crash, Tick, LoadForReset, SaveReset
<1>8. ASSUME NEW w \in Windows, BudgetReset(w) PROVE Backed'
  BY <1>8 DEF BudgetReset
<1>9. CASE UNCHANGED vars
  BY <1>9 DEF vars
<1> QED
  BY <1>1, <1>2, <1>3, <1>4, <1>5, <1>6, <1>7, <1>8, <1>9 DEF Next, Step

LEMMA StoppedStep == TypeOK /\ Stopped /\ [Next]_vars => Stopped'
<1> SUFFICES ASSUME TypeOK, Stopped, [Next]_vars PROVE Stopped'
  OBVIOUS
<1> USE DEF breaking, runVars, telemetry, Idle
<1>1. ASSUME UNCHANGED <<matched, at, current, triaged>> PROVE Stopped'
  BY <1>1 DEF Stopped
<1>2. ASSUME BreakerMode # "enforce" \/ matched' = "none" PROVE Stopped'
  BY <1>2 DEF Stopped
<1>3. ASSUME at \notin {"completing", "idle"}, UNCHANGED matched PROVE Stopped'
  BY <1>3 DEF Stopped
<1>4. ASSUME at' = "idle", UNCHANGED matched PROVE Stopped'
  BY <1>4 DEF Stopped
<1>5. ASSUME NEW ignoring \in Bypasses, NEW to \in UpTo, StartRun(ignoring, to)
      PROVE  Stopped'
  BY <1>2, <1>5 DEF StartRun
<1>6. CASE PassOver \/ EndLoop \/ StartMilestone \/ Retry \/ Record \/ RecordFailed
           \/ NoBreaker
  BY <1>3, <1>6 DEF PassOver, EndLoop, StartMilestone, Due, Retry, Record, RecordFailed,
                    NoBreaker, Move
<1>7. ASSUME NEW cost \in Costs, Succeed(cost) PROVE Stopped'
  BY <1>3, <1>7 DEF Succeed, Move
<1>8. ASSUME NEW cost \in Costs, NEW types \in Signals, Fail(cost, types)
      PROVE  Stopped'
  BY <1>3, <1>8 DEF Fail, Move
<1>9. ASSUME NEW fails \in TriageFails, NEW reason \in Reasons, Triage(fails, reason)
      PROVE  Stopped'
  BY <1>3, <1>9 DEF Triage, Move
<1>10. CASE Evaluate
  <2> DEFINE entry == [class |-> triaged[current].class, sure |-> triaged[current].sure]
  <2>1. entry.class = triaged[current].class
    OBVIOUS
  <2>2. /\ matched' = RuleMatched(mem.window, entry) /\ triaged' = triaged
        /\ RuleMatched(mem.window, entry) # "none" /\ BreakerMode = "enforce"
             => at' = "completing" /\ current' = current
        /\ at = "breaker"
    BY <1>10 DEF Evaluate
  <2>3. current \in Names
    BY <2>2 DEF TypeOK, RunTyped
  <2> HIDE DEF entry
  <2>4. RuleMatched(mem.window, entry) = "same_class_repeat" =>
          entry.class \notin {"", "unknown"}
    BY DEF RuleMatched, SameClass
  <2> QED BY <2>1, <2>2, <2>3, <2>4 DEF Stopped
<1>11. CASE Complete \/ Crash
  BY <1>4, <1>11 DEF Complete, Crash, LeaveIdle
<1>12. CASE Tick \/ LoadForReset \/ SaveReset
  BY <1>1, <1>12 DEF Tick, LoadForReset, SaveReset
<1>13. ASSUME NEW w \in Windows, BudgetReset(w) PROVE Stopped'
  BY <1>1, <1>13 DEF BudgetReset
<1>14. CASE UNCHANGED vars
  BY <1>1, <1>14 DEF vars
<1> QED
  BY <1>5, <1>6, <1>7, <1>8, <1>9, <1>10, <1>11, <1>12, <1>13, <1>14 DEF Next, Step

(* For any signals and error messages, in any order: an enforcing breaker  *)
(* only stops a run for a class that some rule had evidence of.            *)
THEOREM StopsOnEvidence == Spec => []TripIsEvidenced
<1>1. Init => TypeOK /\ Evidenced
  BY TypeInitial, EvidenceInitial
<1>2. TypeOK /\ Evidenced /\ [Next]_vars => (TypeOK /\ Evidenced)'
  BY TypeStep, BackedStep, StoppedStep DEF Evidenced
<1>3. Evidenced => TripIsEvidenced
  BY DEF Evidenced, Backed, Stopped, TripIsEvidenced
<1> QED BY <1>1, <1>2, <1>3, PTL DEF Spec

-----------------------------------------------------------------------------
(* Repetition                                                              *)

(* A sequence ends as another one does.                                    *)
Ends(v, w) ==
  Len(v) <= Len(w) /\ \A i \in 1 .. Len(v) : v[i] = w[Len(w) - Len(v) + i]

LEMMA LastOnesEnd ==
  ASSUME NEW S, NEW w \in Seq(S), NEW n \in Nat
  PROVE  Ends(LastOf(w, n), w)
<1>1. Len(w) \in Nat
  OBVIOUS
<1> QED BY <1>1, LastOnes DEF Ends

LEMMA EndsOfEnds ==
  ASSUME NEW S, NEW u \in Seq(S), NEW v \in Seq(S), NEW w \in Seq(S),
         Ends(u, v), Ends(v, w)
  PROVE  Ends(u, w)
<1>1. Len(u) \in Nat /\ Len(v) \in Nat /\ Len(w) \in Nat
  OBVIOUS
<1>2. ASSUME NEW i \in 1 .. Len(u) PROVE u[i] = w[Len(w) - Len(u) + i]
  <2>1. u[i] = v[Len(v) - Len(u) + i] /\ Len(v) - Len(u) + i \in 1 .. Len(v)
    BY <1>1 DEF Ends
  <2>2. v[Len(v) - Len(u) + i] = w[Len(w) - Len(v) + (Len(v) - Len(u) + i)]
    BY <2>1 DEF Ends
  <2>3. Len(w) - Len(v) + (Len(v) - Len(u) + i) = Len(w) - Len(u) + i
    BY <1>1
  <2> QED BY <2>1, <2>2, <2>3
<1> QED BY <1>1, <1>2 DEF Ends

LEMMA EndsAfterOneMore ==
  ASSUME NEW S, NEW v \in Seq(S), NEW w \in Seq(S), NEW e \in S, Ends(v, w)
  PROVE  Ends(Append(v, e), Append(w, e))
<1> DEFINE x == Append(v, e)
           y == Append(w, e)
<1>1. Len(v) \in Nat /\ Len(w) \in Nat
  OBVIOUS
<1>2. /\ Len(x) = Len(v) + 1 /\ x[Len(v) + 1] = e
      /\ \A i \in 1 .. Len(v) : x[i] = v[i]
  OBVIOUS
<1>3. /\ Len(y) = Len(w) + 1 /\ y[Len(w) + 1] = e
      /\ \A i \in 1 .. Len(w) : y[i] = w[i]
  OBVIOUS
<1> HIDE DEF x, y
<1>4. ASSUME NEW i \in 1 .. Len(x) PROVE x[i] = y[Len(y) - Len(x) + i]
  <2>1. CASE i = Len(v) + 1
    BY <1>1, <1>2, <1>3, <2>1
  <2>2. CASE i \in 1 .. Len(v)
    <3>1. v[i] = w[Len(w) - Len(v) + i] /\ Len(v) <= Len(w)
      BY <2>2 DEF Ends
    <3>2. Len(w) - Len(v) + i \in 1 .. Len(w) /\ Len(y) - Len(x) + i = Len(w) - Len(v) + i
      BY <1>1, <1>2, <1>3, <2>2, <3>1
    <3> QED BY <1>2, <1>3, <2>2, <3>1, <3>2
  <2> QED BY <1>1, <1>2, <2>1, <2>2
<1>5. Len(x) <= Len(y)
  BY <1>1, <1>2, <1>3 DEF Ends
<1>6. Ends(x, y)
  BY <1>4, <1>5 DEF Ends
<1> QED BY <1>6 DEF x, y

LEMMA Thresholds == \A class : Threshold(class) \in {2, 3}
  BY DEF Threshold

LEMMA EndsRepeated ==
  ASSUME NEW v \in Seq(Entry), NEW w \in Seq(Entry), Ends(v, w), NEW class,
         Repeated(v, class)
  PROVE  Repeated(w, class)
<1> DEFINE t == Threshold(class)
<1>1. Len(v) \in Nat /\ Len(w) \in Nat /\ t \in Nat
  BY Thresholds
<1>2. /\ Len(v) >= t
      /\ \A i \in Len(v) - t + 1 .. Len(v) : v[i].class = class /\ v[i].sure
  BY DEF Repeated
<1> HIDE DEF t
<1>3. ASSUME NEW i \in Len(w) - t + 1 .. Len(w) PROVE w[i].class = class /\ w[i].sure
  <2> DEFINE j == i - Len(w) + Len(v)
  <2>1. j \in Len(v) - t + 1 .. Len(v) /\ j \in 1 .. Len(v) /\ Len(w) - Len(v) + j = i
    BY <1>1, <1>2
  <2> HIDE DEF j
  <2>2. v[j] = w[Len(w) - Len(v) + j]
    BY <2>1 DEF Ends
  <2>3. v[j] = w[i]
    BY <2>1, <2>2
  <2> QED BY <1>2, <2>1, <2>3
<1>4. Len(w) >= t
  BY <1>1, <1>2 DEF Ends
<1> QED BY <1>3, <1>4 DEF Repeated, t

LEMMA RepeatedLast ==
  ASSUME NEW w \in Seq(Entry), NEW class, Repeated(w, class)
  PROVE  w[Len(w)].class = class
<1>1. Threshold(class) \in {2, 3} /\ Len(w) \in Nat
  BY Thresholds
<1>2. Len(w) \in Len(w) - Threshold(class) + 1 .. Len(w)
  BY <1>1
<1> QED BY <1>2 DEF Repeated

(* A set of naturals with a bound has a greatest element, and Max is it.   *)
LEMMA Largest ==
  ASSUME NEW S \in SUBSET Nat, S # {}, NEW bound \in Nat, \A n \in S : n <= bound
  PROVE  Max(S) \in S /\ \A n \in S : n <= Max(S)
<1> DEFINE below == {m \in Nat : m <= bound /\ bound - m \in S}
<1>1. PICK n \in S : TRUE
  OBVIOUS
<1>2. bound - n \in below
  BY <1>1
<1>3. Min(below) \in below /\ \A m \in below : Min(below) <= m
  <2>1. below \in SUBSET Nat /\ below # {}
    BY <1>2
  <2> HIDE DEF below
  <2> QED BY <2>1, Smallest
<1> DEFINE top == bound - Min(below)
<1>4. top \in S
  BY <1>3
<1>5. ASSUME NEW m \in S PROVE m <= top
  <2>1. bound - m \in below
    BY <1>5
  <2>2. Min(below) <= bound - m /\ Min(below) \in Nat
    BY <1>3, <2>1
  <2> QED BY <2>2
<1> HIDE DEF top
<1>6. top \in Nat
  BY <1>4
<1>7. \E x \in S : \A y \in S : x >= y
  BY <1>4, <1>5, <1>6
<1> QED BY <1>7 DEF Max

(* The streak reaches the threshold of a class just when it is repeated.   *)
LEMMA StreakMeans ==
  ASSUME NEW w \in Seq(Entry), NEW class
  PROVE  Streak(w, class) >= Threshold(class) <=> Repeated(w, class)
<1> DEFINE runs == {n \in 0 .. Len(w) : AllSure(LastOf(w, n), class)}
           All(n) == \A i \in Len(w) - n + 1 .. Len(w) : w[i].class = class /\ w[i].sure
           t == Threshold(class)
<1>1. Len(w) \in Nat /\ t \in Nat
  BY Thresholds
<1>2. ASSUME NEW n \in 0 .. Len(w) PROVE AllSure(LastOf(w, n), class) <=> All(n)
  <2> DEFINE last == LastOf(w, n)
  <2>1. /\ last \in Seq(Entry) /\ Len(last) = n
        /\ \A i \in 1 .. n : last[i] = w[Len(w) - n + i]
    <3>1. n \in Nat /\ (IF n < Len(w) THEN n ELSE Len(w)) = n
      BY <1>1
    <3>2. /\ last \in Seq(Entry) /\ Len(last) = IF n < Len(w) THEN n ELSE Len(w)
          /\ \A i \in 1 .. Len(last) : last[i] = w[Len(w) - Len(last) + i]
      BY <3>1, LastOnes
    <3> HIDE DEF last
    <3>3. Len(last) = n
      BY <3>1, <3>2
    <3> QED BY <3>2, <3>3
  <2>2. DOMAIN last = 1 .. n
    <3> HIDE DEF last
    <3> QED BY <2>1
  <2> HIDE DEF last
  <2>3. ASSUME AllSure(last, class), NEW i \in Len(w) - n + 1 .. Len(w)
        PROVE  w[i].class = class /\ w[i].sure
    <3>1. i - Len(w) + n \in 1 .. n /\ Len(w) - n + (i - Len(w) + n) = i
      BY <1>1
    <3>2. last[i - Len(w) + n] = w[i]
      BY <2>1, <3>1
    <3> QED BY <2>2, <2>3, <3>1, <3>2 DEF AllSure
  <2>4. ASSUME All(n), NEW i \in 1 .. n PROVE last[i].class = class /\ last[i].sure
    <3>1. Len(w) - n + i \in Len(w) - n + 1 .. Len(w)
      BY <1>1
    <3>2. last[i] = w[Len(w) - n + i]
      BY <2>1
    <3> QED BY <2>4, <3>1, <3>2
  <2>5. AllSure(last, class) => All(n)
    BY <2>3
  <2>6. All(n) => AllSure(last, class)
    BY <2>2, <2>4 DEF AllSure
  <2> QED BY <2>5, <2>6 DEF last
<1>3. 0 \in runs
  <2>1. All(0) /\ 0 \in 0 .. Len(w)
    BY <1>1
  <2> HIDE DEF All
  <2> QED BY <1>2, <2>1
<1>4. Max(runs) \in runs /\ \A n \in runs : n <= Max(runs)
  <2>1. runs \in SUBSET Nat /\ runs # {} /\ \A n \in runs : n <= Len(w)
    BY <1>1, <1>3
  <2> HIDE DEF runs
  <2> QED BY <1>1, <2>1, Largest
<1>5. Streak(w, class) = Max(runs)
  BY DEF Streak
<1> DEFINE top == Max(runs)
<1>6. top \in 0 .. Len(w) /\ AllSure(LastOf(w, top), class)
  BY <1>4
<1> HIDE DEF top
<1>7. All(top)
  BY <1>2, <1>6
<1>8. ASSUME top >= t PROVE Len(w) >= t /\ All(t)
  BY <1>1, <1>6, <1>7, <1>8
<1>9. ASSUME Len(w) >= t, All(t) PROVE top >= t
  <2>1. t \in 0 .. Len(w)
    BY <1>1, <1>9
  <2>2. AllSure(LastOf(w, t), class)
    <3> HIDE DEF All, t
    <3> QED BY <1>2, <1>9, <2>1
  <2>3. t \in runs
    <3> HIDE DEF t
    <3> QED BY <2>1, <2>2
  <2>4. t <= top
    <3> HIDE DEF runs, t
    <3> QED BY <1>4, <2>3 DEF top
  <2> QED BY <1>1, <1>6, <2>4
<1> HIDE DEF runs
<1>10. top = Streak(w, class)
  BY <1>5 DEF top
<1> QED BY <1>8, <1>9, <1>10 DEF Repeated

(* The window of the run, or that in the file between two runs, ends the   *)
(* history of failures, unless something was lost.                         *)
Window == IF at = Idle THEN file.window ELSE mem.window
Kept == ~lost => Ends(Window, history)

LEMMA RepeatsInitial == Init => Kept /\ TripMeansRepeats
<1> SUFFICES ASSUME Init PROVE Kept /\ TripMeansRepeats
  OBVIOUS
<1>1. Window = <<>> /\ history = <<>>
  BY DEF Init, Window, Fresh
<1>2. Ends(<<>>, <<>>)
  BY DEF Ends
<1> QED BY <1>1, <1>2 DEF Kept, TripMeansRepeats

(* What the step of the breaker makes of the window and of the history.    *)
LEMMA Evaluated ==
  ASSUME TypeOK, Evaluate
  PROVE  \E entry \in Entry :
           /\ mem' = [mem EXCEPT !.window = Remembered(mem.window, entry)]
           /\ mem'.window = Remembered(mem.window, entry)
           /\ Remembered(mem.window, entry) \in Seq(Entry)
           /\ Ends(Remembered(mem.window, entry), Append(mem.window, entry))
           /\ matched' = RuleMatched(mem.window, entry)
           /\ history' = Append(history, entry) /\ failures' = Append(failures, entry)
<1> DEFINE entry == [class |-> triaged[current].class, sure |-> triaged[current].sure]
<1>1. entry \in Entry
  BY TriagedEntry DEF Evaluate, TypeOK, RunTyped
<1>2. /\ mem' = [mem EXCEPT !.window = Remembered(mem.window, entry)]
      /\ matched' = RuleMatched(mem.window, entry)
      /\ history' = Append(history, entry) /\ failures' = Append(failures, entry)
  BY DEF Evaluate
<1>3. mem \in State /\ mem.window \in Seq(Entry)
  BY DEF TypeOK, StateTyped, State
<1> HIDE DEF entry
<1>4. Remembered(mem.window, entry) \in Seq(Entry)
  BY <1>1, <1>3, RememberedFits
<1>5. mem'.window = Remembered(mem.window, entry)
  BY <1>2, <1>3, <1>4, StateRemembers
<1>6. Ends(Remembered(mem.window, entry), Append(mem.window, entry))
  <2>1. Append(mem.window, entry) \in Seq(Entry)
    BY <1>1, <1>3
  <2>2. DiversityWindow \in Nat
    BY Constants
  <2> QED BY <2>1, <2>2, LastOnesEnd DEF Remembered
<1> QED BY <1>1, <1>2, <1>4, <1>5, <1>6

(* A match of the same-class rule is a repetition in the window.           *)
LEMMA SameClassMeans ==
  ASSUME NEW w \in Seq(Entry), NEW entry \in Entry
  PROVE  SameClass(w, entry) <=> /\ entry.class \notin {"", "unknown"}
                                 /\ Repeated(Append(w, entry), entry.class)
<1> DEFINE longer == Append(w, entry)
<1>1. longer \in Seq(Entry)
  OBVIOUS
<1> HIDE DEF longer
<1>2. Streak(longer, entry.class) >= Threshold(entry.class) <=>
        Repeated(longer, entry.class)
  BY <1>1, StreakMeans
<1> QED BY <1>2 DEF SameClass, longer

LEMMA KeptStep == TypeOK /\ Kept /\ [Next]_vars => Kept'
<1> SUFFICES ASSUME TypeOK, Kept, [Next]_vars PROVE Kept'
  OBVIOUS
<1> USE DEF breaking, runVars, Idle
<1>1. ASSUME at # Idle, at' # Idle, mem'.window = mem.window,
             UNCHANGED <<lost, history>>
      PROVE  Kept'
  BY <1>1 DEF Kept, Window
<1>2. ASSUME at # Idle, LeaveIdle(mem), UNCHANGED <<file, history>> PROVE Kept'
  BY <1>2 DEF LeaveIdle, Kept, Window
<1>3. ASSUME UNCHANGED <<at, file, mem, lost, history>> PROVE Kept'
  BY <1>3 DEF Kept, Window
<1>4. mem \in State
  BY DEF TypeOK, StateTyped
<1>5. ASSUME NEW ignoring \in Bypasses, NEW to \in UpTo, StartRun(ignoring, to)
      PROVE  Kept'
  BY <1>5 DEF StartRun, Kept, Window
<1>6. CASE StartMilestone \/ Retry
  <2>1. \/ at' = "attempt" /\ lost' = lost
        \/ LeaveIdle(mem)
    BY <1>6 DEF StartMilestone, Retry, Gate
  <2>2. at \in {"loop", "retry"} /\ UNCHANGED <<file, mem, history>>
    BY <1>6 DEF StartMilestone, Retry, Due
  <2> QED BY <1>1, <1>2, <2>1, <2>2
<1>7. ASSUME NEW cost \in Costs, Charge(cost) PROVE mem'.window = mem.window
  <2>1. cost \in Nat /\ mem' = [mem EXCEPT !.total = @ + cost]
    BY <1>7, Constants DEF Charge
  <2> QED BY <1>4, <2>1, StateCharged
<1>8. ASSUME NEW cost \in Costs, Succeed(cost) PROVE Kept'
  BY <1>1, <1>7, <1>8 DEF Succeed, Move
<1>9. ASSUME NEW cost \in Costs, NEW types \in Signals, Fail(cost, types)
      PROVE  Kept'
  BY <1>1, <1>7, <1>9 DEF Fail, Move
<1>10. ASSUME NEW fails \in TriageFails, NEW reason \in Reasons, Triage(fails, reason)
       PROVE  Kept'
  <2>1. at = "retry" /\ at' = "failing" /\ UNCHANGED <<mem, lost, history>>
    BY <1>10 DEF Triage, Move
  <2> QED BY <1>1, <2>1
<1>11. CASE Record \/ RecordFailed
  <2>1. current \in Names
    BY <1>11 DEF Record, RecordFailed, Move, TypeOK, RunTyped
  <2>2. \/ mem' = [mem EXCEPT !.completed = @ \cup {current}]
        \/ mem' = [mem EXCEPT !.failed = @ \cup {current}]
    BY <1>11 DEF Record, RecordFailed
  <2>3. mem'.window = mem.window
    BY <1>4, <2>1, <2>2, StateSettled
  <2> QED BY <1>1, <1>11, <2>3 DEF Record, RecordFailed, Move
<1>12. CASE PassOver \/ EndLoop \/ NoBreaker
  BY <1>1, <1>12 DEF PassOver, EndLoop, NoBreaker, Move
<1>13. CASE Evaluate
  <2>1. PICK entry \in Entry :
          /\ mem'.window = Remembered(mem.window, entry)
          /\ Remembered(mem.window, entry) \in Seq(Entry)
          /\ Ends(Remembered(mem.window, entry), Append(mem.window, entry))
          /\ history' = Append(history, entry)
    BY <1>13, Evaluated
  <2>2. at # Idle /\ at' # Idle /\ lost' = lost
    BY <1>13 DEF Evaluate
  <2>3. ASSUME ~lost PROVE Ends(Remembered(mem.window, entry), history')
    <3>1. Ends(mem.window, history) /\ mem.window \in Seq(Entry) /\ history \in Seq(Entry)
      BY <2>2, <2>3 DEF Kept, Window, TypeOK, StateTyped, State, GhostsTyped
    <3>2. Ends(Append(mem.window, entry), Append(history, entry))
      BY <3>1, EndsAfterOneMore
    <3>3. Append(mem.window, entry) \in Seq(Entry) /\ Append(history, entry) \in Seq(Entry)
      BY <3>1
    <3> QED BY <2>1, <3>2, <3>3, EndsOfEnds
  <2> QED BY <2>1, <2>2, <2>3 DEF Kept, Window
<1>14. CASE Complete \/ Crash
  BY <1>2, <1>14 DEF Complete, Crash
<1>15. CASE Tick \/ LoadForReset
  BY <1>3, <1>15 DEF Tick, LoadForReset
<1>16. ASSUME NEW w \in Windows, BudgetReset(w) PROVE Kept'
  BY <1>3, <1>16 DEF BudgetReset
<1>17. CASE SaveReset
  <2>1. CASE at # Idle
    BY <1>17, <2>1 DEF SaveReset, Kept
  <2>2. CASE at = Idle
    <3>1. cli \in State
      BY <1>17 DEF SaveReset, TypeOK, StateTyped
    <3>2. <<>> \in Seq(Entry) /\ file' = [cli EXCEPT !.window = <<>>] /\ history' = <<>>
          /\ at' = at
      BY <1>17 DEF SaveReset
    <3>3. file'.window = <<>>
      BY <3>1, <3>2, StateRemembers
    <3>4. Ends(<<>>, <<>>)
      BY DEF Ends
    <3> QED BY <2>2, <3>2, <3>3, <3>4 DEF Kept, Window
  <2> QED BY <2>1, <2>2
<1>18. CASE UNCHANGED vars
  BY <1>3, <1>18 DEF vars
<1> QED
  BY <1>5, <1>6, <1>8, <1>9, <1>10, <1>11, <1>12, <1>13, <1>14, <1>15, <1>16, <1>17, <1>18
  DEF Next, Step

LEMMA RepeatsStep ==
  TypeOK /\ Kept /\ TripMeansRepeats /\ [Next]_vars => TripMeansRepeats'
<1> SUFFICES ASSUME TypeOK, Kept, TripMeansRepeats, [Next]_vars PROVE TripMeansRepeats'
  OBVIOUS
<1> USE DEF breaking
<1>1. ASSUME UNCHANGED <<matched, history>>, lost => lost' PROVE TripMeansRepeats'
  BY <1>1 DEF TripMeansRepeats, Repeated
<1>2. ASSUME matched' = "none" \/ history' = <<>> PROVE TripMeansRepeats'
  BY <1>2 DEF TripMeansRepeats
<1>3. ASSUME NEW ignoring \in Bypasses, NEW to \in UpTo, StartRun(ignoring, to)
      PROVE  TripMeansRepeats'
  BY <1>2, <1>3 DEF StartRun
<1>4. CASE StartMilestone \/ Retry
  <2>1. lost => lost'
    BY <1>4, Zenon DEF StartMilestone, Retry, Gate, LeaveIdle
  <2> QED BY <1>1, <1>4, <2>1 DEF StartMilestone, Retry
<1>5. CASE Complete \/ Crash
  <2>1. lost => lost'
    BY <1>5, Zenon DEF Complete, Crash, LeaveIdle
  <2> QED BY <1>1, <1>5, <2>1 DEF Complete, Crash
<1>6. CASE PassOver \/ EndLoop \/ Record \/ RecordFailed \/ NoBreaker
  BY <1>1, <1>6 DEF PassOver, EndLoop, Record, RecordFailed, NoBreaker
<1>7. ASSUME NEW cost \in Costs, Succeed(cost) PROVE TripMeansRepeats'
  BY <1>1, <1>7 DEF Succeed
<1>8. ASSUME NEW cost \in Costs, NEW types \in Signals, Fail(cost, types)
      PROVE  TripMeansRepeats'
  BY <1>1, <1>8 DEF Fail
<1>9. ASSUME NEW fails \in TriageFails, NEW reason \in Reasons, Triage(fails, reason)
      PROVE  TripMeansRepeats'
  BY <1>1, <1>9 DEF Triage
<1>10. CASE Evaluate
  <2> SUFFICES ASSUME matched' = "same_class_repeat", ~lost'
               PROVE  Repeated(history', history'[Len(history')].class)
    BY DEF TripMeansRepeats, Repeated
  <2>1. PICK entry \in Entry : /\ matched' = RuleMatched(mem.window, entry)
                               /\ history' = Append(history, entry)
    BY <1>10, Evaluated
  <2>2. at # Idle /\ ~lost
    BY <1>10 DEF Evaluate, Idle
  <2>3. Ends(mem.window, history) /\ mem.window \in Seq(Entry) /\ history \in Seq(Entry)
    BY <2>2 DEF Kept, Window, TypeOK, StateTyped, State, GhostsTyped
  <2>4. SameClass(mem.window, entry)
    BY <2>1 DEF RuleMatched
  <2>5. Repeated(Append(mem.window, entry), entry.class)
    BY <2>3, <2>4, SameClassMeans
  <2>6. Ends(Append(mem.window, entry), Append(history, entry))
    BY <2>3, EndsAfterOneMore
  <2>7. Append(mem.window, entry) \in Seq(Entry) /\ Append(history, entry) \in Seq(Entry)
    BY <2>3
  <2>8. Repeated(Append(history, entry), entry.class)
    BY <2>5, <2>6, <2>7, EndsRepeated
  <2>9. history'[Len(history')] = entry
    BY <2>1, <2>3
  <2> QED BY <2>1, <2>8, <2>9
<1>11. CASE Tick \/ LoadForReset
  BY <1>1, <1>11 DEF Tick, LoadForReset
<1>12. ASSUME NEW w \in Windows, BudgetReset(w) PROVE TripMeansRepeats'
  BY <1>1, <1>12 DEF BudgetReset
<1>13. CASE SaveReset
  BY <1>2, <1>13 DEF SaveReset
<1>14. CASE UNCHANGED vars
  BY <1>1, <1>14 DEF vars
<1> QED
  BY <1>3, <1>4, <1>5, <1>6, <1>7, <1>8, <1>9, <1>10, <1>11, <1>12, <1>13, <1>14
  DEF Next, Step

(* For any failures, crashes and resets: unless a window was lost, the     *)
(* same-class rule matches only what happened back to back.                *)
THEOREM StopsForRepeats == Spec => []TripMeansRepeats
<1>1. Init => TypeOK /\ Kept /\ TripMeansRepeats
  BY TypeInitial, RepeatsInitial
<1>2. TypeOK /\ Kept /\ TripMeansRepeats /\ [Next]_vars
        => (TypeOK /\ Kept /\ TripMeansRepeats)'
  BY TypeStep, KeptStep, RepeatsStep
<1> QED BY <1>1, <1>2, PTL DEF Spec

(* While an enforcing breaker lets a run go on, its failures are still in  *)
(* the window, are fewer than the threshold, and repeat no class.          *)
Going == BreakerMode = "enforce" /\ at \notin {Idle, "completing"}
Below ==
  Going => /\ Len(failures) < DiversityThreshold
           /\ Ends(failures, mem.window)
           /\ \A class \in Class \ {"", "unknown"} : ~Repeated(failures, class)

LEMMA NothingRepeats == \A class : ~Repeated(<<>>, class)
<1>1. ASSUME NEW class, Repeated(<<>>, class) PROVE FALSE
  <2>1. 0 >= Threshold(class) /\ Threshold(class) \in {2, 3}
    BY <1>1, Thresholds DEF Repeated
  <2> QED BY <2>1
<1> QED BY <1>1

(* A failure after which no rule matches.                                  *)
LEMMA StillBelow ==
  ASSUME DiversityThreshold <= DiversityWindow,
         NEW w \in Seq(Entry), NEW f \in Seq(Entry), NEW entry \in Entry, Ends(f, w),
         RuleMatched(w, entry) = "none"
  PROVE  /\ Len(Append(f, entry)) < DiversityThreshold
         /\ Ends(Append(f, entry), Remembered(w, entry))
         /\ \A class \in Class \ {"", "unknown"} : ~Repeated(Append(f, entry), class)
<1> DEFINE longer == Append(w, entry)
           more   == Append(f, entry)
           last   == LastOf(longer, DiversityWindow)
<1>1. /\ longer \in Seq(Entry) /\ more \in Seq(Entry)
      /\ Len(longer) = Len(w) + 1 /\ longer[Len(w) + 1] = entry
      /\ Len(w) \in Nat /\ DiversityWindow \in Nat /\ DiversityThreshold \in Nat
  BY Constants
<1>2. Ends(more, longer)
  BY EndsAfterOneMore
<1>3. ~SameClass(w, entry) /\ ~(Len(last) >= DiversityThreshold)
  BY DEF RuleMatched, Diversity
<1>4. last = Remembered(w, entry)
  BY DEF Remembered
<1> HIDE DEF longer, more
<1>5. /\ last \in Seq(Entry)
      /\ Len(last) = IF DiversityWindow < Len(longer) THEN DiversityWindow ELSE Len(longer)
      /\ \A i \in 1 .. Len(last) : last[i] = longer[Len(longer) - Len(last) + i]
  BY <1>1, LastOnes
<1> HIDE DEF last
<1>6. Len(last) = Len(longer) /\ Len(last) < DiversityThreshold
  BY <1>1, <1>3, <1>5
<1>7. ASSUME NEW i \in 1 .. Len(last) PROVE last[i] = longer[i]
  <2>1. last[i] = longer[Len(longer) - Len(last) + i]
    BY <1>5
  <2>2. Len(longer) - Len(last) + i = i
    BY <1>1, <1>6
  <2> QED BY <2>1, <2>2
<1>8. Len(more) \in Nat /\ Len(more) <= Len(longer)
  BY <1>1, <1>2 DEF Ends
<1>9. Ends(more, last)
  <2>1. ASSUME NEW i \in 1 .. Len(more) PROVE more[i] = last[Len(last) - Len(more) + i]
    <3>1. more[i] = longer[Len(longer) - Len(more) + i]
      BY <1>2 DEF Ends
    <3>2. Len(last) - Len(more) + i \in 1 .. Len(last)
      BY <1>1, <1>6, <1>8
    <3> QED BY <1>6, <1>7, <3>1, <3>2
  <2> QED BY <1>6, <1>8, <2>1 DEF Ends
<1>10. ASSUME NEW class \in Class \ {"", "unknown"}, Repeated(more, class) PROVE FALSE
  <2>1. Repeated(longer, class)
    BY <1>1, <1>2, <1>10, EndsRepeated
  <2>2. entry.class = class
    <3>1. longer[Len(longer)].class = class
      BY <1>1, <2>1, RepeatedLast
    <3> QED BY <1>1, <3>1
  <2>3. SameClass(w, entry)
    BY <1>10, <2>1, <2>2, SameClassMeans DEF longer
  <2> QED BY <1>3, <2>3
<1>11. Len(more) < DiversityThreshold
  BY <1>1, <1>6, <1>8
<1>12. \A class \in Class \ {"", "unknown"} : ~Repeated(more, class)
  BY <1>10
<1> QED BY <1>4, <1>9, <1>11, <1>12 DEF more

LEMMA BelowStep ==
  DiversityThreshold <= DiversityWindow /\ TypeOK /\ Below /\ [Next]_vars => Below'
<1> SUFFICES ASSUME DiversityThreshold <= DiversityWindow, TypeOK, Below, [Next]_vars
             PROVE  Below'
  OBVIOUS
<1> USE DEF breaking, runVars, Idle
<1>1. ASSUME UNCHANGED failures, mem'.window = mem.window,
             at \notin {"idle", "completing"} \/ at' \in {at, "idle"}
      PROVE  Below'
  BY <1>1 DEF Below, Going, Repeated
<1>2. ASSUME at' \in {"idle", "completing"} PROVE Below'
  BY <1>2 DEF Below, Going
<1>3. mem \in State
  BY DEF TypeOK, StateTyped
<1>4. ASSUME NEW ignoring \in Bypasses, NEW to \in UpTo, StartRun(ignoring, to)
      PROVE  Below'
  <2>1. failures' = <<>> /\ mem' = file
    BY <1>4 DEF StartRun
  <2>2. Ends(<<>>, file.window)
    <3>1. file.window \in Seq(Entry)
      BY DEF TypeOK, StateTyped, State
    <3>2. Len(file.window) >= 0
      BY <3>1
    <3> QED BY <3>2 DEF Ends
  <2>3. Len(<<>>) < DiversityThreshold
    BY Constants
  <2> QED BY <2>1, <2>2, <2>3, NothingRepeats DEF Below, Repeated
<1>5. CASE StartMilestone \/ Retry
  <2>1. at \in {"loop", "retry"} /\ UNCHANGED <<mem, failures>>
    BY <1>5 DEF StartMilestone, Retry, Due
  <2> QED BY <1>1, <2>1
<1>6. ASSUME NEW cost \in Costs, Charge(cost) PROVE mem'.window = mem.window
  <2>1. cost \in Nat /\ mem' = [mem EXCEPT !.total = @ + cost]
    BY <1>6, Constants DEF Charge
  <2> QED BY <1>3, <2>1, StateCharged
<1>7. ASSUME NEW cost \in Costs, Succeed(cost) PROVE Below'
  BY <1>1, <1>6, <1>7 DEF Succeed, Move
<1>8. ASSUME NEW cost \in Costs, NEW types \in Signals, Fail(cost, types)
      PROVE  Below'
  BY <1>1, <1>6, <1>8 DEF Fail, Move
<1>9. ASSUME NEW fails \in TriageFails, NEW reason \in Reasons, Triage(fails, reason)
      PROVE  Below'
  <2>1. at = "retry" /\ UNCHANGED <<mem, failures>>
    BY <1>9 DEF Triage, Move
  <2> QED BY <1>1, <2>1
<1>10. CASE Record \/ RecordFailed
  <2>1. current \in Names
    BY <1>10 DEF Record, RecordFailed, Move, TypeOK, RunTyped
  <2>2. \/ mem' = [mem EXCEPT !.completed = @ \cup {current}]
        \/ mem' = [mem EXCEPT !.failed = @ \cup {current}]
    BY <1>10 DEF Record, RecordFailed
  <2>3. mem'.window = mem.window
    BY <1>3, <2>1, <2>2, StateSettled
  <2> QED BY <1>1, <1>10, <2>3 DEF Record, RecordFailed, Move
<1>11. CASE PassOver \/ EndLoop \/ NoBreaker
  BY <1>1, <1>11 DEF PassOver, EndLoop, NoBreaker, Move
<1>12. CASE Evaluate
  <2>1. PICK entry \in Entry :
          /\ mem'.window = Remembered(mem.window, entry)
          /\ matched' = RuleMatched(mem.window, entry)
          /\ failures' = Append(failures, entry)
    BY <1>12, Evaluated
  <2>2. at = "breaker" /\ (matched' # "none" /\ BreakerMode = "enforce"
                             => at' = "completing")
    BY <1>12 DEF Evaluate
  <2>3. CASE BreakerMode = "enforce" /\ matched' = "none"
    <3>1. Ends(failures, mem.window) /\ failures \in Seq(Entry) /\ mem.window \in Seq(Entry)
      BY <2>2, <2>3 DEF Below, Going, TypeOK, StateTyped, State, GhostsTyped
    <3>2. RuleMatched(mem.window, entry) = "none"
      BY <2>1, <2>3
    <3> QED BY <2>1, <3>1, <3>2, StillBelow DEF Below, Repeated
  <2>4. CASE ~(BreakerMode = "enforce" /\ matched' = "none")
    BY <1>2, <2>2, <2>4 DEF Below, Going
  <2> QED BY <2>3, <2>4
<1>13. CASE Complete \/ Crash
  BY <1>2, <1>13 DEF Complete, Crash, LeaveIdle
<1>14. CASE Tick \/ LoadForReset \/ SaveReset
  BY <1>1, <1>14 DEF Tick, LoadForReset, SaveReset
<1>15. ASSUME NEW w \in Windows, BudgetReset(w) PROVE Below'
  BY <1>1, <1>15 DEF BudgetReset
<1>16. CASE UNCHANGED vars
  BY <1>1, <1>16 DEF vars
<1> QED
  BY <1>4, <1>5, <1>7, <1>8, <1>9, <1>10, <1>11, <1>12, <1>13, <1>14, <1>15, <1>16
  DEF Next, Step

(* For any failures, windows and resets, as long as the window is at least *)
(* as long as the threshold of the diversity rule (5 and 3 by default, and *)
(* not compared by the code): no milestone begins after a repetition.      *)
THEOREM RepetitionStopsTheRun ==
  ASSUME DiversityThreshold <= DiversityWindow
  PROVE  Spec => []RepeatsStopTheRun
<1>1. Init => TypeOK /\ Below
  BY TypeInitial DEF Init, Below, Going, Idle
<1>2. TypeOK /\ Below /\ [Next]_vars => (TypeOK /\ Below)'
  BY TypeStep, BelowStep
<1>3. Below => RepeatsStopTheRun
  BY DEF Below, Going, RepeatsStopTheRun, Idle
<1> QED BY <1>1, <1>2, <1>3, PTL DEF Spec

-----------------------------------------------------------------------------
(* Spend                                                                   *)

(* The total in the file is what was charged, and so is that of the run;   *)
(* the last report tells at least all that was charged when a run last     *)
(* reported, unless an older state was written back.                       *)
Keyed == \A w \in Windows : checkpoints[ConfigKeyByWindow[w]] = 0
Dated == /\ \A i \in DOMAIN ledger : ledger[i].at <= now
         /\ \A t \in 1 .. Horizon : t > now => charged[t] = 0
Booked ==
  ~clobbered => /\ file.total = SumFunctionOnSet(charged, 1 .. Horizon)
                /\ at # Idle => mem.total = file.total
LastReport == ledger[Len(ledger)]
Reports ==
  ~clobbered =>
    /\ ledger = <<>> => \A t \in 1 .. Horizon : reported[t] = 0
    /\ ledger # <<>> =>
         /\ SumFunctionOnSet(reported, 1 .. Horizon) <= LastReport.cost
         /\ \A t \in 1 .. Horizon : t > LastReport.at => reported[t] = 0
Counting == Keyed /\ Dated /\ Booked /\ Reports

LEMMA CountingInitial == Init => Counting
<1> SUFFICES ASSUME Init PROVE Counting
  OBVIOUS
<1>1. charged = [t \in 1 .. Horizon |-> 0] /\ reported = charged /\ ledger = <<>>
      /\ file = Fresh /\ mem = Fresh /\ at = Idle
  BY DEF Init
<1>2. SumFunctionOnSet(charged, 1 .. Horizon) = 0
  <2>1. IsFiniteSet(1 .. Horizon) /\ IsFiniteSet({})
    BY Constants, FS_Interval, FS_EmptySet
  <2>2. \A t \in 1 .. Horizon : charged[t] \in Nat /\ charged[t] = 0
    BY <1>1
  <2>3. /\ SumFunctionOnSet(charged, 1 .. Horizon) \in Nat
        /\ SumFunctionOnSet(charged, {}) = 0
    BY <2>1, <2>2, SumOneByOne
  <2>4. SumFunctionOnSet(charged, 1 .. Horizon) <= SumFunctionOnSet(charged, {})
    BY <2>1, <2>2, SumIsLess
  <2> QED BY <2>3, <2>4
<1>3. Keyed
  BY DEF Init, Keyed, ConfigKeyByWindow, Windows, Keys
<1> QED BY <1>1, <1>2, <1>3 DEF Counting, Dated, Booked, Reports, Fresh

LEMMA KeyedStep == TypeOK /\ Keyed /\ [Next]_vars => Keyed'
<1> SUFFICES ASSUME TypeOK, Keyed, [Next]_vars PROVE Keyed'
  OBVIOUS
<1>1. ASSUME UNCHANGED checkpoints PROVE Keyed'
  BY <1>1 DEF Keyed
<1>2. ASSUME NEW w \in Windows, BudgetReset(w) PROVE Keyed'
  <2>1. checkpoints' = [checkpoints EXCEPT ![w] = now] /\ checkpoints \in [Keys -> 0 .. Horizon]
    BY <1>2 DEF BudgetReset, TypeOK, StateTyped
  <2>2. ASSUME NEW v \in Windows PROVE checkpoints'[ConfigKeyByWindow[v]] = 0
    <3>1. ConfigKeyByWindow[v] \in Keys /\ ConfigKeyByWindow[v] # w
      BY DEF Windows, Keys, ConfigKeyByWindow
    <3>2. checkpoints[ConfigKeyByWindow[v]] = 0
      BY DEF Keyed
    <3> QED BY <2>1, <3>1, <3>2
  <2> QED BY <2>2 DEF Keyed
<1> QED
  BY <1>1, <1>2 DEF Next, Step, vars, StartRun, PassOver, EndLoop, StartMilestone, Retry,
     Succeed, Fail, Record, Triage, RecordFailed, Evaluate, NoBreaker, Complete, Crash,
     Tick, LoadForReset, SaveReset

LEMMA DatedStep == TypeOK /\ Dated /\ [Next]_vars => Dated'
<1> SUFFICES ASSUME TypeOK, Dated, [Next]_vars PROVE Dated'
  OBVIOUS
<1> USE DEF telemetry, spending
<1>1. ASSUME UNCHANGED <<now, ledger, charged>> PROVE Dated'
  BY <1>1 DEF Dated
<1>2. now \in 1 .. Horizon /\ ledger \in Seq(Report)
      /\ charged \in [1 .. Horizon -> Nat] /\ Horizon \in Nat
  BY Constants DEF TypeOK, RunTyped, TelemetryTyped, GhostsTyped
<1>3. ASSUME NEW cost \in Costs, Charge(cost), UNCHANGED <<now, ledger>> PROVE Dated'
  <2>1. charged' = [charged EXCEPT ![now] = @ + cost]
    BY <1>3 DEF Charge
  <2>2. ASSUME NEW t \in 1 .. Horizon, t > now PROVE charged'[t] = 0
    <3>1. charged[t] = 0 /\ t # now
      BY <1>2, <2>2 DEF Dated
    <3> QED BY <1>2, <2>1, <3>1
  <2> QED BY <1>3, <2>2 DEF Dated
<1>4. ASSUME NEW cost \in Costs, Succeed(cost) PROVE Dated'
  BY <1>3, <1>4 DEF Succeed
<1>5. ASSUME NEW cost \in Costs, NEW types \in Signals, Fail(cost, types)
      PROVE  Dated'
  BY <1>3, <1>5 DEF Fail
<1>6. CASE Complete
  <2> DEFINE report == [at |-> now, cost |-> mem.total]
  <2>1. report.at = now /\ ledger' = Append(ledger, report) /\ UNCHANGED <<now, charged>>
    BY <1>6 DEF Complete
  <2> HIDE DEF report
  <2>2. ASSUME NEW i \in DOMAIN ledger' PROVE ledger'[i].at <= now
    <3>1. CASE i \in DOMAIN ledger
      BY <1>2, <2>1, <3>1 DEF Dated
    <3>2. CASE i \notin DOMAIN ledger
      <4>1. ledger'[i] = report
        BY <1>2, <2>1, <2>2, <3>2
      <4> QED BY <1>2, <2>1, <4>1
    <3> QED BY <3>1, <3>2
  <2> QED BY <2>1, <2>2 DEF Dated
<1>7. CASE Tick
  <2>1. now' = now + 1 /\ UNCHANGED <<ledger, charged>>
    BY <1>7 DEF Tick
  <2>2. ASSUME NEW i \in DOMAIN ledger PROVE ledger[i].at <= now + 1
    <3>1. ledger[i] \in Report
      BY <1>2
    <3>2. ledger[i].at \in 1 .. Horizon /\ ledger[i].at <= now
      BY <3>1 DEF Dated, Report
    <3> QED BY <1>2, <3>2
  <2>3. ASSUME NEW t \in 1 .. Horizon, t > now + 1 PROVE charged[t] = 0
    BY <1>2, <2>3 DEF Dated
  <2> QED BY <2>1, <2>2, <2>3 DEF Dated
<1>8. ASSUME NEW w \in Windows, BudgetReset(w) PROVE Dated'
  BY <1>1, <1>8 DEF BudgetReset
<1> QED
  BY <1>1, <1>4, <1>5, <1>6, <1>7, <1>8 DEF Next, Step, vars, StartRun, PassOver, EndLoop,
     StartMilestone, Retry, Record, Triage, RecordFailed, Evaluate, NoBreaker, Crash,
     LoadForReset, SaveReset

LEMMA BookedStep == TypeOK /\ Booked /\ [Next]_vars => Booked'
<1> SUFFICES ASSUME TypeOK, Booked, [Next]_vars PROVE Booked'
  OBVIOUS
<1> USE DEF spending, runVars, Idle
<1>1. ASSUME at # "idle", file'.total = file.total, mem'.total = mem.total,
             UNCHANGED <<clobbered, charged>>
      PROVE  Booked'
  BY <1>1 DEF Booked
<1>2. ASSUME UNCHANGED <<at, file, mem, clobbered, charged>> PROVE Booked'
  BY <1>2 DEF Booked
<1>3. mem \in State
  BY DEF TypeOK, StateTyped
<1>4. ASSUME NEW ignoring \in Bypasses, NEW to \in UpTo, StartRun(ignoring, to)
      PROVE  Booked'
  BY <1>4 DEF StartRun, Booked
<1>5. CASE StartMilestone \/ Retry \/ PassOver \/ EndLoop \/ NoBreaker
  BY <1>1, <1>5 DEF StartMilestone, Retry, Due, PassOver, EndLoop, NoBreaker, Move
<1>6. ASSUME NEW cost \in Costs, Charge(cost), at # "idle", UNCHANGED clobbered
      PROVE  Booked'
  <2>1. cost \in Nat /\ mem' = [mem EXCEPT !.total = @ + cost] /\ file' = mem'
        /\ charged' = [charged EXCEPT ![now] = @ + cost]
    BY <1>6, Constants DEF Charge
  <2>2. mem'.total = mem.total + cost
    BY <1>3, <2>1, StateCharged
  <2>3. SumFunctionOnSet(charged', 1 .. Horizon)
          = SumFunctionOnSet(charged, 1 .. Horizon) + cost
    <3>1. charged \in [1 .. Horizon -> Nat] /\ now \in 1 .. Horizon
      BY DEF TypeOK, RunTyped, GhostsTyped
    <3>2. IsFiniteSet(1 .. Horizon)
      BY Constants, FS_Interval
    <3> QED BY <2>1, <3>1, <3>2, SumAfterCharge
  <2> QED BY <1>6, <2>1, <2>2, <2>3 DEF Booked
<1>7. ASSUME NEW cost \in Costs, Succeed(cost) PROVE Booked'
  BY <1>6, <1>7 DEF Succeed, Move
<1>8. ASSUME NEW cost \in Costs, NEW types \in Signals, Fail(cost, types)
      PROVE  Booked'
  BY <1>6, <1>8 DEF Fail, Move
<1>9. ASSUME NEW fails \in TriageFails, NEW reason \in Reasons, Triage(fails, reason)
      PROVE  Booked'
  <2>1. at = "retry" /\ UNCHANGED <<file, mem, clobbered, charged>>
    BY <1>9 DEF Triage, Move
  <2> QED BY <1>1, <2>1
<1>10. CASE Record \/ RecordFailed
  <2>1. current \in Names /\ at # "idle"
    BY <1>10 DEF Record, RecordFailed, Move, TypeOK, RunTyped
  <2>2. /\ \/ mem' = [mem EXCEPT !.completed = @ \cup {current}]
           \/ mem' = [mem EXCEPT !.failed = @ \cup {current}]
        /\ file' = mem' /\ UNCHANGED <<clobbered, charged>>
    BY <1>10 DEF Record, RecordFailed
  <2>3. mem'.total = mem.total
    BY <1>3, <2>1, <2>2, StateSettled
  <2> QED BY <2>1, <2>2, <2>3 DEF Booked
<1>11. CASE Evaluate
  <2>1. PICK entry \in Entry :
          /\ mem' = [mem EXCEPT !.window = Remembered(mem.window, entry)]
          /\ Remembered(mem.window, entry) \in Seq(Entry)
    BY <1>11, Evaluated
  <2>2. mem'.total = mem.total
    BY <1>3, <2>1, StateRemembers
  <2> QED BY <1>1, <1>11, <2>2 DEF Evaluate
<1>12. CASE Complete \/ Crash
  BY <1>1, <1>12 DEF Complete, Crash
<1>13. CASE Tick \/ LoadForReset
  BY <1>2, <1>13 DEF Tick, LoadForReset
<1>14. ASSUME NEW w \in Windows, BudgetReset(w) PROVE Booked'
  BY <1>2, <1>14 DEF BudgetReset
<1>15. CASE SaveReset
  <2>1. /\ clobbered' = (clobbered \/ cli # file) /\ cli # NoCopy
        /\ file' = [cli EXCEPT !.window = <<>>] /\ UNCHANGED <<at, mem, charged>>
    BY <1>15 DEF SaveReset
  <2>2. cli \in State /\ <<>> \in Seq(Entry)
    BY <2>1 DEF TypeOK, StateTyped
  <2>3. file'.total = cli.total
    BY <2>1, <2>2, StateRemembers
  <2>4. ~clobbered' => ~clobbered /\ cli = file
    BY <2>1, Zenon
  <2> QED BY <2>1, <2>3, <2>4 DEF Booked
<1>16. CASE UNCHANGED vars
  BY <1>2, <1>16 DEF vars
<1> QED
  BY <1>4, <1>5, <1>7, <1>8, <1>9, <1>10, <1>11, <1>12, <1>13, <1>14, <1>15, <1>16
  DEF Next, Step

LEMMA ReportsStep == TypeOK /\ Dated /\ Booked /\ Reports /\ [Next]_vars => Reports'
<1> SUFFICES ASSUME TypeOK, Dated, Booked, Reports, [Next]_vars PROVE Reports'
  OBVIOUS
<1>1. ASSUME UNCHANGED <<ledger, reported>>, ~clobbered' => ~clobbered PROVE Reports'
  BY <1>1 DEF Reports, LastReport
<1>2. CASE Complete
  <2> DEFINE report == [at |-> now, cost |-> mem.total]
  <2>1. report.at = now /\ report.cost = mem.total
    OBVIOUS
  <2>2. /\ at # "idle" /\ ledger' = Append(ledger, report) /\ reported' = charged
        /\ UNCHANGED clobbered
    BY <1>2 DEF Complete
  <2>3. ledger \in Seq(Report)
    BY DEF TypeOK, TelemetryTyped
  <2> HIDE DEF report
  <2>4. ledger' # <<>> /\ LastReport' = report
    BY <2>2, <2>3 DEF LastReport
  <2>5. ASSUME ~clobbered
        PROVE  /\ mem.total = SumFunctionOnSet(charged, 1 .. Horizon)
               /\ mem.total \in Nat
    BY <2>2, <2>5 DEF Booked, Idle, TypeOK, StateTyped, State
  <2>6. \A t \in 1 .. Horizon : t > now => charged[t] = 0
    BY DEF Dated
  <2> QED BY <2>1, <2>2, <2>4, <2>5, <2>6 DEF Reports
<1>3. CASE SaveReset
  <2>1. UNCHANGED <<ledger, reported>> /\ clobbered' = (clobbered \/ cli # file)
    BY <1>3 DEF SaveReset, telemetry, spending
  <2>2. ~clobbered' => ~clobbered
    BY <2>1, Zenon
  <2> QED BY <1>1, <2>1, <2>2
<1>4. ASSUME NEW w \in Windows, BudgetReset(w) PROVE Reports'
  BY <1>1, <1>4 DEF BudgetReset, telemetry, spending
<1>5. ASSUME UNCHANGED <<ledger, reported, clobbered>> PROVE Reports'
  BY <1>1, <1>5
<1> QED
  BY <1>2, <1>3, <1>4, <1>5 DEF Next, Step, vars, telemetry, spending, breaking, StartRun,
     PassOver, EndLoop, StartMilestone, Retry, Succeed, Fail, Record, Triage, RecordFailed,
     Evaluate, NoBreaker, Crash, Tick, LoadForReset

LEMMA CountingStep == TypeOK /\ Counting /\ [Next]_vars => Counting'
  BY KeyedStep, DatedStep, BookedStep, ReportsStep DEF Counting

(* What was reported and falls in a window is no more than all of it, and  *)
(* a report that is in the window counts in full.                          *)
LEMMA ReportCounts ==
  ASSUME TypeOK, Counting, ~clobbered, NEW w \in Windows
  PROVE  /\ SpentIn(w, reported) \in Nat
         /\ WindowSpend(ledger, w, now, 0) \in Nat
         /\ SpentIn(w, reported) <= WindowSpend(ledger, w, now, 0)
<1> DEFINE spent == {t \in 1 .. now : t + Duration[w] >= now /\ t > checkpoints[w]}
           costs == [i \in DOMAIN ledger |-> ledger[i].cost]
           counted == Contributing(ledger, w, now, 0)
<1>1. /\ now \in 1 .. Horizon /\ Horizon \in Nat /\ reported \in [1 .. Horizon -> Nat]
      /\ ledger \in Seq(Report) /\ Duration[w] \in Nat
  BY Constants, CeilingAssumption DEF TypeOK, TelemetryTyped, RunTyped, GhostsTyped
<1>2. IsFiniteSet(1 .. Horizon) /\ spent \subseteq 1 .. Horizon /\ IsFiniteSet(spent)
  <2>1. IsFiniteSet(1 .. Horizon)
    BY <1>1, FS_Interval
  <2>2. spent \subseteq 1 .. Horizon
    BY <1>1
  <2> QED BY <2>1, <2>2, FS_Subset
<1>3. /\ counted \subseteq DOMAIN ledger /\ IsFiniteSet(counted)
      /\ \A i \in counted : costs[i] \in Nat
  <2>1. DOMAIN ledger = 1 .. Len(ledger) /\ Len(ledger) \in Nat
    BY <1>1
  <2>2. IsFiniteSet(DOMAIN ledger)
    BY <2>1, FS_Interval
  <2>3. counted \subseteq DOMAIN ledger
    BY DEF Contributing
  <2>4. \A i \in DOMAIN ledger : ledger[i] \in Report
    BY <1>1
  <2>5. \A i \in DOMAIN ledger : costs[i] \in Nat
    BY <2>4 DEF Report
  <2> HIDE DEF counted, costs
  <2> QED BY <2>2, <2>3, <2>5, FS_Subset
<1> DEFINE inAll == SumFunctionOnSet(reported, 1 .. Horizon)
<1>4. /\ SumFunctionOnSet(reported, spent) \in Nat /\ inAll \in Nat
      /\ SumFunctionOnSet(reported, spent) <= inAll
  <2>1. \A t \in 1 .. Horizon : reported[t] \in Nat
    BY <1>1
  <2>2. \A t \in spent : reported[t] \in Nat /\ t \in 1 .. Horizon
    BY <1>2, <2>1
  <2> HIDE DEF spent
  <2>3. SumFunctionOnSet(reported, spent) \in Nat
    BY <1>2, <2>2, SumOneByOne
  <2>4. SumFunctionOnSet(reported, 1 .. Horizon) \in Nat
    BY <1>2, <2>1, SumOneByOne
  <2>5. \A t \in spent : IF t \in 1 .. Horizon THEN reported[t] <= reported[t]
                         ELSE reported[t] = 0
    BY <2>2
  <2>6. SumFunctionOnSet(reported, spent) <= SumFunctionOnSet(reported, 1 .. Horizon)
    BY <1>2, <2>1, <2>2, <2>5, SumIsLess
  <2> QED BY <2>3, <2>4, <2>6
<1>5. SumFunctionOnSet(costs, counted) \in Nat
  <2> HIDE DEF costs, counted
  <2> QED BY <1>3, SumOneByOne
<1>6. ASSUME \A t \in spent : reported[t] = 0
      PROVE  SumFunctionOnSet(reported, spent) <= SumFunctionOnSet(costs, counted)
  <2>1. SumFunctionOnSet(reported, spent) <= SumFunctionOnSet(costs, {})
    <3>1. IsFiniteSet({})
      BY FS_EmptySet
    <3>2. \A t \in spent : reported[t] \in Nat
      BY <1>6
    <3> HIDE DEF spent, costs
    <3> QED BY <1>2, <1>6, <3>1, <3>2, SumIsLess
  <2>2. SumFunctionOnSet(costs, {}) = 0
    BY FS_EmptySet, SumOneByOne
  <2> HIDE DEF spent, costs, counted
  <2> QED BY <1>4, <1>5, <2>1, <2>2
<1>7. CASE ledger = <<>>
  <2>1. \A t \in spent : reported[t] = 0
    BY <1>2, <1>7 DEF Counting, Reports
  <2> QED BY <1>4, <1>5, <1>6, <2>1 DEF SpentIn, WindowSpend
<1>8. CASE ledger # <<>>
  <2>1. /\ Len(ledger) \in DOMAIN ledger /\ LastReport \in Report
        /\ LastReport.at <= now /\ LastReport.at \in 1 .. Horizon
        /\ inAll <= LastReport.cost /\ LastReport.cost \in Nat
        /\ \A t \in 1 .. Horizon : t > LastReport.at => reported[t] = 0
    <3>1. Len(ledger) \in DOMAIN ledger
      BY <1>1, <1>8
    <3>2. LastReport \in Report
      BY <1>1, <3>1 DEF LastReport
    <3> QED BY <1>8, <3>1, <3>2 DEF Counting, Reports, Dated, LastReport, Report
  <2>2. CASE LastReport.at + Duration[w] >= now
    <3>1. Len(ledger) \in counted /\ costs[Len(ledger)] = LastReport.cost
      BY <2>1, <2>2 DEF Contributing, InWindow, LastReport
    <3>2. SumFunctionOnSet(costs, counted) =
            LastReport.cost + SumFunctionOnSet(costs, counted \ {Len(ledger)})
      <4> HIDE DEF costs, counted
      <4> QED BY <1>3, <3>1, SumTakesAny
    <3>3. SumFunctionOnSet(costs, counted \ {Len(ledger)}) \in Nat
      <4> HIDE DEF costs, counted
      <4>1. IsFiniteSet(counted \ {Len(ledger)})
        BY <1>3, FS_Subset
      <4> QED BY <1>3, <4>1, SumOneByOne
    <3>4. SumFunctionOnSet(reported, spent) <= SumFunctionOnSet(costs, counted)
      <4> HIDE DEF costs, counted, spent
      <4> QED BY <1>4, <2>1, <3>2, <3>3
    <3> QED BY <1>4, <1>5, <3>4 DEF SpentIn, WindowSpend
  <2>3. CASE ~(LastReport.at + Duration[w] >= now)
    <3>1. ASSUME NEW t \in spent PROVE reported[t] = 0
      <4>1. t \in 1 .. Horizon /\ t > LastReport.at
        BY <1>1, <2>1, <2>3
      <4> QED BY <2>1, <4>1
    <3> QED BY <1>4, <1>5, <1>6, <3>1 DEF SpentIn, WindowSpend
  <2> QED BY <2>2, <2>3
<1> QED BY <1>7, <1>8

LEMMA CountingAlways == Spec => [](TypeOK /\ Counting)
<1>1. Init => TypeOK /\ Counting
  BY TypeInitial, CountingInitial
<1>2. TypeOK /\ Counting /\ [Next]_vars => (TypeOK /\ Counting)'
  BY TypeStep, CountingStep
<1> QED BY <1>1, <1>2, PTL DEF Spec

(* For any windows, costs, crashes and resets: what was charged since the  *)
(* last reset of a window, and before a run last reported, counts against  *)
(* it, as long as no reset of the breaker wrote an older total back.       *)
THEOREM SpendIsCounted == Spec => []ReportedSpendIsCounted
<1>1. ASSUME TypeOK, Counting PROVE ReportedSpendIsCounted
  <2>1. ASSUME ~clobbered, NEW w \in Windows
        PROVE  SpentIn(w, reported)
                 <= WindowSpend(ledger, w, now, checkpoints[ConfigKeyByWindow[w]])
    <3>1. checkpoints[ConfigKeyByWindow[w]] = 0
      BY <1>1 DEF Counting, Keyed
    <3> QED BY <1>1, <2>1, <3>1, ReportCounts
  <2> QED BY <2>1 DEF ReportedSpendIsCounted
<1> QED BY <1>1, CountingAlways, PTL

(* A gate that does not block has counted less than the ceiling.           *)
LEMMA UnblockedIsBelow ==
  ASSUME TypeOK, Counting, ~clobbered, NEW w \in Windows, NEW cost \in Fraction,
         CeilingMode[w] = "block", Ceiling[w] > 0,
         ~Blocked(ledger, now, checkpoints, cost)
  PROVE  SpentIn(w, reported) < Ceiling[w]
<1> DEFINE counted == WindowSpend(ledger, w, now, 0)
<1>1. /\ SpentIn(w, reported) \in Nat /\ counted \in Nat
      /\ SpentIn(w, reported) <= counted
  BY ReportCounts
<1>2. cost.num \in Nat /\ cost.den \in Nat \ {0} /\ Ceiling[w] \in Nat
  BY CeilingAssumption DEF Fraction
<1>3. ~Exceeds(ledger, w, now, 0, cost)
  <2>1. checkpoints[ConfigKeyByWindow[w]] = 0
    BY DEF Counting, Keyed
  <2> QED BY <2>1 DEF Blocked
<1>4. CASE Contributing(ledger, w, now, 0) = {}
  <2>1. counted = 0
    <3>1. IsFiniteSet({})
      BY FS_EmptySet
    <3> QED BY <1>4, <3>1, SumOneByOne DEF WindowSpend
  <2> HIDE DEF counted
  <2> QED BY <1>1, <1>2, <2>1
<1>5. CASE Contributing(ledger, w, now, 0) # {}
  <2>1. ~(counted * cost.den + cost.num >= Ceiling[w] * cost.den)
    BY <1>3, <1>5 DEF Exceeds
  <2> DEFINE d == cost.den
             n == cost.num
             c == Ceiling[w]
  <2>2. counted * d + n < c * d /\ d \in Nat \ {0} /\ n \in Nat /\ c \in Nat
    BY <1>1, <1>2, <2>1
  <2> HIDE DEF counted, d, n, c
  <2>3. counted < c
    BY <1>1, <2>2
  <2> QED BY <1>1, <2>2, <2>3 DEF c
<1> QED BY <1>4, <1>5

(* For any ceilings, costs, crashes and resets: without a bypass, no       *)
(* attempt, and no retry, begins when what was reported, and charged since *)
(* the last reset of a window, reached its ceiling and that blocks.        *)
THEOREM CeilingsHoldAttempts == Spec => AttemptsBelowCeiling
<1> DEFINE Begins == at' = "attempt" /\ at # at' /\ ~options.ignore /\ ~clobbered
           Spared == \A w \in Windows : CeilingMode[w] = "block" /\ Ceiling[w] > 0 =>
                       SpentIn(w, reported) < Ceiling[w]
<1>1. ASSUME TypeOK, Counting, [Next]_vars, Begins PROVE Spared
  <2>1. StartMilestone \/ Retry
    BY <1>1 DEF Next, Step, vars, runVars, Idle, StartRun, Gate, PassOver, EndLoop, Move,
       LeaveIdle, Succeed, Fail, Record, Triage, RecordFailed, Evaluate, NoBreaker,
       Complete, Crash, Tick, BudgetReset, LoadForReset, SaveReset
  <2>2. PICK cost \in Fraction : ~Blocked(ledger, now, checkpoints, cost)
    <3>1. CASE StartMilestone
      <4>1. Remaining(mem.total) \in Fraction
        <5>1. current \in 1 .. options.to
          BY <3>1 DEF StartMilestone, Due
        <5>2. mem.total \in Nat /\ options.to \in Nat /\ Estimate \in Nat
          BY <1>1, Constants DEF TypeOK, RunTyped, Option, Names, StateTyped, State
        <5>3. options.to - current + 1 \in Nat \ {0}
          BY <5>1, <5>2
        <5> QED BY <5>2, <5>3 DEF Remaining, Fraction
      <4>2. ~Blocked(ledger, now, checkpoints, Remaining(mem.total))
        BY <1>1, <3>1 DEF StartMilestone, Gate, Authorized, LeaveIdle, Idle
      <4> QED BY <4>1, <4>2
    <3>2. CASE Retry
      <4>1. projected \in Fraction
        BY <1>1 DEF TypeOK, RunTyped
      <4>2. ~Blocked(ledger, now, checkpoints, projected)
        BY <1>1, <3>2 DEF Retry, Gate, Authorized, LeaveIdle, Idle
      <4> QED BY <4>1, <4>2
    <3> QED BY <2>1, <3>1, <3>2
  <2> QED BY <1>1, <2>2, UnblockedIsBelow
<1>2. TypeOK /\ Counting /\ [Next]_vars => [Begins => Spared]_vars
  BY <1>1
<1> QED BY <1>2, CountingAlways, PTL DEF Spec, AttemptsBelowCeiling
=============================================================================
