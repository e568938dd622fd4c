---------------------------- MODULE RecordsProofs ----------------------------
(***************************************************************************)
(* What the records of the runs promise, for any number of runs, any queue *)
(* and any number of commands, lost batches and lines that are cut in two. *)
(***************************************************************************)
EXTENDS Records, FiniteSetTheorems, TLAPS

-----------------------------------------------------------------------------
(* Induction                                                               *)

(* A set of naturals has a smallest element, and Min is it.                *)
LEMMA Smallest ==
  ASSUME NEW S \in SUBSET Nat, S # {}
  PROVE  Min(S) \in S /\ \A n \in S : Min(S) <= n
<1> DEFINE Less == {pair \in Nat \X Nat : pair[1] < pair[2]}
<1>1. IsWellFoundedOn(Less, Nat)
  BY NatLessThanWellFounded, Zenon DEF OpToRel
<1>2. \A m, n \in Nat : m < n => <<m, n>> \in Less
  OBVIOUS
<1> HIDE DEF Less
<1>3. PICK least \in S : \A n \in S : ~(<<n, least>> \in Less)
  BY <1>1, WFMin
<1>4. ASSUME NEW n \in S PROVE least <= n
  <2>1. ~(n < least)
    BY <1>3, <1>2
  <2> QED BY <2>1
<1> QED BY <1>4 DEF Min

(* What holds of 0, and of n + 1 when of n, holds of every natural number. *)
LEMMA ByInduction ==
  ASSUME NEW S, 0 \in S, \A n \in Nat : n \in S => n + 1 \in S
  PROVE  Nat \subseteq S
<1> DEFINE out == Nat \ S
<1> SUFFICES out = {}
  OBVIOUS
<1>1. SUFFICES ASSUME out # {} PROVE FALSE
  OBVIOUS
<1>2. Min(out) \in out /\ \A n \in out : Min(out) <= n
  <2>1. out \in SUBSET Nat
    OBVIOUS
  <2> HIDE DEF out
  <2> QED BY <1>1, <2>1, Smallest
<1>3. Min(out) - 1 \in Nat /\ Min(out) - 1 \notin out
  BY <1>2
<1> QED BY <1>2, <1>3

LEMMA Largest ==
  ASSUME NEW n \in Nat, NEW S, S \subseteq 0 .. n, S # {}
  PROVE  \E m \in S : \A k \in S : k <= m
<1> DEFINE below == {k \in Nat : k <= n /\ n - k \in S}
<1>1. below \in SUBSET Nat /\ below # {}
  <2>1. PICK m \in S : TRUE
    OBVIOUS
  <2>2. n - m \in below
    BY <2>1
  <2> QED BY <2>2
<1>2. Min(below) \in below /\ \A k \in below : Min(below) <= k
  <2> HIDE DEF below
  <2> QED BY <1>1, Smallest
<1> DEFINE least == Min(below)
<1>3. least \in Nat /\ least <= n /\ n - least \in S
  BY <1>2
<1>4. ASSUME NEW k \in S PROVE k <= n - least
  <2>1. n - k \in below
    OBVIOUS
  <2>2. least <= n - k
    BY <1>2, <2>1
  <2> HIDE DEF least
  <2> QED BY <1>3, <2>2
<1> HIDE DEF least
<1> QED BY <1>3, <1>4

-----------------------------------------------------------------------------
(* Folding a sequence                                                      *)

(* It is folded up to its last element, then that element is.              *)
LEMMA LastOfPart ==
  ASSUME NEW k \in Nat
  PROVE  Max(1 .. k + 1) = k + 1 /\ (1 .. k + 1) \ {k + 1} = 1 .. k /\ 1 .. 0 = {}
<1>1. Max(1 .. k + 1) = k + 1
  <2>1. k + 1 \in 1 .. k + 1 /\ \A y \in 1 .. k + 1 : k + 1 >= y
    OBVIOUS
  <2>2. \A x \in 1 .. k + 1 : (\A y \in 1 .. k + 1 : x >= y) => x = k + 1
    OBVIOUS
  <2> QED BY <2>1, <2>2 DEF Max
<1> QED BY <1>1

LEMMA MaxIsIn ==
  ASSUME NEW n \in Nat, NEW s \in SUBSET (1 .. n), s # {}
  PROVE  Max(s) \in s
<1>1. s \subseteq 0 .. n
  OBVIOUS
<1>2. PICK m \in s : \A k \in s : k <= m
  BY <1>1, Largest
<1>3. \A k \in s : m >= k
  BY <1>2
<1> QED BY <1>3 DEF Max

Folded(g, f, base, n) ==
  g = [s \in SUBSET (1 .. n) |->
         IF s = {} THEN base ELSE f[Max(s)][g[s \ {Max(s)}]]]

(* There is a function that folds every part of a sequence.                *)
LEMMA FoldExists ==
  ASSUME NEW A, NEW base \in A, NEW n \in Nat, NEW f \in [1 .. n -> [A -> A]]
  PROVE  \E g \in [SUBSET (1 .. n) -> A] : Folded(g, f, base, n)
<1> DEFINE Has(k) == \E g \in [SUBSET (1 .. k) -> A] : Folded(g, f, base, k)
           has == {k \in Nat : k <= n => Has(k)}
<1> HIDE DEF Has
<1>1. 0 \in has
  <2> DEFINE g == [s \in SUBSET (1 .. 0) |-> base]
  <2>1. \A s \in SUBSET (1 .. 0) : s = {}
    OBVIOUS
  <2>3. Folded(g, f, base, 0)
    BY <2>1 DEF Folded
  <2>4. g \in [SUBSET (1 .. 0) -> A]
    OBVIOUS
  <2> HIDE DEF g
  <2>5. Has(0)
    BY <2>3, <2>4 DEF Has
  <2> QED BY <2>5
<1>2. ASSUME NEW k \in Nat, k \in has PROVE k + 1 \in has
  <2>1. SUFFICES ASSUME k + 1 <= n PROVE Has(k + 1)
    OBVIOUS
  <2>2. Has(k)
    BY <1>2, <2>1
  <2>3. PICK g \in [SUBSET (1 .. k) -> A] : Folded(g, f, base, k)
    BY <2>2 DEF Has
  <2> DEFINE h == [s \in SUBSET (1 .. k + 1) |->
                     IF k + 1 \in s THEN f[k + 1][g[s \ {k + 1}]] ELSE g[s]]
  <2>4. ASSUME NEW s \in SUBSET (1 .. k + 1), k + 1 \in s
        PROVE  /\ Max(s) = k + 1 /\ s \ {k + 1} \in SUBSET (1 .. k) /\ s # {}
               /\ k + 1 \notin s \ {k + 1} /\ s \ {k + 1} \in SUBSET (1 .. k + 1)
    <3>1. \A y \in s : k + 1 >= y
      OBVIOUS
    <3>2. \A x \in s : (\A y \in s : x >= y) => x = k + 1
      BY <2>4, <3>1
    <3>3. Max(s) = k + 1
      BY <2>4, <3>1, <3>2 DEF Max
    <3> QED BY <2>4, <3>3
  <2>5. ASSUME NEW s \in SUBSET (1 .. k + 1), k + 1 \notin s
        PROVE  s \in SUBSET (1 .. k)
    BY <2>5
  <2>6. h \in [SUBSET (1 .. k + 1) -> A]
    <3>1. ASSUME NEW s \in SUBSET (1 .. k + 1), k + 1 \in s
          PROVE  f[k + 1][g[s \ {k + 1}]] \in A
      <4>1. g[s \ {k + 1}] \in A /\ k + 1 \in 1 .. n
        BY <2>1, <2>4, <3>1
      <4> QED BY <4>1
    <3>2. ASSUME NEW s \in SUBSET (1 .. k + 1), k + 1 \notin s
          PROVE  g[s] \in A
      BY <2>5, <3>2
    <3> QED BY <3>1, <3>2
  <2>7. ASSUME NEW s \in SUBSET (1 .. k + 1)
        PROVE  h[s] = IF s = {} THEN base ELSE f[Max(s)][h[s \ {Max(s)}]]
    <3>1. CASE k + 1 \in s
      <4>1. /\ Max(s) = k + 1 /\ s \ {k + 1} \in SUBSET (1 .. k) /\ s # {}
            /\ k + 1 \notin s \ {k + 1} /\ s \ {k + 1} \in SUBSET (1 .. k + 1)
        BY <2>4, <3>1
      <4>2. h[s] = f[k + 1][g[s \ {k + 1}]] /\ h[s \ {k + 1}] = g[s \ {k + 1}]
        BY <3>1, <4>1
      <4> HIDE DEF h
      <4> QED BY <4>1, <4>2
    <3>2. CASE k + 1 \notin s
      <4>1. s \in SUBSET (1 .. k)
        BY <2>5, <3>2
      <4>2. g[s] = IF s = {} THEN base ELSE f[Max(s)][g[s \ {Max(s)}]]
        BY <2>3, <4>1 DEF Folded
      <4>3. s \ {Max(s)} \in SUBSET (1 .. k + 1) /\ k + 1 \notin s \ {Max(s)}
        BY <3>2
      <4>4. h[s] = g[s] /\ h[s \ {Max(s)}] = g[s \ {Max(s)}]
        BY <3>2, <4>3
      <4> HIDE DEF h
      <4> QED BY <4>2, <4>4
    <3> QED BY <3>1, <3>2
  <2> HIDE DEF h
  <2>8. Folded(h, f, base, k + 1)
    BY <2>6, <2>7 DEF Folded
  <2> QED BY <2>6, <2>8 DEF Has
<1> HIDE DEF has
<1>3. n \in has
  BY <1>1, <1>2, ByInduction
<1>4. Has(n)
  BY <1>3 DEF has
<1> QED BY <1>4 DEF Has

(* What holds at first and is kept by every element holds at the end.      *)
LEMMA FoldReaches ==
  ASSUME NEW n \in Nat, NEW g, NEW Good,
         g[{}] \in Good[0],
         \A k \in 0 .. n - 1 : g[1 .. k] \in Good[k] => g[1 .. k + 1] \in Good[k + 1]
  PROVE  g[1 .. n] \in Good[n]
<1> DEFINE reached == {k \in Nat : k <= n => g[1 .. k] \in Good[k]}
<1>1. 0 \in reached
  BY LastOfPart
<1>2. ASSUME NEW k \in Nat, k \in reached PROVE k + 1 \in reached
  <2>1. SUFFICES ASSUME k + 1 <= n PROVE g[1 .. k + 1] \in Good[k + 1]
    OBVIOUS
  <2>2. k \in 0 .. n - 1 /\ g[1 .. k] \in Good[k]
    BY <1>2, <2>1
  <2> QED BY <2>2
<1> HIDE DEF reached
<1>3. n \in reached
  BY <1>1, <1>2, ByInduction
<1> QED BY <1>3 DEF reached

(* What a batch, a sync and a reader make of a sequence of events.         *)
LEMMA FoldOfBatch ==
  ASSUME NEW rows, NEW have, NEW taken \in Seq(Events),
         NEW A, [db |-> rows, known |-> have] \in A,
         \A s \in A : \A i \in 1 .. Len(taken) : WriteEvent(s, taken[i]) \in A,
         NEW Good, [db |-> rows, known |-> have] \in Good[0],
         \A k \in 0 .. Len(taken) - 1 : \A s \in Good[k] :
             WriteEvent(s, taken[k + 1]) \in Good[k + 1]
  PROVE  WriteAll(rows, have, taken) \in Good[Len(taken)]
<1> DEFINE base == [db |-> rows, known |-> have]
           n == Len(taken)
           Op(s, e) == WriteEvent(s, e)
           Runs(g) == g = [s \in SUBSET (1 .. n) |->
                             IF s = {} THEN base
                             ELSE Op(g[s \ {Max(s)}], taken[Max(s)])]
           file == CHOOSE g : Runs(g)
           f == [i \in 1 .. n |-> [s \in A |-> Op(s, taken[i])]]
<1>1. n \in Nat /\ DOMAIN taken = 1 .. n
  OBVIOUS
<1>2. WriteAll(rows, have, taken) = file[1 .. n]
  BY <1>1 DEF WriteAll, FoldLeft, MapThenFoldSet
<1>3. f \in [1 .. n -> [A -> A]]
  BY <1>1
<1>4. base \in A
  OBVIOUS
<1> HIDE DEF base, Op
<1>5. PICK g \in [SUBSET (1 .. n) -> A] : Folded(g, f, base, n)
  <2> HIDE DEF f, n
  <2> QED BY <1>4, <1>1, <1>3, FoldExists
<1>6. Runs(g)
  <2>1. ASSUME NEW s \in SUBSET (1 .. n)
        PROVE  g[s] = IF s = {} THEN base ELSE Op(g[s \ {Max(s)}], taken[Max(s)])
    <3>1. g[s] = IF s = {} THEN base ELSE f[Max(s)][g[s \ {Max(s)}]]
      <4> HIDE DEF f
      <4> QED BY <1>5 DEF Folded
    <3>2. s # {} => Max(s) \in 1 .. n
      BY <1>1, MaxIsIn
    <3>3. g[s \ {Max(s)}] \in A
      BY <1>5
    <3> QED BY <3>1, <3>2, <3>3
  <2>2. g = [s \in SUBSET (1 .. n) |-> g[s]]
    BY <1>5
  <2> HIDE DEF f
  <2> QED BY <2>1, <2>2
<1>7. Runs(file)
  <2> HIDE DEF Runs
  <2> QED BY <1>6
<1> HIDE DEF file
<1>8. file[{}] = base
  BY <1>7
<1>9. ASSUME NEW k \in 0 .. n - 1, file[1 .. k] \in Good[k]
      PROVE  file[1 .. k + 1] \in Good[k + 1]
  <2>1. 1 .. k + 1 \in SUBSET (1 .. n) /\ 1 .. k + 1 # {} /\ k \in Nat
    BY <1>1
  <2> DEFINE part == 1 .. k + 1
  <2>2. file[part] = Op(file[part \ {Max(part)}], taken[Max(part)])
    <3> HIDE DEF part
    <3> QED BY <1>7, <2>1 DEF part
  <2>3. file[1 .. k + 1] = Op(file[1 .. k], taken[k + 1])
    BY <2>1, <2>2, LastOfPart
  <2> QED BY <1>9, <2>3 DEF Op
<1> HIDE DEF n
<1>10. file[1 .. n] \in Good[n]
  BY <1>1, <1>8, <1>9, FoldReaches DEF base
<1> QED BY <1>2, <1>10 DEF n

NoneKnown == [r \in 0 .. MaxRuns |-> NoRows]

LEMMA FoldOfSync ==
  ASSUME NEW rows, NEW pick, NEW drop, NEW read \in Seq(Events),
         NEW A, [db |-> rows, at |-> NoneKnown] \in A,
         \A s \in A : \A i \in 1 .. Len(read) : File(s, read[i], pick, drop) \in A,
         NEW Good, [db |-> rows, at |-> NoneKnown] \in Good[0],
         \A k \in 0 .. Len(read) - 1 : \A s \in Good[k] :
             File(s, read[k + 1], pick, drop) \in Good[k + 1]
  PROVE  \E acc \in Good[Len(read)] : SyncAll(rows, read, pick, drop) = acc.db
<1> DEFINE base == [db |-> rows, at |-> NoneKnown]
           n == Len(read)
           Op(s, e) == File(s, e, pick, drop)
           Runs(g) == g = [s \in SUBSET (1 .. n) |->
                             IF s = {} THEN base
                             ELSE Op(g[s \ {Max(s)}], read[Max(s)])]
           file == CHOOSE g : Runs(g)
           f == [i \in 1 .. n |-> [s \in A |-> Op(s, read[i])]]
<1>1. n \in Nat /\ DOMAIN read = 1 .. n
  OBVIOUS
<1>2. SyncAll(rows, read, pick, drop) = file[1 .. n].db
  BY <1>1 DEF SyncAll, FoldLeft, MapThenFoldSet, NoneKnown
<1>3. f \in [1 .. n -> [A -> A]]
  BY <1>1
<1>4. base \in A
  OBVIOUS
<1> HIDE DEF base, Op
<1>5. PICK g \in [SUBSET (1 .. n) -> A] : Folded(g, f, base, n)
  <2> HIDE DEF f, n
  <2> QED BY <1>4, <1>1, <1>3, FoldExists
<1>6. Runs(g)
  <2>1. ASSUME NEW s \in SUBSET (1 .. n)
        PROVE  g[s] = IF s = {} THEN base ELSE Op(g[s \ {Max(s)}], read[Max(s)])
    <3>1. g[s] = IF s = {} THEN base ELSE f[Max(s)][g[s \ {Max(s)}]]
      <4> HIDE DEF f
      <4> QED BY <1>5 DEF Folded
    <3>2. s # {} => Max(s) \in 1 .. n
      BY <1>1, MaxIsIn
    <3>3. g[s \ {Max(s)}] \in A
      BY <1>5
    <3> QED BY <3>1, <3>2, <3>3
  <2>2. g = [s \in SUBSET (1 .. n) |-> g[s]]
    BY <1>5
  <2> HIDE DEF f
  <2> QED BY <2>1, <2>2
<1>7. Runs(file)
  <2> HIDE DEF Runs
  <2> QED BY <1>6
<1> HIDE DEF file
<1>8. file[{}] = base
  BY <1>7
<1>9. ASSUME NEW k \in 0 .. n - 1, file[1 .. k] \in Good[k]
      PROVE  file[1 .. k + 1] \in Good[k + 1]
  <2>1. 1 .. k + 1 \in SUBSET (1 .. n) /\ 1 .. k + 1 # {} /\ k \in Nat
    BY <1>1
  <2> DEFINE part == 1 .. k + 1
  <2>2. file[part] = Op(file[part \ {Max(part)}], read[Max(part)])
    <3> HIDE DEF part
    <3> QED BY <1>7, <2>1 DEF part
  <2>3. file[1 .. k + 1] = Op(file[1 .. k], read[k + 1])
    BY <2>1, <2>2, LastOfPart
  <2> QED BY <1>9, <2>3 DEF Op
<1> HIDE DEF n
<1>10. file[1 .. n] \in Good[n]
  BY <1>1, <1>8, <1>9, FoldReaches DEF base
<1> QED BY <1>2, <1>10 DEF n

(* What a reader is left with of the lines, one by one.                    *)
LEMMA FoldOfReading ==
  ASSUME NEW E, NEW file, file.lines \in Seq(E),
         NEW Good, <<>> \in Good[0],
         \A k \in 0 .. Len(file.lines) - 1 : \A q \in Good[k] :
             (IF file.lines[k + 1] = Garbage THEN q ELSE Append(q, file.lines[k + 1]))
                 \in Good[k + 1]
  PROVE  Readable(file) \in Good[Len(file.lines)]
<1> DEFINE base == <<>>
           n == Len(file.lines)
           A == Seq(E)
           Op(s, e) == IF e = Garbage THEN s ELSE Append(s, e)
           Runs(g) == g = [s \in SUBSET (1 .. n) |->
                             IF s = {} THEN base
                             ELSE Op(g[s \ {Max(s)}], file.lines[Max(s)])]
           read == CHOOSE g : Runs(g)
           f == [i \in 1 .. n |-> [s \in A |-> Op(s, file.lines[i])]]
<1>1. n \in Nat /\ DOMAIN file.lines = 1 .. n
  OBVIOUS
<1>2. Readable(file) = read[1 .. n]
  BY <1>1 DEF Readable, FoldLeft, MapThenFoldSet
<1>3. f \in [1 .. n -> [A -> A]]
  BY <1>1
<1>4. base \in A /\ base \in Good[0]
  OBVIOUS
<1>5. ASSUME NEW k \in 0 .. n - 1, NEW s \in Good[k]
      PROVE  Op(s, file.lines[k + 1]) \in Good[k + 1]
  OBVIOUS
<1> HIDE DEF base, Op, A
<1>7. PICK g \in [SUBSET (1 .. n) -> A] : Folded(g, f, base, n)
  <2> HIDE DEF f, n
  <2> QED BY <1>4, <1>1, <1>3, FoldExists
<1>8. Runs(g)
  <2>1. ASSUME NEW s \in SUBSET (1 .. n)
        PROVE  g[s] = IF s = {} THEN base ELSE Op(g[s \ {Max(s)}], file.lines[Max(s)])
    <3>1. g[s] = IF s = {} THEN base ELSE f[Max(s)][g[s \ {Max(s)}]]
      <4> HIDE DEF f
      <4> QED BY <1>7 DEF Folded
    <3>2. s # {} => Max(s) \in 1 .. n
      BY <1>1, MaxIsIn
    <3>3. g[s \ {Max(s)}] \in A
      BY <1>7
    <3> QED BY <3>1, <3>2, <3>3
  <2>2. g = [s \in SUBSET (1 .. n) |-> g[s]]
    BY <1>7
  <2> HIDE DEF f
  <2> QED BY <2>1, <2>2
<1>9. Runs(read)
  <2> HIDE DEF Runs
  <2> QED BY <1>8
<1> HIDE DEF read
<1>10. read[{}] = base
  BY <1>9
<1>11. ASSUME NEW k \in 0 .. n - 1, read[1 .. k] \in Good[k]
      PROVE  read[1 .. k + 1] \in Good[k + 1]
  <2>1. 1 .. k + 1 \in SUBSET (1 .. n) /\ 1 .. k + 1 # {} /\ k \in Nat
    BY <1>1
  <2> DEFINE part == 1 .. k + 1
  <2>2. read[part] = Op(read[part \ {Max(part)}], file.lines[Max(part)])
    <3> HIDE DEF part
    <3> QED BY <1>9, <2>1 DEF part
  <2>3. read[1 .. k + 1] = Op(read[1 .. k], file.lines[k + 1])
    BY <2>1, <2>2, LastOfPart
  <2> QED BY <1>11, <1>5, <2>3
<1> HIDE DEF n
<1>12. read[1 .. n] \in Good[n]
  BY <1>4, <1>1, <1>10, <1>11, FoldReaches
<1> QED BY <1>2, <1>12 DEF n

LEMMA FoldOfLines ==
  ASSUME NEW E, NEW file, file.lines \in Seq(E)
  PROVE  Readable(file) \in Seq(E)
<1> DEFINE n == Len(file.lines)
           Good == [k \in 0 .. n |-> Seq(E)]
<1>1. n \in Nat /\ \A i \in 1 .. n : file.lines[i] \in E
  OBVIOUS
<1>2. <<>> \in Good[0] /\ Good[n] = Seq(E)
  BY <1>1
<1>3. ASSUME NEW k \in 0 .. n - 1, NEW q \in Good[k]
      PROVE  (IF file.lines[k + 1] = Garbage THEN q ELSE Append(q, file.lines[k + 1]))
               \in Good[k + 1]
  <2>1. k \in 0 .. n /\ k + 1 \in 0 .. n /\ k + 1 \in 1 .. n
    BY <1>1
  <2>2. q \in Seq(E) /\ Good[k + 1] = Seq(E) /\ file.lines[k + 1] \in E
    BY <1>1, <1>3, <2>1
  <2> HIDE DEF Good
  <2> QED BY <2>2
<1>4. Readable(file) \in Good[n]
  <2> HIDE DEF Good
  <2> QED BY <1>2, <1>3, FoldOfReading DEF n
<1> QED BY <1>2, <1>4

-----------------------------------------------------------------------------
(* The script of a run                                                     *)

LEMMA WithTrail ==
  ASSUME setup.audit
  PROVE  /\ Len(Script) = 11 /\ DOMAIN Script = 1 .. 11
         /\ Script[1].does = "emit" /\ Script[2].does = "load"
         /\ Script[3].does = "audit" /\ Script[4].does = "emit"
         /\ Script[5].does = "audit" /\ Script[6].does = "emit"
         /\ Script[7].does = "emit" /\ Script[8].does = "audit"
         /\ Script[9].does = "emit" /\ Script[10].does = "emit"
         /\ Script[11].does = "audit"
  BY DEF Script, Emits, Loads, Audits

LEMMA WithoutTrail ==
  ASSUME ~setup.audit
  PROVE  /\ Len(Script) = 6 /\ DOMAIN Script = 1 .. 6
         /\ \A i \in 1 .. 6 : Script[i].does = "emit"
  BY DEF Script, Emits

LEMMA TheScript ==
  ASSUME setup \in Setups
  PROVE  /\ Len(Script) \in Nat /\ DOMAIN Script = 1 .. Len(Script)
         /\ Len(Script) = IF setup.audit THEN 11 ELSE 6
         /\ \A i \in DOMAIN Script :
              /\ Script[i].does = "load" => setup.audit /\ i = 2
              /\ Script[i].does = "audit" => setup.audit /\ i > 2
              /\ Script[i].does = "emit" => ~(setup.audit /\ i = 2)
<1>1. CASE setup.audit
  <2>1. ASSUME NEW i \in 1 .. 11
        PROVE  \/ i = 1 \/ i = 2 \/ i = 3 \/ i = 4 \/ i = 5 \/ i = 6 \/ i = 7
               \/ i = 8 \/ i = 9 \/ i = 10 \/ i = 11
    OBVIOUS
  <2>2. ASSUME NEW i \in 1 .. 11, Script[i].does = "load" PROVE i = 2
    BY <1>1, <2>1, <2>2, WithTrail
  <2>3. ASSUME NEW i \in 1 .. 11, Script[i].does = "audit" PROVE i > 2
    BY <1>1, <2>1, <2>3, WithTrail
  <2>4. Script[2].does # "emit" /\ Len(Script) = 11 /\ DOMAIN Script = 1 .. 11
    BY <1>1, WithTrail
  <2> QED BY <1>1, <2>2, <2>3, <2>4
<1>2. CASE ~setup.audit
  <2>1. Len(Script) = 6 /\ DOMAIN Script = 1 .. 6
    BY <1>2, WithoutTrail
  <2>2. ASSUME NEW i \in 1 .. 6 PROVE Script[i].does = "emit"
    BY <1>2, WithoutTrail
  <2> QED BY <1>2, <2>1, <2>2
<1> QED BY <1>1, <1>2

-----------------------------------------------------------------------------
(* The audit trail                                                         *)

(* Up to its first mishap the trail is a chain, nothing in it is cut in    *)
(* two, and a run or a command that has loaded it goes on from its end.    *)
Sound == IF broken = Unbroken THEN Len(audit.lines) ELSE broken

Chained ==
  /\ audit \in Files(Int) /\ broken \in Int /\ setup \in Setups /\ step \in Nat
  /\ Sound \in 0 .. Len(audit.lines)
  /\ \A i \in 1 .. Sound : audit.lines[i] = i - 1

Loaded ==
  broken = Unbroken =>
    /\ ~audit.torn
    /\ setup.audit /\ RunLoaded => trail = Len(audit.lines)
    /\ \A c \in CommandsLoaded : loaded[c] = Len(audit.lines)

Chain == Chained /\ Loaded

Trails == trail \in Int /\ loaded \in [Commands -> Int]

LEMMA LoadsTheEnd ==
  ASSUME Chained, broken = Unbroken
  PROVE  LoadLast(audit) = Len(audit.lines)
<1> DEFINE legible == {i \in DOMAIN audit.lines : audit.lines[i] /= Illegible}
<1>1. audit.lines \in Seq(Int) /\ Sound = Len(audit.lines)
  BY DEF Chained, Sound, Files
<1>2. legible = 1 .. Len(audit.lines)
  <2>1. \A i \in 1 .. Len(audit.lines) : audit.lines[i] /= Illegible
    BY <1>1 DEF Chained, Illegible
  <2> QED BY <1>1, <2>1
<1>3. LoadLast(audit) = IF legible = {} THEN NoHash
                        ELSE CHOOSE i \in legible : \A j \in legible : j <= i
  BY DEF LoadLast
<1>4. CASE Len(audit.lines) = 0
  BY <1>1, <1>2, <1>3, <1>4 DEF NoHash
<1>5. CASE Len(audit.lines) # 0
  <2>1. Len(audit.lines) \in legible /\ \A j \in legible : j <= Len(audit.lines)
    BY <1>1, <1>2, <1>5
  <2>2. \A i \in legible : (\A j \in legible : j <= i) => i = Len(audit.lines)
    BY <1>1, <1>2, <2>1
  <2> HIDE DEF legible
  <2> QED BY <1>3, <2>1, <2>2
<1> QED BY <1>4, <1>5

LEMMA LastIsANumber == Chained => LoadLast(audit) \in Int
<1> SUFFICES ASSUME Chained PROVE LoadLast(audit) \in Int
  OBVIOUS
<1> DEFINE legible == {i \in DOMAIN audit.lines : audit.lines[i] /= Illegible}
<1>1. audit.lines \in Seq(Int) /\ Len(audit.lines) \in Nat
  BY DEF Chained, Files
<1>2. CASE legible = {}
  BY <1>2 DEF LoadLast, NoHash
<1>3. CASE legible # {}
  <2>1. legible \subseteq 0 .. Len(audit.lines) /\ legible \subseteq Int
    BY <1>1
  <2>2. LoadLast(audit) = CHOOSE k \in legible : \A j \in legible : j <= k
    BY <1>3 DEF LoadLast
  <2> HIDE DEF legible
  <2>3. PICK i \in legible : \A j \in legible : j <= i
    BY <1>1, <1>3, <2>1, Largest
  <2> QED BY <2>1, <2>2, <2>3
<1> QED BY <1>2, <1>3

(* What is appended leaves what was there.                                 *)
LEMMA Appended ==
  ASSUME NEW S, NEW file \in Files(S), NEW line \in S
  PROVE  /\ Line(file, line) \in Files(S)
         /\ file.torn => Line(file, line).lines = file.lines /\ ~Line(file, line).torn
         /\ ~file.torn => /\ Line(file, line).lines = Append(file.lines, line)
                          /\ ~Line(file, line).torn
<1>1. CASE file.torn
  BY <1>1 DEF Line, Files
<1>2. CASE ~file.torn
  <2>1. Append(file.lines, line) \in Seq(S) /\ file.torn = FALSE
    BY <1>2 DEF Files
  <2> QED BY <1>2, <2>1 DEF Line, Files
<1> QED BY <1>1, <1>2

LEMMA ChainInitial == Init => Chain
  BY DEF Init, Chain, Chained, Loaded, Sound, Files, Unbroken, Loading, RunLoaded,
     CommandsLoaded

(* An entry that goes on from the end is sound, and a mishap that it is,   *)
(* or that comes first, leaves what was sound.                             *)
LEMMA EntryKeeps ==
  ASSUME Chain, NEW line \in Int, audit' = Line(audit, line),
         broken = Unbroken => line = Len(audit.lines),
         \/ broken' = broken
         \/ broken' = IF broken = Unbroken THEN Len(audit.lines) + 1 ELSE broken,
         step' \in Nat, setup' = setup
  PROVE  /\ Chained'
         /\ broken = Unbroken => ~audit'.torn /\ Len(audit'.lines) = Len(audit.lines) + 1
<1>1. /\ audit.lines \in Seq(Int) /\ audit.torn \in BOOLEAN /\ Len(audit.lines) \in Nat
      /\ audit \in Files(Int) /\ setup \in Setups /\ broken \in Int
  BY DEF Chain, Chained, Files
<1>2. /\ audit' \in Files(Int)
      /\ audit.torn => audit'.lines = audit.lines /\ ~audit'.torn
      /\ ~audit.torn => audit'.lines = Append(audit.lines, line) /\ ~audit'.torn
  BY <1>1, Appended
<1>3. CASE broken = Unbroken
  <2>1. ~audit.torn /\ line = Len(audit.lines) /\ Sound = Len(audit.lines)
    BY <1>3 DEF Chain, Loaded, Sound
  <2>2. audit'.lines = Append(audit.lines, Len(audit.lines)) /\ ~audit'.torn
    BY <1>2, <2>1
  <2>3. Len(audit'.lines) = Len(audit.lines) + 1 /\ Sound' = Len(audit.lines) + 1
    <3>1. Len(audit'.lines) = Len(audit.lines) + 1
      BY <1>1, <2>2
    <3>2. broken' = Unbroken \/ broken' = Len(audit.lines) + 1
      BY <1>3
    <3> QED BY <3>1, <3>2 DEF Sound
  <2>4. \A i \in 1 .. Len(audit.lines) + 1 : audit'.lines[i] = i - 1
    <3>1. \A i \in 1 .. Len(audit.lines) : audit.lines[i] = i - 1
      BY <2>1 DEF Chain, Chained
    <3> QED BY <1>1, <2>2, <3>1
  <2>5. broken' \in Int
    BY <1>1
  <2>6. Sound' \in 0 .. Len(audit'.lines) /\ \A i \in 1 .. Sound' : audit'.lines[i] = i - 1
    BY <1>1, <2>3, <2>4
  <2>7. setup' \in Setups /\ step' \in Nat
    BY <1>1
  <2> QED BY <1>2, <2>2, <2>3, <2>5, <2>6, <2>7 DEF Chained
<1>4. CASE broken # Unbroken
  <2>1. /\ broken' = broken /\ Sound = broken /\ Sound' = broken
        /\ Sound \in 0 .. Len(audit.lines)
    BY <1>4 DEF Sound, Chain, Chained
  <2>2. /\ Len(audit'.lines) >= Len(audit.lines) /\ Len(audit'.lines) \in Nat
        /\ \A i \in 1 .. Len(audit.lines) : audit'.lines[i] = audit.lines[i]
    <3>1. CASE audit.torn
      BY <1>1, <1>2, <3>1
    <3>2. CASE ~audit.torn
      <4>1. audit'.lines = Append(audit.lines, line)
        BY <1>2, <3>2
      <4> QED BY <1>1, <4>1
    <3> QED BY <1>1, <3>1, <3>2
  <2> QED BY <1>1, <1>2, <1>4, <2>1, <2>2 DEF Chain, Chained
<1> QED BY <1>3, <1>4

(* Half a line is a mishap.                                                *)
LEMMA TearKeeps ==
  ASSUME Chain, audit' = Tear(audit, Illegible), BreakAfter(Len(audit.lines)),
         step' \in Nat, setup' = setup
  PROVE  Chain'
<1>1. /\ audit.lines \in Seq(Int) /\ audit.torn \in BOOLEAN /\ Len(audit.lines) \in Nat
      /\ audit \in Files(Int) /\ setup \in Setups /\ broken \in Int
  BY DEF Chain, Chained, Files
<1>2. broken' = IF broken = Unbroken THEN Len(audit.lines) ELSE broken
  BY DEF BreakAfter
<1>3. /\ audit' \in Files(Int) /\ Len(audit'.lines) >= Len(audit.lines)
      /\ \A i \in 1 .. Len(audit.lines) : audit'.lines[i] = audit.lines[i]
  <2>1. CASE audit.torn
    BY <1>1, <2>1 DEF Tear
  <2>2. CASE ~audit.torn
    <3>1. audit' = [lines |-> Append(audit.lines, Illegible), torn |-> TRUE]
      BY <2>2 DEF Tear
    <3>2. audit'.lines = Append(audit.lines, Illegible) /\ Illegible \in Int
      BY <3>1 DEF Illegible
    <3>3. audit' \in Files(Int)
      BY <1>1, <3>1, <3>2 DEF Files
    <3> QED BY <1>1, <3>2, <3>3
  <2> QED BY <2>1, <2>2
<1>4. broken' # Unbroken /\ broken' = Sound /\ Sound' = Sound
  BY <1>1, <1>2 DEF Sound, Unbroken, Chain, Chained
<1>5. Len(audit'.lines) \in Nat
  BY <1>3 DEF Files
<1>6. Sound' \in 0 .. Len(audit'.lines) /\ \A i \in 1 .. Sound' : audit'.lines[i] = i - 1
  BY <1>1, <1>3, <1>4, <1>5 DEF Chain, Chained
<1> QED BY <1>1, <1>2, <1>3, <1>4, <1>6 DEF Chain, Chained, Loaded

LEMMA ChainStep == Chain /\ Trails /\ [Next]_vars => Chain'
<1> SUFFICES ASSUME Chain, Trails, [Next]_vars PROVE Chain'
  OBVIOUS
<1>1. /\ audit.lines \in Seq(Int) /\ audit.torn \in BOOLEAN /\ Len(audit.lines) \in Nat
      /\ audit \in Files(Int) /\ step \in Nat /\ setup \in Setups /\ broken \in Int
      /\ trail \in Int /\ loaded \in [Commands -> Int]
  BY DEF Chain, Chained, Files, Trails
<1>2. /\ Len(Script) \in Nat /\ DOMAIN Script = 1 .. Len(Script) /\ Closing = Len(Script) + 1
      /\ \A i \in DOMAIN Script :
           /\ Script[i].does = "load" => setup.audit /\ i = 2
           /\ Script[i].does = "audit" => setup.audit /\ i > 2
           /\ Script[i].does = "emit" => ~(setup.audit /\ i = 2)
  BY <1>1, TheScript DEF Closing
<1>3. ASSUME UNCHANGED setup PROVE Closing' = Closing
  BY <1>3 DEF Closing, Script
<1>4. ASSUME UNCHANGED loaded PROVE CommandsLoaded' = CommandsLoaded
  BY <1>4 DEF CommandsLoaded
<1>5. ASSUME UNCHANGED <<audit, broken, setup, trail, loaded>>, step' \in Nat,
             setup.audit /\ RunLoaded' => RunLoaded
      PROVE  Chain'
  <2>1. Chained'
    BY <1>1, <1>5 DEF Chain, Chained, Sound
  <2>2. Loaded'
    BY <1>4, <1>5 DEF Chain, Loaded
  <2> QED BY <2>1, <2>2 DEF Chain
<1>6. CASE Start
  BY <1>5, <1>6 DEF Start, Loading, auditVars, RunLoaded
<1>7. CASE Emit
  <2>1. step' = step + 1 /\ ~(setup.audit /\ step = 2) /\ step \in DOMAIN Script
        /\ UNCHANGED <<audit, broken, setup, trail, loaded>>
    BY <1>2, <1>7 DEF Emit, Does, auditVars
  <2>2. setup.audit /\ RunLoaded' => RunLoaded
    BY <1>1, <1>2, <2>1, <1>3 DEF RunLoaded, Loading
  <2> QED BY <1>1, <1>5, <2>1, <2>2
<1>8. CASE Load
  <2>1. /\ trail' = LoadLast(audit) /\ step' \in Nat
        /\ UNCHANGED <<audit, broken, setup, loaded>>
    BY <1>1, <1>8 DEF Load
  <2>2. Loaded'
    BY <1>4, <2>1, LoadsTheEnd DEF Chain, Loaded
  <2> QED BY <1>1, <2>1, <2>2 DEF Chain, Chained, Sound
<1>9. CASE AppendEntry
  <2>1. /\ step > 2 /\ step \in 1 .. Len(Script) /\ setup.audit
        /\ audit' = Line(audit, trail) /\ step' = step + 1
        /\ trail' = IF audit.torn THEN Lost ELSE Len(audit.lines) + 1
        /\ UNCHANGED <<setup, loaded>>
        /\ IF CommandsLoaded # {} THEN BreakAfter(Len(audit.lines) + 1)
           ELSE UNCHANGED broken
    BY <1>2, <1>9 DEF AppendEntry, Does
  <2>2. broken = Unbroken => trail = Len(audit.lines)
    BY <1>2, <2>1 DEF Chain, Loaded, RunLoaded, Loading
  <2>3. step' \in Nat
    BY <1>1, <2>1
  <2>4. /\ Chained'
        /\ broken = Unbroken => ~audit'.torn /\ Len(audit'.lines) = Len(audit.lines) + 1
    BY <1>1, <2>1, <2>2, <2>3, EntryKeeps DEF BreakAfter
  <2>5. ASSUME broken' = Unbroken
        PROVE  /\ ~audit'.torn /\ trail' = Len(audit'.lines) /\ CommandsLoaded' = {}
    <3>1. broken = Unbroken /\ CommandsLoaded = {}
      BY <1>1, <2>1, <2>5 DEF BreakAfter, Unbroken
    <3>2. ~audit.torn
      BY <3>1 DEF Chain, Loaded
    <3> QED BY <1>4, <2>1, <2>4, <3>1, <3>2
  <2> QED BY <2>4, <2>5 DEF Chain, Loaded
<1>10. ASSUME NEW c \in Commands, AuditLoad(c) PROVE Chain'
  <2>1. /\ loaded' = [loaded EXCEPT ![c] = LoadLast(audit)]
        /\ UNCHANGED <<audit, broken, setup, trail, step>>
    BY <1>10 DEF AuditLoad, runVars
  <2>2. broken = Unbroken => \A d \in CommandsLoaded' : loaded'[d] = Len(audit.lines)
    BY <1>1, <2>1, LoadsTheEnd DEF Chain, Loaded, CommandsLoaded
  <2>3. RunLoaded' = RunLoaded
    BY <1>3, <2>1 DEF RunLoaded
  <2>4. Loaded'
    BY <2>1, <2>2, <2>3 DEF Chain, Loaded
  <2> QED BY <1>1, <2>1, <2>4 DEF Chain, Chained, Sound
<1>11. ASSUME NEW c \in Commands, AuditAppend(c) PROVE Chain'
  <2>1. /\ c \in CommandsLoaded /\ audit' = Line(audit, loaded[c])
        /\ loaded' = [loaded EXCEPT ![c] = Unloaded]
        /\ IF RunLoaded \/ CommandsLoaded # {c} THEN BreakAfter(Len(audit.lines) + 1)
           ELSE UNCHANGED broken
        /\ UNCHANGED <<setup, trail, step>>
    BY <1>11 DEF AuditAppend, runVars, CommandsLoaded
  <2>2. loaded[c] \in Int /\ (broken = Unbroken => loaded[c] = Len(audit.lines))
    BY <1>1, <2>1 DEF Chain, Loaded
  <2>3. /\ Chained'
        /\ broken = Unbroken => ~audit'.torn /\ Len(audit'.lines) = Len(audit.lines) + 1
    BY <1>1, <2>1, <2>2, EntryKeeps DEF BreakAfter
  <2>4. ASSUME broken' = Unbroken
        PROVE  ~audit'.torn /\ ~RunLoaded' /\ CommandsLoaded' = {}
    <3>1. broken = Unbroken /\ CommandsLoaded = {c} /\ ~RunLoaded
      BY <1>1, <2>1, <2>4 DEF BreakAfter, Unbroken
    <3>2. RunLoaded' = RunLoaded
      BY <1>3, <2>1 DEF RunLoaded
    <3>3. CommandsLoaded' = {}
      BY <1>1, <2>1, <3>1 DEF CommandsLoaded
    <3> QED BY <2>3, <3>1, <3>2, <3>3
  <2> QED BY <2>3, <2>4 DEF Chain, Loaded
<1>12. ASSUME NEW c \in Commands, AuditTear(c) PROVE Chain'
  BY <1>1, <1>12, TearKeeps DEF AuditTear, runVars
<1>13. CASE CrashInLine
  <2>1. step' = 0 /\ UNCHANGED <<setup, loaded>>
    BY <1>13 DEF CrashInLine, Exit
  <2>2. CASE UNCHANGED <<audit, broken>>
    <3>1. ~RunLoaded'
      BY <2>1 DEF RunLoaded, Loading
    <3>2. Loaded'
      BY <1>4, <2>1, <2>2, <3>1 DEF Chain, Loaded
    <3> QED BY <1>1, <2>1, <2>2, <3>2 DEF Chain, Chained, Sound
  <2>3. CASE audit' = Tear(audit, Illegible) /\ BreakAfter(Len(audit.lines))
    BY <2>1, <2>3, TearKeeps
  <2> QED BY <1>13, <2>2, <2>3 DEF CrashInLine
<1>14. CASE Close \/ Crash
  <2>1. step' = 0 /\ UNCHANGED <<audit, broken, setup, loaded>>
    BY <1>14 DEF Close, Crash, Exit
  <2>2. ~RunLoaded'
    BY <2>1 DEF RunLoaded, Loading
  <2>3. Loaded'
    BY <1>4, <2>1, <2>2 DEF Chain, Loaded
  <2> QED BY <1>1, <2>1, <2>3 DEF Chain, Chained, Sound
<1>15. ASSUME UNCHANGED <<audit, broken, setup, trail, loaded, step>> PROVE Chain'
  BY <1>1, <1>3, <1>5, <1>15 DEF RunLoaded
<1> QED
  BY <1>6, <1>7, <1>8, <1>9, <1>10, <1>11, <1>12, <1>13, <1>14, <1>15
  DEF Next, Command, vars, auditVars, runVars, TakeBatch, CommitBatch, LoseBatch,
      LintSpec, SyncRead, SyncFile, SyncCommit, SyncFails

(* An audit finds intact all that is.                                      *)
LEMMA VerifiesTheChain == Chained => Verified(audit) >= Sound
<1> SUFFICES ASSUME Chained PROVE Verified(audit) >= Sound
  OBVIOUS
<1> DEFINE lines == audit.lines
           Intact(n) == /\ \A i \in 1 .. n : lines[i] = i - 1
                        /\ n < Len(lines) => lines[n + 1] /= n
           found == CHOOSE n \in 0 .. Len(lines) : Intact(n)
           ends == {n \in 0 .. Len(lines) : n < Len(lines) => lines[n + 1] /= n}
<1>1. lines \in Seq(Int) /\ Len(lines) \in Nat
  BY DEF Chained, Files
<1>2. Min(ends) \in ends /\ \A n \in ends : Min(ends) <= n
  <2>1. ends \in SUBSET Nat /\ Len(lines) \in ends
    BY <1>1
  <2> HIDE DEF ends
  <2> QED BY <2>1, Smallest
<1> DEFINE end == Min(ends)
<1>3. end \in 0 .. Len(lines) /\ (end < Len(lines) => lines[end + 1] /= end)
  BY <1>2
<1>4. ASSUME NEW i \in 1 .. end PROVE lines[i] = i - 1
  <2>1. ~(end <= i - 1)
    BY <1>3
  <2>2. i - 1 \notin ends
    <3> HIDE DEF ends
    <3> QED BY <1>2, <2>1
  <2>3. i - 1 \in 0 .. Len(lines) /\ i - 1 < Len(lines) /\ i - 1 + 1 = i
    BY <1>1, <1>3
  <2> HIDE DEF end
  <2> QED BY <2>2, <2>3
<1>5. \E n \in 0 .. Len(lines) : Intact(n)
  <2> HIDE DEF end
  <2> QED BY <1>3, <1>4
<1>6. found \in 0 .. Len(lines) /\ Intact(found)
  <2> HIDE DEF Intact
  <2> QED BY <1>5
<1>7. Verified(audit) = found
  BY DEF Verified
<1> HIDE DEF found
<1>8. Sound \in 0 .. Len(lines) /\ \A i \in 1 .. Sound : lines[i] = i - 1
  BY DEF Chained
<1>9. found < Sound => FALSE
  BY <1>1, <1>6, <1>8
<1> QED BY <1>6, <1>7, <1>8, <1>9

LEMMA TrailTyped == Trails /\ Chain /\ [Next]_vars => Trails'
<1> SUFFICES ASSUME Trails, Chain, [Next]_vars PROVE Trails'
  OBVIOUS
<1>1. audit.lines \in Seq(Int) /\ trail \in Int /\ loaded \in [Commands -> Int]
  BY DEF Chain, Chained, Files, Trails
<1>2. CASE Load
  BY <1>1, <1>2, LastIsANumber DEF Load, Chain, Trails
<1>3. CASE AppendEntry
  BY <1>1, <1>3 DEF AppendEntry, Lost, Trails
<1>4. ASSUME NEW c \in Commands, AuditLoad(c) PROVE Trails'
  <2>1. LoadLast(audit) \in Int
    BY LastIsANumber DEF Chain
  <2>2. loaded' = [loaded EXCEPT ![c] = LoadLast(audit)] /\ trail' = trail
    BY <1>4 DEF AuditLoad
  <2> QED BY <1>1, <2>1, <2>2 DEF Trails
<1>5. ASSUME NEW c \in Commands, AuditAppend(c) \/ AuditTear(c) PROVE Trails'
  BY <1>1, <1>5 DEF AuditAppend, AuditTear, Unloaded, Trails
<1>6. CASE Close \/ Crash \/ CrashInLine
  BY <1>1, <1>6 DEF Close, Crash, CrashInLine, Exit, NoHash, Trails
<1>7. ASSUME UNCHANGED <<trail, loaded>> PROVE Trails'
  BY <1>1, <1>7 DEF Trails
<1> QED
  BY <1>2, <1>3, <1>4, <1>5, <1>6, <1>7
  DEF Next, Command, vars, auditVars, Start, Emit, TakeBatch, CommitBatch, LoseBatch,
      LintSpec, SyncRead, SyncFile, SyncCommit, SyncFails

(* For any number of runs, crashes in the middle of a line and commands    *)
(* beside a run or one another: what was written to the trail before the   *)
(* first of these that breaks it is verified for ever.                     *)
THEOREM AuditsVerify == Spec => []AuditVerifies
<1>1. Init => Chain /\ Trails
  BY ChainInitial DEF Init, NoHash, Unloaded, Trails
<1>2. Chain /\ Trails /\ [Next]_vars => (Chain /\ Trails)'
  BY ChainStep, TrailTyped
<1>3. Chain => AuditVerifies
  BY VerifiesTheChain DEF Chain, Sound, AuditVerifies
<1> QED BY <1>1, <1>2, <1>3, PTL DEF Spec

-----------------------------------------------------------------------------
(* Rows                                                                    *)

Filing == [db : Tables, known : Known]
Statuses == {"running", "done", "standalone"}
Ids(rows) == {x.id : x \in rows}

(* The rows have ids of their own, and belong to rows that are there.      *)
Tabled(d) ==
  /\ d \in Tables
  /\ \A x \in d.runs \cup d.milestones : x.id < d.next
  /\ \A x, y \in d.runs : x.id = y.id => x = y
  /\ \A x, y \in d.milestones : x.id = y.id => x = y
  /\ \A x \in d.milestones \cup d.events : x.of \in Ids(d.runs)
  /\ \A x \in d.phases : x.of \in Ids(d.milestones)

(* Who files the events of a run knows rows of that run, or none.          *)
Knows(d, k, r) ==
  /\ k \in Known
  /\ k.run # NoRow => \E x \in d.runs : x.id = k.run /\ x.run = r
  /\ k.milestone # NoRow => k.milestone \in Ids(d.milestones)

(* OneRowPerRun, of any tables and any set of exceptions.                  *)
Once(d, S) ==
  /\ \A x, y \in d.runs : x.run = y.run /\ x # y => x.run \in S
  /\ \A x, y \in d.milestones : x.of = y.of /\ x # y =>
       \E row \in d.runs : row.id = x.of /\ row.run \in S

Absent(d, r) == \A x \in d.runs : x.run # r
Quiet(d, r) == \A m \in d.milestones : \A x \in d.runs : x.id = m.of => x.run # r

Filed(s, r) == s \in Filing /\ Tabled(s.db) /\ Knows(s.db, s.known, r)

(* What is filed of the runs in R leaves the rows of the others alone.     *)
Grows(d, e, R) ==
  /\ \A y \in d.runs : \E x \in e.runs : x.id = y.id /\ x.run = y.run
  /\ \A x \in e.runs :
       (\E y \in d.runs : y.id = x.id /\ y.run = x.run) \/ x.run \in R
  /\ \A l \in d.milestones : \E m \in e.milestones : m.id = l.id /\ m.of = l.of
  /\ \A m \in e.milestones :
       \/ \E l \in d.milestones : l.id = m.id /\ l.of = m.of
       \/ \E x \in e.runs : x.id = m.of /\ x.run \in R

(* What is new has an id that was never used before.                       *)
Fresh(d, e) ==
  /\ d.next <= e.next
  /\ \A x \in e.runs : x.id < d.next => \E y \in d.runs : y.id = x.id /\ y.run = x.run
  /\ \A m \in e.milestones :
       m.id < d.next => \E l \in d.milestones : l.id = m.id /\ l.of = m.of

LEMMA Parts ==
  ASSUME NEW s \in Filing
  PROVE  /\ s.db \in Tables /\ s.known \in Known
         /\ s.db.next \in Nat \ {0} /\ s.db.runs \in SUBSET RunRows
         /\ s.db.milestones \in SUBSET PartRows /\ s.db.phases \in SUBSET PartRows
         /\ s.db.events \in SUBSET EventRows
         /\ s.known.run \in Nat /\ s.known.milestone \in Nat /\ s.known.phase \in Nat
  BY DEF Filing, Tables, Known

LEMMA GrowsOn ==
  ASSUME NEW d, NEW e, NEW f, NEW R, Grows(d, e, R), Grows(e, f, R)
  PROVE  Grows(d, f, R)
<1>1. \A y \in d.runs : \E x \in f.runs : x.id = y.id /\ x.run = y.run
  BY DEF Grows
<1>2. ASSUME NEW x \in f.runs
      PROVE  (\E y \in d.runs : y.id = x.id /\ y.run = x.run) \/ x.run \in R
  BY DEF Grows
<1>3. \A l \in d.milestones : \E m \in f.milestones : m.id = l.id /\ m.of = l.of
  BY DEF Grows
<1>4. ASSUME NEW m \in f.milestones
      PROVE  \/ \E l \in d.milestones : l.id = m.id /\ l.of = m.of
             \/ \E x \in f.runs : x.id = m.of /\ x.run \in R
  <2>1. CASE \E x \in f.runs : x.id = m.of /\ x.run \in R
    BY <2>1
  <2>2. CASE \E l \in e.milestones : l.id = m.id /\ l.of = m.of
    <3>1. PICK l \in e.milestones : l.id = m.id /\ l.of = m.of
      BY <2>2
    <3>2. CASE \E k \in d.milestones : k.id = l.id /\ k.of = l.of
      BY <3>1, <3>2
    <3>3. CASE \E x \in e.runs : x.id = l.of /\ x.run \in R
      <4>1. PICK x \in e.runs : x.id = l.of /\ x.run \in R
        BY <3>3
      <4>2. PICK z \in f.runs : z.id = x.id /\ z.run = x.run
        BY DEF Grows
      <4> QED BY <3>1, <4>1, <4>2
    <3> QED BY <3>2, <3>3 DEF Grows
  <2> QED BY <2>1, <2>2 DEF Grows
<1> QED BY <1>1, <1>2, <1>3, <1>4 DEF Grows

LEMMA FreshOn ==
  ASSUME NEW d \in Tables, NEW e \in Tables, NEW f \in Tables, Fresh(d, e), Fresh(e, f)
  PROVE  Fresh(d, f)
<1>1. /\ d.next \in Nat /\ e.next \in Nat /\ f.next \in Nat
      /\ d.next <= e.next /\ e.next <= f.next
      /\ \A x \in f.runs \cup f.milestones : x.id \in Nat
  BY DEF Fresh, Tables, RunRows, PartRows
<1>2. ASSUME NEW x \in f.runs, x.id < d.next
      PROVE  \E y \in d.runs : y.id = x.id /\ y.run = x.run
  <2>1. x.id < e.next
    BY <1>1, <1>2
  <2>2. PICK z \in e.runs : z.id = x.id /\ z.run = x.run
    BY <2>1 DEF Fresh
  <2> QED BY <1>2, <2>2 DEF Fresh
<1>3. ASSUME NEW m \in f.milestones, m.id < d.next
      PROVE  \E l \in d.milestones : l.id = m.id /\ l.of = m.of
  <2>1. m.id < e.next
    BY <1>1, <1>3
  <2>2. PICK z \in e.milestones : z.id = m.id /\ z.of = m.of
    BY <2>1 DEF Fresh
  <2> QED BY <1>3, <2>2 DEF Fresh
<1>4. d.next <= f.next
  BY <1>1
<1> QED BY <1>2, <1>3, <1>4 DEF Fresh

(* Who files another run still knows what it knew, and its rows are as     *)
(* they were.                                                              *)
LEMMA GrowthKeeps ==
  ASSUME NEW d, NEW e, NEW R, Grows(d, e, R), NEW r
  PROVE  /\ \A k : Knows(d, k, r) => Knows(e, k, r)
         /\ r \notin R /\ Absent(d, r) => Absent(e, r)
         /\ r \notin R /\ Tabled(e) /\ Quiet(d, r) => Quiet(e, r)
<1>1. ASSUME NEW k, Knows(d, k, r) PROVE Knows(e, k, r)
  <2>1. k \in Known /\ (k.milestone # NoRow => k.milestone \in Ids(e.milestones))
    BY <1>1 DEF Knows, Grows, Ids
  <2>2. ASSUME k.run # NoRow PROVE \E x \in e.runs : x.id = k.run /\ x.run = r
    <3>1. PICK y \in d.runs : y.id = k.run /\ y.run = r
      BY <1>1, <2>2 DEF Knows
    <3> QED BY <3>1 DEF Grows
  <2> QED BY <2>1, <2>2 DEF Knows
<1>2. ASSUME r \notin R, Absent(d, r) PROVE Absent(e, r)
  BY <1>2 DEF Absent, Grows
<1>3. ASSUME r \notin R, Tabled(e), Quiet(d, r),
             NEW m \in e.milestones, NEW x \in e.runs, x.id = m.of, x.run = r
      PROVE  FALSE
  <2>1. PICK y \in d.runs : y.id = x.id /\ y.run = x.run
    BY <1>3 DEF Grows
  <2>2. CASE \E l \in d.milestones : l.of = m.of
    BY <1>3, <2>1, <2>2 DEF Quiet
  <2>3. CASE \E z \in e.runs : z.id = m.of /\ z.run \in R
    BY <1>3, <2>3 DEF Tabled
  <2> QED BY <2>2, <2>3 DEF Grows
<1> QED BY <1>1, <1>2, <1>3 DEF Quiet

-----------------------------------------------------------------------------
(* One step of filing an event: what is filed twice is filed by a run in S *)
Settled(s, r, S) ==
  Once(s.db, S) /\ (r \in S \/ (s.known.milestone = NoRow => Quiet(s.db, r)))

Keeps(s, t, r) == Filed(t, r) /\ Grows(s.db, t.db, {r}) /\ Fresh(s.db, t.db)

LEMMA KeepsOn ==
  ASSUME NEW s \in Filing, NEW t, NEW u, NEW r, Keeps(s, t, r), Keeps(t, u, r)
  PROVE  Keeps(s, u, r)
<1>1. s.db \in Tables /\ t.db \in Tables /\ u.db \in Tables
  BY Parts DEF Keeps, Filed
<1> QED BY <1>1, GrowsOn, FreshOn DEF Keeps

(* The columns that say which run a row is of are never written again.     *)
AlikeRuns(P, Q) ==
  /\ \A x \in P : \E y \in Q : y.id = x.id /\ y.run = x.run
  /\ \A y \in Q : \E x \in P : x.id = y.id /\ x.run = y.run
  /\ \A y, z \in Q : y # z =>
       \E a, b \in P : a # b /\ a.id = y.id /\ a.run = y.run /\ b.id = z.id /\ b.run = z.run

AlikeParts(P, Q) ==
  /\ \A x \in P : \E y \in Q : y.id = x.id /\ y.of = x.of
  /\ \A y \in Q : \E x \in P : x.id = y.id /\ x.of = y.of
  /\ \A y, z \in Q : y # z =>
       \E a, b \in P : a # b /\ a.id = y.id /\ a.of = y.of /\ b.id = z.id /\ b.of = z.of

LEMMA FinishedRuns ==
  ASSUME NEW rows \in SUBSET RunRows, NEW id
  PROVE  Finish(rows, id) \in SUBSET RunRows /\ AlikeRuns(rows, Finish(rows, id))
<1> DEFINE done(x) == IF x.id = id THEN [x EXCEPT !.status = "done"] ELSE x
<1>1. Finish(rows, id) = {done(x) : x \in rows}
  BY DEF Finish
<1>2. ASSUME NEW x \in rows
      PROVE  done(x) \in RunRows /\ done(x).id = x.id /\ done(x).run = x.run
  BY DEF RunRows
<1> HIDE DEF done
<1>3. \A y \in Finish(rows, id) : \E x \in rows : y = done(x)
  BY <1>1
<1>4. \A x \in rows : done(x) \in Finish(rows, id)
  BY <1>1
<1>5. Finish(rows, id) \in SUBSET RunRows
  BY <1>2, <1>3
<1>6. \A x \in rows : \E y \in Finish(rows, id) : y.id = x.id /\ y.run = x.run
  BY <1>2, <1>4
<1>7. \A y \in Finish(rows, id) : \E x \in rows : x.id = y.id /\ x.run = y.run
  BY <1>2, <1>3
<1>8. ASSUME NEW y \in Finish(rows, id), NEW z \in Finish(rows, id), y # z
      PROVE  \E a, b \in rows : a # b /\ a.id = y.id /\ a.run = y.run
                                /\ b.id = z.id /\ b.run = z.run
  <2>1. PICK a \in rows : y = done(a)
    BY <1>3
  <2>2. PICK b \in rows : z = done(b)
    BY <1>3
  <2>3. a # b
    BY <1>8, <2>1, <2>2
  <2> QED BY <1>2, <2>1, <2>2, <2>3
<1> QED BY <1>5, <1>6, <1>7, <1>8 DEF AlikeRuns

LEMMA FinishedParts ==
  ASSUME NEW rows \in SUBSET PartRows, NEW id
  PROVE  Finish(rows, id) \in SUBSET PartRows /\ AlikeParts(rows, Finish(rows, id))
<1> DEFINE done(x) == IF x.id = id THEN [x EXCEPT !.status = "done"] ELSE x
<1>1. Finish(rows, id) = {done(x) : x \in rows}
  BY DEF Finish
<1>2. ASSUME NEW x \in rows
      PROVE  done(x) \in PartRows /\ done(x).id = x.id /\ done(x).of = x.of
  BY DEF PartRows
<1> HIDE DEF done
<1>3. \A y \in Finish(rows, id) : \E x \in rows : y = done(x)
  BY <1>1
<1>4. \A x \in rows : done(x) \in Finish(rows, id)
  BY <1>1
<1>5. Finish(rows, id) \in SUBSET PartRows
  BY <1>2, <1>3
<1>6. \A x \in rows : \E y \in Finish(rows, id) : y.id = x.id /\ y.of = x.of
  BY <1>2, <1>4
<1>7. \A y \in Finish(rows, id) : \E x \in rows : x.id = y.id /\ x.of = y.of
  BY <1>2, <1>3
<1>8. ASSUME NEW y \in Finish(rows, id), NEW z \in Finish(rows, id), y # z
      PROVE  \E a, b \in rows : a # b /\ a.id = y.id /\ a.of = y.of
                                /\ b.id = z.id /\ b.of = z.of
  <2>1. PICK a \in rows : y = done(a)
    BY <1>3
  <2>2. PICK b \in rows : z = done(b)
    BY <1>3
  <2>3. a # b
    BY <1>8, <2>1, <2>2
  <2> QED BY <1>2, <2>1, <2>2, <2>3
<1> QED BY <1>5, <1>6, <1>7, <1>8 DEF AlikeParts

LEMMA SameIsAlike ==
  ASSUME NEW P
  PROVE  AlikeRuns(P, P) /\ AlikeParts(P, P)
  BY DEF AlikeRuns, AlikeParts

LEMMA IdsAlike ==
  ASSUME NEW P, NEW Q
  PROVE  /\ AlikeRuns(P, Q) => Ids(P) = Ids(Q)
         /\ AlikeParts(P, Q) => Ids(P) = Ids(Q)
<1>1. ASSUME AlikeRuns(P, Q) PROVE Ids(P) = Ids(Q)
  <2>1. \A x \in P : x.id \in Ids(Q)
    BY <1>1 DEF AlikeRuns, Ids
  <2>2. \A y \in Q : y.id \in Ids(P)
    BY <1>1 DEF AlikeRuns, Ids
  <2> QED BY <2>1, <2>2 DEF Ids
<1>2. ASSUME AlikeParts(P, Q) PROVE Ids(P) = Ids(Q)
  <2>1. \A x \in P : x.id \in Ids(Q)
    BY <1>2 DEF AlikeParts, Ids
  <2>2. \A y \in Q : y.id \in Ids(P)
    BY <1>2 DEF AlikeParts, Ids
  <2> QED BY <2>1, <2>2 DEF Ids
<1> QED BY <1>1, <1>2

(* What neither adds nor moves the rows of runs and milestones.            *)
LEMMA Marked ==
  ASSUME NEW s, NEW t, NEW r, NEW S, Filed(s, r), t \in Filing,
         t.known.run = s.known.run, t.known.milestone = s.known.milestone,
         t.db.next >= s.db.next,
         AlikeRuns(s.db.runs, t.db.runs), AlikeParts(s.db.milestones, t.db.milestones),
         \A x \in t.db.events : x.of \in Ids(s.db.runs),
         \A x \in t.db.phases : x.of \in Ids(s.db.milestones)
  PROVE  /\ Keeps(s, t, r)
         /\ Absent(s.db, r) => Absent(t.db, r)
         /\ Once(s.db, S) => Once(t.db, S)
         /\ Settled(s, r, S) => Settled(t, r, S)
<1>1. s \in Filing /\ Tabled(s.db) /\ Knows(s.db, s.known, r)
  BY DEF Filed
<1>2. Ids(s.db.runs) = Ids(t.db.runs) /\ Ids(s.db.milestones) = Ids(t.db.milestones)
  BY IdsAlike
<1>3. /\ s.db.next \in Nat /\ t.db.next \in Nat
      /\ \A x \in s.db.runs \cup s.db.milestones : x.id \in Nat
      /\ t.known \in Known /\ t.db \in Tables
  <2>1. \A x \in s.db.runs \cup s.db.milestones : x.id \in Nat
    BY <1>1, Parts DEF RunRows, PartRows
  <2> QED BY <1>1, <2>1, Parts
<1>4. Grows(s.db, t.db, {r}) /\ Fresh(s.db, t.db)
  <2>1. Grows(s.db, t.db, {r})
    BY DEF Grows, AlikeRuns, AlikeParts
  <2>2. Fresh(s.db, t.db)
    BY <1>3 DEF Fresh, AlikeRuns, AlikeParts
  <2> QED BY <2>1, <2>2
<1>5. Tabled(t.db)
  <2>1. ASSUME NEW x \in t.db.runs PROVE x.id < t.db.next
    <3>1. PICK y \in s.db.runs : y.id = x.id
      BY DEF AlikeRuns
    <3> QED BY <1>1, <1>3, <3>1 DEF Tabled
  <2>2. ASSUME NEW x \in t.db.milestones PROVE x.id < t.db.next
    <3>1. PICK y \in s.db.milestones : y.id = x.id
      BY DEF AlikeParts
    <3> QED BY <1>1, <1>3, <3>1 DEF Tabled
  <2>3. ASSUME NEW x \in t.db.runs, NEW y \in t.db.runs, x.id = y.id, x # y PROVE FALSE
    <3>1. PICK a \in s.db.runs, b \in s.db.runs : a # b /\ a.id = x.id /\ b.id = y.id
      BY <2>3 DEF AlikeRuns
    <3> QED BY <1>1, <2>3, <3>1 DEF Tabled
  <2>5. ASSUME NEW x \in t.db.milestones, NEW y \in t.db.milestones, x.id = y.id, x # y
        PROVE  FALSE
    <3>1. PICK a \in s.db.milestones, b \in s.db.milestones :
            a # b /\ a.id = x.id /\ b.id = y.id
      BY <2>5 DEF AlikeParts
    <3> QED BY <1>1, <2>5, <3>1 DEF Tabled
  <2>4. ASSUME NEW x \in t.db.milestones PROVE x.of \in Ids(t.db.runs)
    <3>1. PICK y \in s.db.milestones : y.of = x.of
      BY DEF AlikeParts
    <3> QED BY <1>1, <1>2, <3>1 DEF Tabled
  <2> QED BY <1>2, <1>3, <2>1, <2>2, <2>3, <2>4, <2>5 DEF Tabled
<1>6. Knows(t.db, t.known, r)
  <2>1. Knows(t.db, s.known, r)
    BY <1>1, <1>4, GrowthKeeps
  <2> QED BY <1>3, <2>1 DEF Knows
<1>7. ASSUME Absent(s.db, r) PROVE Absent(t.db, r)
  BY <1>7 DEF Absent, AlikeRuns
<1>8. ASSUME Once(s.db, S) PROVE Once(t.db, S)
  <2>1. ASSUME NEW x \in t.db.runs, NEW y \in t.db.runs, x.run = y.run, x # y
        PROVE  x.run \in S
    <3>1. PICK a \in s.db.runs, b \in s.db.runs :
            a # b /\ a.id = x.id /\ a.run = x.run /\ b.id = y.id /\ b.run = y.run
      BY <2>1 DEF AlikeRuns
    <3> QED BY <1>8, <2>1, <3>1 DEF Once
  <2>2. ASSUME NEW x \in t.db.milestones, NEW y \in t.db.milestones, x.of = y.of, x # y
        PROVE  \E row \in t.db.runs : row.id = x.of /\ row.run \in S
    <3>1. PICK a \in s.db.milestones, b \in s.db.milestones :
            a # b /\ a.id = x.id /\ a.of = x.of /\ b.id = y.id /\ b.of = y.of
      BY <2>2 DEF AlikeParts
    <3>2. PICK row \in s.db.runs : row.id = x.of /\ row.run \in S
      BY <1>8, <2>2, <3>1 DEF Once
    <3>3. PICK new \in t.db.runs : new.id = row.id /\ new.run = row.run
      BY DEF AlikeRuns
    <3> QED BY <3>2, <3>3
  <2> QED BY <2>1, <2>2 DEF Once
<1>9. ASSUME Quiet(s.db, r) PROVE Quiet(t.db, r)
  <2>1. ASSUME NEW m \in t.db.milestones, NEW x \in t.db.runs, x.id = m.of PROVE x.run # r
    <3>1. PICK l \in s.db.milestones : l.of = m.of
      BY DEF AlikeParts
    <3>2. PICK y \in s.db.runs : y.id = x.id /\ y.run = x.run
      BY DEF AlikeRuns
    <3> QED BY <1>9, <2>1, <3>1, <3>2 DEF Quiet
  <2> QED BY <2>1 DEF Quiet
<1> QED BY <1>4, <1>5, <1>6, <1>7, <1>8, <1>9 DEF Keeps, Filed, Settled

(* A new row has an id that no row has, and nothing belongs to it.         *)
LEMMA NewRun ==
  ASSUME NEW s, NEW r \in 0 .. MaxRuns, NEW S, NEW status \in Statuses, Filed(s, r)
  PROVE  LET t == AddRun(s, r, status)
         IN  /\ Keeps(s, t, r) /\ t.known.run # NoRow
             /\ Absent(s.db, r) \/ r \in S =>
                  /\ Once(s.db, S) => Once(t.db, S)
                  /\ Settled(s, r, S) => Settled(t, r, S)
<1> DEFINE row == [id |-> s.db.next, run |-> r, status |-> status]
           k == [s.known EXCEPT !.run = s.db.next]
           d == [s.db EXCEPT !.next = @ + 1, !.runs = @ \cup {row}]
           t == AddRun(s, r, status)
<1>1. s \in Filing /\ Tabled(s.db) /\ Knows(s.db, s.known, r)
  BY DEF Filed
<1>2. t = [db |-> d, known |-> k]
  BY DEF AddRun
<1>3. row \in RunRows /\ row.id = s.db.next /\ row.run = r
  BY <1>1, Parts DEF RunRows, Statuses
<1> HIDE DEF row, t
<1>4. /\ s.db \in Tables /\ s.db.next \in Nat \ {0} /\ s.db.runs \in SUBSET RunRows
      /\ s.db.milestones \in SUBSET PartRows /\ s.known \in Known
  BY <1>1, Parts
<1>5. /\ d \in Tables /\ d.next = s.db.next + 1 /\ d.runs = s.db.runs \cup {row}
      /\ d.milestones = s.db.milestones /\ d.phases = s.db.phases
      /\ d.events = s.db.events
  <2>1. s.db.next + 1 \in Nat \ {0} /\ s.db.runs \cup {row} \in SUBSET RunRows
    BY <1>3, <1>4
  <2>2. d \in Tables
    BY <1>4, <2>1 DEF Tables
  <2>3. /\ d.next = s.db.next + 1 /\ d.runs = s.db.runs \cup {row}
        /\ d.milestones = s.db.milestones /\ d.phases = s.db.phases /\ d.events = s.db.events
    BY <1>4 DEF Tables
  <2> QED BY <2>2, <2>3
<1>6. k \in Known /\ k.run = s.db.next /\ k.milestone = s.known.milestone
  BY <1>4 DEF Known
<1> HIDE DEF d, k
<1>7. /\ t \in Filing /\ t.db = d /\ t.known = k
  BY <1>2, <1>5, <1>6 DEF Filing
<1>8. Ids(d.runs) = Ids(s.db.runs) \cup {s.db.next}
  BY <1>3, <1>5 DEF Ids
<1>9. \A x \in s.db.runs \cup s.db.milestones : x.id \in Nat /\ x.id < s.db.next
  BY <1>1, <1>4 DEF Tabled, RunRows, PartRows
<1>10. \A m \in s.db.milestones : m.of # s.db.next
  BY <1>1, <1>4, <1>9 DEF Tabled, Ids
<1>11. Tabled(d)
  <2>1. \A x \in d.runs \cup d.milestones : x.id < d.next
    BY <1>3, <1>4, <1>5, <1>9
  <2>2. \A x, y \in d.runs : x.id = y.id => x = y
    BY <1>1, <1>3, <1>4, <1>5, <1>9 DEF Tabled
  <2>5. \A x, y \in d.milestones : x.id = y.id => x = y
    BY <1>1, <1>5 DEF Tabled
  <2>3. \A x \in d.milestones \cup d.events : x.of \in Ids(d.runs)
    BY <1>1, <1>5, <1>8 DEF Tabled
  <2>4. \A x \in d.phases : x.of \in Ids(d.milestones)
    BY <1>1, <1>5 DEF Tabled
  <2> QED BY <1>5, <2>1, <2>2, <2>3, <2>4, <2>5 DEF Tabled
<1>12. Grows(s.db, d, {r}) /\ Fresh(s.db, d)
  <2>1. Grows(s.db, d, {r})
    BY <1>3, <1>5 DEF Grows
  <2>2. Fresh(s.db, d)
    BY <1>3, <1>4, <1>5 DEF Fresh
  <2> QED BY <2>1, <2>2
<1>13. Knows(d, k, r)
  BY <1>1, <1>3, <1>5, <1>6 DEF Knows
<1>14. ASSUME Absent(s.db, r) \/ r \in S, Once(s.db, S) PROVE Once(d, S)
  <2>1. ASSUME NEW x \in d.runs, NEW y \in d.runs, x.run = y.run, x # y
        PROVE  x.run \in S
    <3>1. CASE x \in s.db.runs /\ y \in s.db.runs
      BY <1>14, <2>1, <3>1 DEF Once
    <3>2. CASE x = row \/ y = row
      BY <1>3, <1>5, <1>14, <2>1, <3>2 DEF Absent
    <3> QED BY <1>5, <3>1, <3>2
  <2>2. \A x, y \in d.milestones : x.of = y.of /\ x # y =>
          \E old \in d.runs : old.id = x.of /\ old.run \in S
    BY <1>5, <1>14 DEF Once
  <2> QED BY <2>1, <2>2 DEF Once
<1>15. ASSUME Quiet(s.db, r) PROVE Quiet(d, r)
  BY <1>3, <1>5, <1>10, <1>15 DEF Quiet
<1>16. k.run # NoRow
  BY <1>4, <1>6 DEF NoRow
<1>17. ASSUME Absent(s.db, r) \/ r \in S, Settled(s, r, S) PROVE Settled(t, r, S)
  BY <1>6, <1>7, <1>14, <1>15, <1>17 DEF Settled
<1> QED BY <1>7, <1>11, <1>12, <1>13, <1>14, <1>16, <1>17 DEF Keeps, Filed, t

LEMMA NewMilestone ==
  ASSUME NEW s, NEW r, NEW S, Filed(s, r), s.known.run # NoRow
  PROVE  LET t == AddMilestone(s)
         IN  /\ Keeps(s, t, r) /\ t.known.run # NoRow
             /\ (\A m \in s.db.milestones : m.of # s.known.run) \/ r \in S =>
                  /\ Once(s.db, S) => Once(t.db, S)
                  /\ Settled(s, r, S) => Settled(t, r, S)
<1> DEFINE row == [id |-> s.db.next, of |-> s.known.run, status |-> "running"]
           k == [s.known EXCEPT !.milestone = s.db.next]
           d == [s.db EXCEPT !.next = @ + 1, !.milestones = @ \cup {row}]
           t == AddMilestone(s)
<1>1. s \in Filing /\ Tabled(s.db) /\ Knows(s.db, s.known, r)
  BY DEF Filed
<1>2. t = [db |-> d, known |-> k]
  BY DEF AddMilestone
<1>3. row \in PartRows /\ row.id = s.db.next /\ row.of = s.known.run
  BY <1>1, Parts DEF PartRows
<1> HIDE DEF row, t
<1>4. /\ s.db \in Tables /\ s.db.next \in Nat \ {0} /\ s.db.runs \in SUBSET RunRows
      /\ s.db.milestones \in SUBSET PartRows /\ s.known \in Known
  BY <1>1, Parts
<1>5. /\ d \in Tables /\ d.next = s.db.next + 1 /\ d.runs = s.db.runs
      /\ d.milestones = s.db.milestones \cup {row} /\ d.phases = s.db.phases
      /\ d.events = s.db.events
  <2>1. s.db.next + 1 \in Nat \ {0} /\ s.db.milestones \cup {row} \in SUBSET PartRows
    BY <1>3, <1>4
  <2>2. d \in Tables
    BY <1>4, <2>1 DEF Tables
  <2>3. /\ d.next = s.db.next + 1 /\ d.milestones = s.db.milestones \cup {row}
        /\ d.runs = s.db.runs /\ d.phases = s.db.phases /\ d.events = s.db.events
    BY <1>4 DEF Tables
  <2> QED BY <2>2, <2>3
<1>6. k \in Known /\ k.run = s.known.run /\ k.milestone = s.db.next
  BY <1>4 DEF Known
<1> HIDE DEF d, k
<1>7. /\ t \in Filing /\ t.db = d /\ t.known = k
  BY <1>2, <1>5, <1>6 DEF Filing
<1>8. Ids(d.milestones) = Ids(s.db.milestones) \cup {s.db.next}
  BY <1>3, <1>5 DEF Ids
<1>9. \A x \in s.db.runs \cup s.db.milestones : x.id \in Nat /\ x.id < s.db.next
  BY <1>1, <1>4 DEF Tabled, RunRows, PartRows
<1>10. PICK own \in s.db.runs : own.id = s.known.run /\ own.run = r
  BY <1>1 DEF Knows
<1>11. Tabled(d)
  <2>1. \A x \in d.runs \cup d.milestones : x.id < d.next
    BY <1>3, <1>4, <1>5, <1>9
  <2>2. \A x, y \in d.runs : x.id = y.id => x = y
    BY <1>1, <1>5 DEF Tabled
  <2>6. \A x, y \in d.milestones : x.id = y.id => x = y
    BY <1>1, <1>3, <1>4, <1>5, <1>9 DEF Tabled
  <2>3. row.of \in Ids(d.runs)
    BY <1>3, <1>5, <1>10 DEF Ids
  <2>4. \A x \in d.milestones \cup d.events : x.of \in Ids(d.runs)
    BY <1>1, <1>5, <2>3 DEF Tabled
  <2>5. \A x \in d.phases : x.of \in Ids(d.milestones)
    BY <1>1, <1>5, <1>8 DEF Tabled
  <2> QED BY <1>5, <2>1, <2>2, <2>4, <2>5, <2>6 DEF Tabled
<1>12. Grows(s.db, d, {r}) /\ Fresh(s.db, d)
  <2>1. \E x \in d.runs : x.id = row.of /\ x.run \in {r}
    BY <1>3, <1>5, <1>10
  <2>2. Grows(s.db, d, {r})
    BY <1>5, <1>8, <2>1 DEF Grows
  <2>3. Fresh(s.db, d)
    BY <1>3, <1>4, <1>5 DEF Fresh
  <2> QED BY <2>2, <2>3
<1>13. Knows(d, k, r)
  BY <1>1, <1>5, <1>6, <1>8 DEF Knows
<1>14. ASSUME (\A m \in s.db.milestones : m.of # s.known.run) \/ r \in S, Once(s.db, S)
       PROVE  Once(d, S)
  <2>1. \A x, y \in d.runs : x.run = y.run /\ x # y => x.run \in S
    BY <1>5, <1>14 DEF Once
  <2>2. ASSUME NEW x \in d.milestones, NEW y \in d.milestones, x.of = y.of, x # y
        PROVE  \E old \in d.runs : old.id = x.of /\ old.run \in S
    <3>1. CASE x \in s.db.milestones /\ y \in s.db.milestones
      BY <1>5, <1>14, <2>2, <3>1 DEF Once
    <3>2. CASE x = row \/ y = row
      <4>1. x.of = s.known.run /\ r \in S
        BY <1>3, <1>5, <1>14, <2>2, <3>2
      <4> QED BY <1>5, <1>10, <4>1
    <3> QED BY <1>5, <3>1, <3>2
  <2> QED BY <2>1, <2>2 DEF Once
<1>15. k.milestone # NoRow
  BY <1>4, <1>6 DEF NoRow
<1>16. ASSUME (\A m \in s.db.milestones : m.of # s.known.run) \/ r \in S, Settled(s, r, S)
       PROVE  Settled(t, r, S)
  BY <1>7, <1>14, <1>15, <1>16 DEF Settled
<1> QED BY <1>6, <1>7, <1>11, <1>12, <1>13, <1>14, <1>16 DEF Keeps, Filed, t

EventKinds == Kinds \cup {"spec_lint_completed", "garbage"}

(* What neither adds nor moves the rows of runs and milestones.            *)
Marks(s, t, r) ==
  /\ Keeps(s, t, r) /\ t.known.run = s.known.run
  /\ Absent(s.db, r) => Absent(t.db, r)
  /\ \A S : /\ Once(s.db, S) => Once(t.db, S)
            /\ Settled(s, r, S) => Settled(t, r, S)

LEMMA NewPhase ==
  ASSUME NEW s, NEW r, Filed(s, r), s.known.milestone # NoRow
  PROVE  Marks(s, AddPhase(s), r)
<1> DEFINE row == [id |-> s.db.next, of |-> s.known.milestone, status |-> "running"]
           k == [s.known EXCEPT !.phase = s.db.next]
           d == [s.db EXCEPT !.next = @ + 1, !.phases = @ \cup {row}]
           t == AddPhase(s)
<1>1. s \in Filing /\ Tabled(s.db) /\ Knows(s.db, s.known, r)
  BY DEF Filed
<1>2. t = [db |-> d, known |-> k]
  BY DEF AddPhase
<1>3. row \in PartRows /\ row.of = s.known.milestone
  BY <1>1, Parts DEF PartRows
<1> HIDE DEF row, t
<1>4. /\ s.db \in Tables /\ s.db.next \in Nat \ {0} /\ s.db.phases \in SUBSET PartRows
      /\ s.known \in Known
  BY <1>1, Parts
<1>5. d \in Tables
  <2>1. s.db.next + 1 \in Nat \ {0} /\ s.db.phases \cup {row} \in SUBSET PartRows
    BY <1>3, <1>4
  <2> QED BY <1>4, <2>1 DEF Tables
<1>6. /\ d.next = s.db.next + 1 /\ d.phases = s.db.phases \cup {row} /\ d.runs = s.db.runs
      /\ d.milestones = s.db.milestones /\ d.events = s.db.events
  BY <1>4 DEF Tables
<1>7. k \in Known /\ k.run = s.known.run /\ k.milestone = s.known.milestone
  BY <1>4 DEF Known
<1> HIDE DEF d, k
<1>8. t \in Filing /\ t.db = d /\ t.known = k
  BY <1>2, <1>5, <1>7 DEF Filing
<1>9. \A x \in d.phases : x.of \in Ids(s.db.milestones)
  BY <1>1, <1>3, <1>6 DEF Tabled, Knows
<1>10. \A x \in d.events : x.of \in Ids(s.db.runs)
  BY <1>1, <1>6 DEF Tabled
<1>11. /\ t.known.run = s.known.run /\ t.known.milestone = s.known.milestone
       /\ t.db.next >= s.db.next
  BY <1>4, <1>6, <1>7, <1>8
<1>12. AlikeRuns(s.db.runs, t.db.runs) /\ AlikeParts(s.db.milestones, t.db.milestones)
  BY <1>6, <1>8, SameIsAlike
<1> HIDE DEF t
<1>13. Marks(s, t, r)
  BY <1>8, <1>9, <1>10, <1>11, <1>12, Marked DEF Marks
<1> QED BY <1>13 DEF t

LEMMA NewEvent ==
  ASSUME NEW s, NEW r, Filed(s, r), s.known.run # NoRow, NEW kind \in EventKinds
  PROVE  Marks(s, AddEvent(s, kind), r)
<1> DEFINE row == [of |-> s.known.run, kind |-> kind]
           d == [s.db EXCEPT !.events = @ \cup {row}]
           t == AddEvent(s, kind)
<1>1. s \in Filing /\ Tabled(s.db) /\ Knows(s.db, s.known, r)
  BY DEF Filed
<1>2. t = [s EXCEPT !.db = d]
  BY DEF AddEvent
<1>3. row \in EventRows /\ row.of = s.known.run
  BY <1>1, Parts DEF EventRows, EventKinds
<1> HIDE DEF row, t
<1>4. /\ s.db \in Tables /\ s.db.next \in Nat \ {0} /\ s.db.events \in SUBSET EventRows
      /\ s.known \in Known
  BY <1>1, Parts
<1>5. d \in Tables
  <2>1. s.db.events \cup {row} \in SUBSET EventRows
    BY <1>3, <1>4
  <2> QED BY <1>4, <2>1 DEF Tables
<1>6. /\ d.next = s.db.next /\ d.events = s.db.events \cup {row} /\ d.runs = s.db.runs
      /\ d.milestones = s.db.milestones /\ d.phases = s.db.phases
  BY <1>4 DEF Tables
<1> HIDE DEF d
<1>7. t \in Filing /\ t.db = d /\ t.known = s.known
  BY <1>1, <1>2, <1>5 DEF Filing
<1>8. \A x \in d.phases : x.of \in Ids(s.db.milestones)
  BY <1>1, <1>6 DEF Tabled
<1>9. \A x \in d.events : x.of \in Ids(s.db.runs)
  <2>1. s.known.run \in Ids(s.db.runs)
    BY <1>1 DEF Knows, Ids
  <2> QED BY <1>1, <1>3, <1>6, <2>1 DEF Tabled
<1>10. t.db.next >= s.db.next
  BY <1>4, <1>6, <1>7
<1>11. AlikeRuns(s.db.runs, t.db.runs) /\ AlikeParts(s.db.milestones, t.db.milestones)
  BY <1>6, <1>7, SameIsAlike
<1> HIDE DEF t
<1>12. Marks(s, t, r)
  BY <1>7, <1>8, <1>9, <1>10, <1>11, Marked DEF Marks
<1> QED BY <1>12 DEF t

LEMMA Finished ==
  ASSUME NEW s, NEW r, Filed(s, r), NEW d \in Tables,
         d.next = s.db.next, d.events = s.db.events,
         AlikeRuns(s.db.runs, d.runs), AlikeParts(s.db.milestones, d.milestones),
         d.phases = s.db.phases \/ AlikeParts(s.db.phases, d.phases)
  PROVE  Marks(s, [s EXCEPT !.db = d], r)
<1> DEFINE t == [s EXCEPT !.db = d]
<1>1. s \in Filing /\ Tabled(s.db) /\ Knows(s.db, s.known, r)
  BY DEF Filed
<1>2. t \in Filing /\ t.db = d /\ t.known = s.known
  BY <1>1 DEF Filing
<1>3. \A x \in d.phases : x.of \in Ids(s.db.milestones)
  <2>1. CASE d.phases = s.db.phases
    BY <1>1, <2>1 DEF Tabled
  <2>2. CASE AlikeParts(s.db.phases, d.phases)
    BY <1>1, <2>2 DEF Tabled, AlikeParts
  <2> QED BY <2>1, <2>2
<1>4. \A x \in d.events : x.of \in Ids(s.db.runs)
  BY <1>1 DEF Tabled
<1>5. t.db.next >= s.db.next
  BY <1>1, <1>2, Parts
<1> HIDE DEF t
<1>6. Marks(s, t, r)
  BY <1>2, <1>3, <1>4, <1>5, Marked DEF Marks
<1> QED BY <1>6 DEF t

LEMMA MarkNothing ==
  ASSUME NEW s, NEW r, Filed(s, r)
  PROVE  Marks(s, s, r)
<1>1. Grows(s.db, s.db, {r})
  BY DEF Grows
<1>2. s.db.next <= s.db.next
  BY Parts DEF Filed
<1>3. Fresh(s.db, s.db)
  BY <1>2 DEF Fresh
<1> QED BY <1>1, <1>3 DEF Marks, Keeps

LEMMA UpdateMarks ==
  ASSUME NEW s, NEW r, Filed(s, r), NEW kind
  PROVE  Marks(s, Update(s, kind), r)
<1>1. s \in Filing /\ s.db \in Tables /\ s.db.runs \in SUBSET RunRows
      /\ s.db.milestones \in SUBSET PartRows /\ s.db.phases \in SUBSET PartRows
  BY Parts DEF Filed
<1>2. CASE kind = "phase_started" /\ s.known.milestone /= NoRow /\ s.known.phase = NoRow
  BY <1>2, NewPhase DEF Update
<1>3. CASE kind = "phase_completed"
  <2> DEFINE rows == Finish(s.db.phases, s.known.phase)
             d == [s.db EXCEPT !.phases = rows]
  <2>1. rows \in SUBSET PartRows /\ AlikeParts(s.db.phases, rows)
    BY <1>1, FinishedParts
  <2> HIDE DEF rows
  <2>2. /\ d \in Tables /\ d.next = s.db.next /\ d.events = s.db.events
        /\ d.runs = s.db.runs /\ d.milestones = s.db.milestones /\ d.phases = rows
    BY <1>1, <2>1 DEF Tables
  <2> HIDE DEF d
  <2>3. Marks(s, [s EXCEPT !.db = d], r)
    BY <2>1, <2>2, Finished, SameIsAlike
  <2>4. Update(s, kind) = [s EXCEPT !.db = d]
    BY <1>3 DEF Update, d, rows
  <2> QED BY <2>3, <2>4
<1>4. CASE kind = "milestone_completed"
  <2> DEFINE rows == Finish(s.db.milestones, s.known.milestone)
             d == [s.db EXCEPT !.milestones = rows]
  <2>1. rows \in SUBSET PartRows /\ AlikeParts(s.db.milestones, rows)
    BY <1>1, FinishedParts
  <2> HIDE DEF rows
  <2>2. /\ d \in Tables /\ d.next = s.db.next /\ d.events = s.db.events
        /\ d.runs = s.db.runs /\ d.milestones = rows /\ d.phases = s.db.phases
    BY <1>1, <2>1 DEF Tables
  <2> HIDE DEF d
  <2>3. Marks(s, [s EXCEPT !.db = d], r)
    BY <2>1, <2>2, Finished, SameIsAlike
  <2>4. Update(s, kind) = [s EXCEPT !.db = d]
    BY <1>4 DEF Update, d, rows
  <2> QED BY <2>3, <2>4
<1>5. CASE kind = "run_completed"
  <2> DEFINE rows == Finish(s.db.runs, s.known.run)
             d == [s.db EXCEPT !.runs = rows]
  <2>1. rows \in SUBSET RunRows /\ AlikeRuns(s.db.runs, rows)
    BY <1>1, FinishedRuns
  <2> HIDE DEF rows
  <2>2. /\ d \in Tables /\ d.next = s.db.next /\ d.events = s.db.events
        /\ d.runs = rows /\ d.milestones = s.db.milestones /\ d.phases = s.db.phases
    BY <1>1, <2>1 DEF Tables
  <2> HIDE DEF d
  <2>3. Marks(s, [s EXCEPT !.db = d], r)
    BY <2>1, <2>2, Finished, SameIsAlike
  <2>4. Update(s, kind) = [s EXCEPT !.db = d]
    BY <1>5 DEF Update, d, rows
  <2> QED BY <2>3, <2>4
<1>6. CASE Update(s, kind) = s
  BY <1>6, MarkNothing
<1> QED BY <1>2, <1>3, <1>4, <1>5, <1>6 DEF Update

(* What the writer makes of one event.                                     *)
LEMMA WriterKeeps ==
  ASSUME NEW s, NEW e \in Events, Filed(s, e.run), NEW S
  PROVE  /\ Keeps(s, WriteEvent(s, e), e.run)
         /\ /\ Settled(s, e.run, S)
            /\ e.run \in S \/ e.kind # "run_started" \/ Absent(s.db, e.run)
            => Settled(WriteEvent(s, e), e.run, S)
         /\ e.kind # "run_started" /\ Absent(s.db, e.run) =>
              Absent(WriteEvent(s, e).db, e.run)
<1> DEFINE r == e.run
           started == IF e.kind = "run_started" THEN AddRun(s, r, "running") ELSE s
           opens == /\ e.kind = "milestone_started" /\ started.known.run /= NoRow
                    /\ started.known.milestone = NoRow
           updated == IF opens THEN AddMilestone(started) ELSE Update(started, e.kind)
           t == IF updated.known.run = NoRow THEN updated ELSE AddEvent(updated, e.kind)
           Fine == e.run \in S \/ e.kind # "run_started" \/ Absent(s.db, e.run)
<1>1. WriteEvent(s, e) = t
  BY DEF WriteEvent
<1>2. r \in 0 .. MaxRuns /\ e.kind \in EventKinds /\ Filed(s, r)
  BY DEF Events, EventKinds
<1> HIDE DEF r
<1>3. /\ Keeps(s, started, r)
      /\ Settled(s, r, S) /\ Fine => Settled(started, r, S)
      /\ e.kind # "run_started" /\ Absent(s.db, r) => Absent(started.db, r)
  <2>1. CASE e.kind = "run_started"
    <3>1. Keeps(s, AddRun(s, r, "running"), r)
      BY <1>2, NewRun DEF Statuses
    <3>2. Settled(s, r, S) /\ (Absent(s.db, r) \/ r \in S) =>
            Settled(AddRun(s, r, "running"), r, S)
      BY <1>2, NewRun DEF Statuses
    <3> QED BY <2>1, <3>1, <3>2 DEF r
  <2>2. CASE e.kind # "run_started"
    BY <1>2, <2>2, MarkNothing DEF Marks
  <2> QED BY <2>1, <2>2
<1> HIDE DEF started
<1>4. Filed(started, r)
  BY <1>3 DEF Keeps
<1>5. /\ Keeps(started, updated, r)
      /\ Settled(started, r, S) => Settled(updated, r, S)
      /\ Absent(started.db, r) => Absent(updated.db, r)
  <2>1. CASE opens
    <3>1. PICK own \in started.db.runs : own.id = started.known.run /\ own.run = r
      BY <1>4, <2>1 DEF Filed, Knows
    <3>2. Settled(started, r, S) =>
            (\A m \in started.db.milestones : m.of # started.known.run) \/ r \in S
      BY <2>1, <3>1 DEF Settled, Quiet
    <3>3. ~Absent(started.db, r)
      BY <3>1 DEF Absent
    <3>4. updated = AddMilestone(started)
      BY <2>1
    <3> HIDE DEF updated
    <3> QED BY <1>4, <2>1, <3>2, <3>3, <3>4, NewMilestone
  <2>2. CASE ~opens
    <3>1. updated = Update(started, e.kind)
      BY <2>2
    <3> HIDE DEF updated
    <3> QED BY <1>4, <3>1, UpdateMarks DEF Marks
  <2> QED BY <2>1, <2>2
<1> HIDE DEF updated
<1>6. Filed(updated, r)
  BY <1>5 DEF Keeps
<1>7. /\ Keeps(updated, t, r)
      /\ Settled(updated, r, S) => Settled(t, r, S)
      /\ Absent(updated.db, r) => Absent(t.db, r)
  <2>1. CASE updated.known.run = NoRow
    BY <1>6, <2>1, MarkNothing DEF Marks
  <2>2. CASE updated.known.run # NoRow
    <3>1. t = AddEvent(updated, e.kind)
      BY <2>2
    <3> HIDE DEF t
    <3> QED BY <1>2, <1>6, <2>2, <3>1, NewEvent DEF Marks
  <2> QED BY <2>1, <2>2
<1> HIDE DEF t
<1>8. Keeps(s, t, r)
  <2>1. s \in Filing /\ started \in Filing
    BY <1>2, <1>4 DEF Filed
  <2> QED BY <1>3, <1>5, <1>7, <2>1, KeepsOn
<1> QED BY <1>1, <1>3, <1>5, <1>7, <1>8 DEF r

(* A query finds a row where there is one.                                 *)
LEMMA FirstIsOne ==
  ASSUME NEW rows, NEW n \in Nat, \A x \in rows : x.id \in 1 .. n, NEW pick
  PROVE  /\ rows = {} => First(rows, pick) = NoRow
         /\ rows # {} => First(rows, pick) # NoRow /\ \E x \in rows : x.id = First(rows, pick)
<1> DEFINE ids == {x.id : x \in rows}
           Best(id) == \A x \in rows : IF pick = "oldest" THEN id <= x.id ELSE id >= x.id
<1>1. CASE rows = {}
  BY <1>1 DEF First
<1>2. CASE rows # {}
  <2>1. ids # {} /\ ids \subseteq 0 .. n /\ ids \in SUBSET Nat
    BY <1>2
  <2>2. PICK low \in ids : \A id \in ids : low <= id
    <3> HIDE DEF ids
    <3> QED BY <2>1, Smallest
  <2>3. PICK high \in ids : \A id \in ids : id <= high
    <3> HIDE DEF ids
    <3> QED BY <2>1, Largest
  <2>4. \A x \in rows : low <= x.id /\ x.id <= high
    BY <2>2, <2>3
  <2>5. low \in Nat /\ high \in Nat /\ \A x \in rows : high >= x.id
    BY <2>1, <2>4
  <2>6. \E id \in ids : Best(id)
    BY <2>4, <2>5
  <2>7. First(rows, pick) = CHOOSE id \in ids : Best(id)
    BY <1>2 DEF First
  <2>8. First(rows, pick) \in ids
    <3> HIDE DEF ids, Best
    <3> QED BY <2>6, <2>7
  <2>9. \A id \in ids : id # NoRow
    BY DEF NoRow
  <2> QED BY <1>2, <2>8, <2>9
<1> QED BY <1>1, <1>2

LEMMA IdsAreBelow ==
  ASSUME NEW s, NEW r, Filed(s, r)
  PROVE  /\ s.db.next - 1 \in Nat
         /\ \A x \in s.db.runs \cup s.db.milestones : x.id \in 1 .. (s.db.next - 1)
<1>1. /\ s.db.next \in Nat \ {0} /\ s.db.runs \in SUBSET RunRows
      /\ s.db.milestones \in SUBSET PartRows /\ Tabled(s.db)
  BY Parts DEF Filed
<1>2. \A x \in s.db.runs \cup s.db.milestones : x.id \in Nat \ {0}
  BY <1>1 DEF RunRows, PartRows
<1> QED BY <1>1, <1>2 DEF Tabled

(* To know another row of the same run.                                    *)
LEMMA Knowing ==
  ASSUME NEW s, NEW r, Filed(s, r), NEW k, Knows(s.db, k, r),
         NEW t, t \in Filing, t.db = s.db, t.known = k
  PROVE  /\ Keeps(s, t, r) /\ \A S : Once(s.db, S) => Once(t.db, S)
  BY MarkNothing DEF Marks, Keeps, Filed

LEMMA AdoptKeeps ==
  ASSUME NEW s, NEW e \in Events, Filed(s, e.run), NEW pick, NEW S
  PROVE  /\ Keeps(s, Adopt(s, e, pick), e.run)
         /\ Once(s.db, S) => Once(Adopt(s, e, pick).db, S)
<1> DEFINE r == e.run
           mine == {x \in s.db.runs : x.run = r}
           row == RunRow(s, r, pick)
           t == Adopt(s, e, pick)
<1>1. s \in Filing /\ Tabled(s.db) /\ Knows(s.db, s.known, r) /\ r \in 0 .. MaxRuns
  BY DEF Filed, Events
<1>2. /\ mine = {} => row = NoRow
      /\ mine # {} => row # NoRow /\ \E x \in mine : x.id = row
  <2>1. s.db.next - 1 \in Nat /\ \A x \in mine : x.id \in 1 .. (s.db.next - 1)
    BY IdsAreBelow
  <2>2. row = First(mine, pick)
    BY DEF RunRow
  <2> HIDE DEF row, mine
  <2> QED BY <2>1, <2>2, FirstIsOne
<1> HIDE DEF row
<1>3. CASE t = s
  BY <1>3, MarkNothing DEF Marks
<1>4. CASE row # NoRow /\ t = [s EXCEPT !.known.run = row]
  <2>1. PICK x \in s.db.runs : x.run = r /\ x.id = row
    BY <1>2, <1>4
  <2>2. row \in Nat
    BY <1>1, <2>1, IdsAreBelow
  <2> DEFINE k == [s.known EXCEPT !.run = row]
  <2>3. s.known \in Known
    BY <1>1, Parts
  <2>4. k \in Known /\ k.run = row /\ k.milestone = s.known.milestone
    BY <2>2, <2>3 DEF Known
  <2>5. t = [s EXCEPT !.known = k]
    BY <1>1, <1>4 DEF Filing
  <2> HIDE DEF k
  <2>6. t \in Filing /\ t.db = s.db /\ t.known = k
    BY <1>1, <2>4, <2>5 DEF Filing
  <2>7. Knows(s.db, k, r)
    BY <1>1, <2>1, <2>4 DEF Knows
  <2> HIDE DEF t
  <2> QED BY <2>6, <2>7, Knowing DEF t
<1>5. CASE row = NoRow /\ \E status \in Statuses : t = AddRun(s, r, status)
  <2>1. Absent(s.db, r)
    BY <1>2, <1>5 DEF Absent
  <2>2. PICK status \in Statuses : t = AddRun(s, r, status)
    BY <1>5
  <2> HIDE DEF t
  <2> QED BY <1>1, <2>1, <2>2, NewRun DEF t
<1>6. \/ t = s \/ (row # NoRow /\ t = [s EXCEPT !.known.run = row])
      \/ (row = NoRow /\ (t = AddRun(s, r, "running") \/ t = AddRun(s, r, "standalone")))
  BY DEF Adopt, row
<1> QED BY <1>3, <1>4, <1>5, <1>6 DEF Statuses

LEMMA AdoptMilestoneKeeps ==
  ASSUME NEW s, NEW r, Filed(s, r), s.known.run # NoRow, NEW pick, NEW S
  PROVE  /\ Keeps(s, AdoptMilestone(s, pick), r)
         /\ AdoptMilestone(s, pick).known.run # NoRow
         /\ Once(s.db, S) => Once(AdoptMilestone(s, pick).db, S)
<1> DEFINE mine == {x \in s.db.milestones : x.of = s.known.run}
           row == First(mine, pick)
           t == AdoptMilestone(s, pick)
<1>1. s \in Filing /\ Tabled(s.db) /\ Knows(s.db, s.known, r)
  BY DEF Filed
<1>2. /\ mine = {} => row = NoRow
      /\ mine # {} => row # NoRow /\ \E x \in mine : x.id = row
  <2>1. s.db.next - 1 \in Nat /\ \A x \in mine : x.id \in 1 .. (s.db.next - 1)
    BY IdsAreBelow
  <2> HIDE DEF mine
  <2> QED BY <2>1, FirstIsOne
<1>3. \/ t = s \/ (row # NoRow /\ t = [s EXCEPT !.known.milestone = row])
      \/ (row = NoRow /\ t = AddMilestone(s))
  BY DEF AdoptMilestone
<1> HIDE DEF row
<1>4. CASE t = s
  BY <1>4, MarkNothing DEF Marks
<1>5. CASE row # NoRow /\ t = [s EXCEPT !.known.milestone = row]
  <2>1. PICK x \in s.db.milestones : x.id = row
    BY <1>2, <1>5
  <2>2. row \in Nat /\ row \in Ids(s.db.milestones)
    BY <1>1, <2>1, IdsAreBelow DEF Ids
  <2> DEFINE k == [s.known EXCEPT !.milestone = row]
  <2>3. s.known \in Known
    BY <1>1, Parts
  <2>4. k \in Known /\ k.milestone = row /\ k.run = s.known.run
    BY <2>2, <2>3 DEF Known
  <2>5. t = [s EXCEPT !.known = k]
    BY <1>1, <1>5 DEF Filing
  <2> HIDE DEF k
  <2>6. t \in Filing /\ t.db = s.db /\ t.known = k
    BY <1>1, <2>4, <2>5 DEF Filing
  <2>7. Knows(s.db, k, r)
    BY <1>1, <2>2, <2>4 DEF Knows
  <2>8. t.known.run # NoRow
    BY <2>4, <2>6
  <2> HIDE DEF t
  <2> QED BY <2>6, <2>7, <2>8, Knowing DEF t
<1>6. CASE row = NoRow /\ t = AddMilestone(s)
  <2>1. \A m \in s.db.milestones : m.of # s.known.run
    BY <1>2, <1>6
  <2> HIDE DEF t
  <2> QED BY <1>6, <2>1, NewMilestone DEF t
<1> QED BY <1>3, <1>4, <1>5, <1>6

(* What a sync makes of one event.                                         *)
LEMMA SyncKeeps ==
  ASSUME NEW s, NEW e \in Events, Filed(s, e.run), NEW pick, NEW drop, NEW S
  PROVE  /\ Keeps(s, SyncEvent(s, e, pick, drop), e.run)
         /\ Once(s.db, S) => Once(SyncEvent(s, e, pick, drop).db, S)
<1> DEFINE r == e.run
           adopted == Adopt(s, e, pick)
           updated == IF e.kind = "milestone_started" THEN AdoptMilestone(adopted, pick)
                      ELSE Update(adopted, e.kind)
           t == SyncEvent(s, e, pick, drop)
<1>1. e.kind \in EventKinds /\ s \in Filing
  BY DEF Events, EventKinds, Filed
<1>2. \/ t = adopted
      \/ adopted.known.run # NoRow /\ t = updated
      \/ adopted.known.run # NoRow /\ t = AddEvent(updated, e.kind)
  BY DEF SyncEvent
<1> HIDE DEF t
<1>3. Keeps(s, adopted, r) /\ (Once(s.db, S) => Once(adopted.db, S))
  BY AdoptKeeps
<1> HIDE DEF adopted, r
<1>4. Filed(adopted, r) /\ adopted \in Filing
  BY <1>3 DEF Keeps, Filed
<1>5. ASSUME adopted.known.run # NoRow
      PROVE  /\ Keeps(adopted, updated, r) /\ updated.known.run # NoRow
             /\ Once(adopted.db, S) => Once(updated.db, S)
  <2>1. CASE e.kind = "milestone_started"
    <3>1. updated = AdoptMilestone(adopted, pick)
      BY <2>1
    <3> HIDE DEF updated
    <3> QED BY <1>4, <1>5, <3>1, AdoptMilestoneKeeps
  <2>2. CASE e.kind # "milestone_started"
    <3>1. updated = Update(adopted, e.kind)
      BY <2>2
    <3> HIDE DEF updated
    <3> QED BY <1>4, <1>5, <3>1, UpdateMarks DEF Marks
  <2> QED BY <2>1, <2>2
<1> HIDE DEF updated
<1>6. CASE t = adopted
  BY <1>3, <1>6 DEF t, r
<1>7. ASSUME adopted.known.run # NoRow
      PROVE  /\ Keeps(s, updated, r) /\ updated \in Filing
             /\ Once(s.db, S) => Once(updated.db, S)
  BY <1>1, <1>3, <1>4, <1>5, <1>7, KeepsOn DEF Keeps, Filed
<1>8. CASE adopted.known.run # NoRow /\ t = updated
  BY <1>7, <1>8 DEF t, r
<1>9. CASE adopted.known.run # NoRow /\ t = AddEvent(updated, e.kind)
  <2>1. Filed(updated, r) /\ updated.known.run # NoRow
    BY <1>5, <1>9 DEF Keeps
  <2>2. Keeps(updated, t, r) /\ (Once(updated.db, S) => Once(t.db, S))
    BY <1>1, <1>9, <2>1, NewEvent DEF Marks
  <2>3. Keeps(s, t, r)
    BY <1>1, <1>7, <1>9, <2>2, KeepsOn
  <2> QED BY <1>7, <1>9, <2>2, <2>3 DEF t, r
<1> QED BY <1>2, <1>6, <1>8, <1>9

Starts(q) == \E i \in DOMAIN q : q[i].kind = "run_started"

(* A batch of one run's events, of which only the first can be its start.  *)
LEMMA BatchKeeps ==
  ASSUME NEW r, NEW S, NEW rows, NEW have, NEW taken \in Seq(Events),
         Filed([db |-> rows, known |-> have], r),
         \A i \in DOMAIN taken : taken[i].run = r,
         \A i \in DOMAIN taken : taken[i].kind = "run_started" => i = 1
  PROVE  LET s == [db |-> rows, known |-> have]
             t == WriteAll(rows, have, taken)
         IN  /\ Keeps(s, t, r)
             /\ Settled(s, r, S) /\ (r \in S \/ ~Starts(taken) \/ Absent(rows, r)) =>
                  Settled(t, r, S)
<1> DEFINE s0 == [db |-> rows, known |-> have]
           n == Len(taken)
           A == {s \in Filing : Filed(s, r)}
           Fine == Settled(s0, r, S) /\ (r \in S \/ ~Starts(taken) \/ Absent(rows, r))
           later == {s \in A : Keeps(s0, s, r) /\ (Fine => Settled(s, r, S))}
           Good == [k \in 0 .. n |-> IF k = 0 THEN {s0} ELSE later]
<1>1. n \in Nat /\ DOMAIN taken = 1 .. n /\ \A i \in 1 .. n : taken[i] \in Events
  OBVIOUS
<1>2. s0 \in A /\ s0.db = rows
  BY DEF Filed
<1>3. ASSUME NEW s \in A, NEW i \in 1 .. n PROVE WriteEvent(s, taken[i]) \in A
  <2>1. Filed(s, taken[i].run) /\ taken[i].run = r /\ taken[i] \in Events
    BY <1>1
  <2>2. Keeps(s, WriteEvent(s, taken[i]), r)
    BY <2>1, WriterKeeps
  <2> QED BY <2>2 DEF Keeps, Filed
<1>4. s0 \in later
  <2>1. Keeps(s0, s0, r)
    BY <1>2, MarkNothing DEF Marks
  <2> HIDE DEF s0
  <2> QED BY <1>2, <2>1
<1>5. ASSUME NEW k \in 0 .. n - 1, NEW s \in Good[k]
      PROVE  WriteEvent(s, taken[k + 1]) \in Good[k + 1]
  <2>1. k \in 0 .. n /\ k + 1 \in 0 .. n /\ k + 1 \in 1 .. n /\ k + 1 # 0
    BY <1>1
  <2>2. s \in later /\ (k = 0 => s = s0)
    <3> HIDE DEF later, s0
    <3> QED BY <1>4, <1>5, <2>1
  <2> DEFINE t == WriteEvent(s, taken[k + 1])
             e == taken[k + 1]
  <2>3. e \in Events /\ e.run = r /\ Filed(s, r) /\ s \in A
    BY <1>1, <2>1, <2>2
  <2>4. Fine => r \in S \/ e.kind # "run_started" \/ Absent(s.db, r)
    <3>1. CASE k = 0
      <4>1. e.kind = "run_started" => Starts(taken)
        BY <1>1, <2>1 DEF Starts
      <4> HIDE DEF e, s0
      <4> QED BY <1>2, <2>2, <3>1, <4>1
    <3>2. CASE k # 0
      BY <1>1, <2>1, <3>2
    <3> QED BY <3>1, <3>2
  <2>5. Keeps(s, t, r)
    BY <2>3, WriterKeeps
  <2>6. Fine => Settled(t, r, S)
    <3>1. Fine => Settled(s, r, S)
      BY <2>2
    <3> HIDE DEF Fine
    <3> QED BY <2>3, <2>4, <3>1, WriterKeeps
  <2>7. t \in A
    BY <1>3, <2>1, <2>3
  <2> HIDE DEF t, s0, Fine
  <2>8. Keeps(s0, t, r)
    BY <1>2, <2>2, <2>5, KeepsOn
  <2>9. t \in later
    BY <2>6, <2>7, <2>8
  <2> HIDE DEF later
  <2> QED BY <2>1, <2>9 DEF t
<1>6. s0 \in Good[0]
  BY <1>1
<1>7. WriteAll(rows, have, taken) \in Good[n]
  <2> HIDE DEF A, Good
  <2> QED BY <1>1, <1>2, <1>3, <1>5, <1>6, FoldOfBatch
<1>8. Good[n] \subseteq later
  <2> HIDE DEF later, s0
  <2> QED BY <1>1, <1>4
<1> DEFINE t == WriteAll(rows, have, taken)
<1>9. t \in later
  BY <1>7, <1>8
<1> HIDE DEF t
<1>10. Keeps(s0, t, r) /\ (Fine => Settled(t, r, S))
  BY <1>9
<1> QED BY <1>10 DEF t

RunsOf(q) == {q[i].run : i \in DOMAIN q}

(* A sync of the events of any runs.                                       *)
LEMMA SyncAllKeeps ==
  ASSUME NEW S, NEW rows, NEW pick, NEW drop, NEW read \in Seq(Events),
         Tabled(rows), rows \in Tables
  PROVE  LET d == SyncAll(rows, read, pick, drop)
         IN  /\ Tabled(d) /\ Grows(rows, d, RunsOf(read)) /\ Fresh(rows, d)
             /\ Once(rows, S) => Once(d, S)
<1> DEFINE n == Len(read)
           R == RunsOf(read)
           acc0 == [db |-> rows, at |-> NoneKnown]
           Own(acc, q) == [db |-> acc.db, known |-> acc.at[q]]
           all == [db : Tables, at : [0 .. MaxRuns -> Known]]
           A == {acc \in all :
                   /\ Tabled(acc.db) /\ Grows(rows, acc.db, R) /\ Fresh(rows, acc.db)
                   /\ Once(rows, S) => Once(acc.db, S)
                   /\ \A q \in 0 .. MaxRuns : Knows(acc.db, acc.at[q], q)}
           Good == [k \in 0 .. n |-> A]
<1>1. n \in Nat /\ DOMAIN read = 1 .. n /\ \A i \in 1 .. n : read[i] \in Events
  OBVIOUS
<1>2. acc0 \in A
  <2>1. NoRows \in Known /\ NoRows.run = NoRow /\ NoRows.milestone = NoRow
    BY DEF NoRows, Known, NoRow
  <2>2. \A q \in 0 .. MaxRuns : Knows(rows, NoRows, q)
    BY <2>1 DEF Knows
  <2>3. NoneKnown \in [0 .. MaxRuns -> Known] /\ \A q \in 0 .. MaxRuns : NoneKnown[q] = NoRows
    BY <2>1 DEF NoneKnown
  <2>4. Grows(rows, rows, R) /\ Fresh(rows, rows)
    <3>1. rows.next <= rows.next
      BY DEF Tables
    <3> QED BY <3>1 DEF Grows, Fresh
  <2>5. acc0 \in all /\ acc0.db = rows /\ acc0.at = NoneKnown
    BY <2>3
  <2> HIDE DEF acc0, R
  <2> QED BY <2>2, <2>3, <2>4, <2>5
<1>3. ASSUME NEW acc \in A, NEW i \in 1 .. n PROVE File(acc, read[i], pick, drop) \in A
  <2> DEFINE e == read[i]
             s == [db |-> acc.db, known |-> acc.at[e.run]]
             t == SyncEvent(s, e, pick, drop)
             after == [acc.at EXCEPT ![e.run] = t.known]
  <2>1. e \in Events /\ e.run \in 0 .. MaxRuns /\ e.run \in R
    BY <1>1 DEF Events, RunsOf
  <2>2. /\ acc.db \in Tables /\ acc.at \in [0 .. MaxRuns -> Known] /\ Tabled(acc.db)
        /\ Grows(rows, acc.db, R) /\ (Once(rows, S) => Once(acc.db, S))
        /\ Fresh(rows, acc.db)
        /\ \A q \in 0 .. MaxRuns : Knows(acc.db, acc.at[q], q)
    BY <1>3
  <2>3. File(acc, e, pick, drop) = [db |-> t.db, at |-> after]
    BY DEF File
  <2> HIDE DEF e
  <2>4. Filed(s, e.run) /\ s.db = acc.db /\ s.known = acc.at[e.run]
    BY <2>1, <2>2 DEF Filed, Filing
  <2> HIDE DEF s
  <2>5. Keeps(s, t, e.run) /\ (Once(s.db, S) => Once(t.db, S))
    BY <2>1, <2>4, SyncKeeps
  <2> HIDE DEF t
  <2>6. /\ Tabled(t.db) /\ t.db \in Tables /\ t.known \in Known
        /\ Knows(t.db, t.known, e.run) /\ Grows(acc.db, t.db, {e.run})
        /\ Fresh(acc.db, t.db)
    BY <2>4, <2>5, Parts DEF Keeps, Filed
  <2>7. Grows(rows, t.db, R) /\ Fresh(rows, t.db)
    <3>1. Grows(acc.db, t.db, R)
      BY <2>1, <2>6 DEF Grows
    <3>2. Fresh(rows, t.db)
      BY <2>2, <2>6, FreshOn
    <3> HIDE DEF R
    <3> QED BY <2>2, <3>1, <3>2, GrowsOn
  <2>8. after \in [0 .. MaxRuns -> Known] /\ after[e.run] = t.known
        /\ \A q \in 0 .. MaxRuns : q # e.run => after[q] = acc.at[q]
    BY <2>1, <2>2, <2>6
  <2> HIDE DEF after
  <2>9. ASSUME NEW q \in 0 .. MaxRuns PROVE Knows(t.db, after[q], q)
    <3>1. CASE q = e.run
      BY <2>6, <2>8, <3>1
    <3>2. CASE q # e.run
      BY <2>2, <2>6, <2>8, <3>2, GrowthKeeps
    <3> QED BY <3>1, <3>2
  <2> DEFINE result == [db |-> t.db, at |-> after]
  <2>10. result \in all /\ result.db = t.db /\ result.at = after
    BY <2>6, <2>8
  <2> HIDE DEF result, R
  <2>11. result \in A
    BY <2>2, <2>4, <2>5, <2>6, <2>7, <2>9, <2>10
  <2> QED BY <2>3, <2>11 DEF result, e
<1> HIDE DEF A
<1>4. acc0 \in Good[0]
  BY <1>1, <1>2
<1>5. ASSUME NEW k \in 0 .. n - 1, NEW acc \in Good[k]
      PROVE  File(acc, read[k + 1], pick, drop) \in Good[k + 1]
  <2>1. k \in 0 .. n /\ k + 1 \in 0 .. n /\ k + 1 \in 1 .. n
    BY <1>1
  <2> QED BY <1>3, <1>5, <2>1
<1>6. Good[n] = A
  BY <1>1
<1>7. \E acc \in Good[n] : SyncAll(rows, read, pick, drop) = acc.db
  <2> HIDE DEF Good
  <2> QED BY <1>1, <1>2, <1>3, <1>4, <1>5, FoldOfSync
<1>8. PICK acc \in A : SyncAll(rows, read, pick, drop) = acc.db
  BY <1>6, <1>7
<1> QED BY <1>8 DEF A

LEMMA OnceAmongMore ==
  ASSUME NEW d, NEW S, NEW T, S \subseteq T, Once(d, S)
  PROVE  Once(d, T)
<1>1. \A x, y \in d.runs : x.run = y.run /\ x # y => x.run \in T
  BY DEF Once
<1>2. ASSUME NEW x \in d.milestones, NEW y \in d.milestones, x.of = y.of, x # y
      PROVE  \E row \in d.runs : row.id = x.of /\ row.run \in T
  BY <1>2 DEF Once
<1> QED BY <1>1, <1>2 DEF Once

-----------------------------------------------------------------------------
(* What a sync commits, beside rows that were committed in the meantime    *)

Distinct(rows) == \A x, y \in rows : x.id = y.id => x = y

(* No row goes missing, and none that is done is opened again.             *)
LEMMA LatestOfBoth ==
  ASSUME NEW old, NEW new, Distinct(old), Distinct(new)
  PROVE  /\ Latest(old, new) \subseteq old \cup new /\ Distinct(Latest(old, new))
         /\ \A x \in old \cup new : \E z \in Latest(old, new) :
              z.id = x.id /\ (x.status = "done" => z.status = "done")
<1> DEFINE Done(rows) == {x.id : x \in {y \in rows : y.status = "done"}}
           kept == {x \in old : x.status = "done" \/ x.id \notin Done(new)}
           added == {x \in new : x.id \notin {y.id : y \in old}}
           ended == {x \in new : x.status = "done" /\ x.id \notin Done(old)}
           all == kept \cup added \cup ended
<1>1. Latest(old, new) = all
  BY DEF Latest
<1>2. ASSUME NEW x \in all, NEW y \in all, x.id = y.id PROVE x = y
  <2>1. CASE x \in old /\ y \in old
    BY <1>2, <2>1 DEF Distinct
  <2>2. CASE x \in new /\ y \in new
    BY <1>2, <2>2 DEF Distinct
  <2>3. ASSUME NEW a \in kept, NEW b \in added \cup ended, a.id = b.id PROVE FALSE
    <3>1. b \in ended
      BY <2>3
    <3>2. a.status # "done" /\ b.id \in Done(new)
      BY <2>3, <3>1
    <3> QED BY <2>3, <3>2
  <2> QED BY <1>2, <2>1, <2>2, <2>3
<1>3. ASSUME NEW x \in old
      PROVE  \E z \in all : z.id = x.id /\ (x.status = "done" => z.status = "done")
  <2>1. CASE x \in kept
    BY <2>1
  <2>2. CASE x \notin kept
    <3>1. x.status # "done" /\ x.id \in Done(new)
      BY <2>2
    <3>2. PICK y \in new : y.status = "done" /\ y.id = x.id
      BY <3>1
    <3>3. y.id \notin Done(old)
      BY <3>1, <3>2 DEF Distinct
    <3> QED BY <3>1, <3>2, <3>3
  <2> QED BY <2>1, <2>2
<1>4. ASSUME NEW x \in new
      PROVE  \E z \in all : z.id = x.id /\ (x.status = "done" => z.status = "done")
  <2>1. CASE x \in added
    BY <2>1
  <2>2. CASE x \notin added
    <3>1. PICK y \in old : y.id = x.id
      BY <2>2
    <3>2. CASE x.status # "done"
      BY <1>3, <3>1, <3>2
    <3>3. CASE x.status = "done" /\ x.id \notin Done(old)
      BY <3>3
    <3>4. CASE x.id \in Done(old)
      <4>1. PICK z \in old : z.status = "done" /\ z.id = x.id
        BY <3>4
      <4> QED BY <4>1
    <3> QED BY <3>2, <3>3, <3>4
  <2> QED BY <2>1, <2>2
<1>5. all \subseteq old \cup new
  OBVIOUS
<1> HIDE DEF all
<1> QED BY <1>1, <1>2, <1>3, <1>4, <1>5 DEF Distinct

(* An id belongs to one row, whoever is about to commit it.                *)
Agree(d, f) ==
  /\ \A x \in d.runs, y \in f.runs : x.id = y.id => x.run = y.run
  /\ \A x \in d.milestones, y \in f.milestones : x.id = y.id => x.of = y.of

(* What a sync of the runs in R has made of rows that have grown into d:   *)
(* only rows of its runs that others were at, too, can have been added.    *)
Apart(d, f, R, S) ==
  /\ Tabled(f) /\ f.next <= d.next /\ Once(f, S) /\ Agree(d, f)
  /\ \A y \in f.runs : (\E x \in d.runs : x.id = y.id /\ x.run = y.run) \/ y.run \in R
  /\ \A m \in f.milestones :
       \/ \E l \in d.milestones : l.id = m.id /\ l.of = m.of
       \/ \E x \in f.runs : x.id = m.of /\ x.run \in R
  /\ \A x \in d.runs :
       (\E y \in f.runs : y.id = x.id /\ y.run = x.run) \/ x.run \notin R \/ x.run \in S
  /\ \A l \in d.milestones :
       \/ \E m \in f.milestones : m.id = l.id /\ m.of = l.of
       \/ \E x \in d.runs : x.id = l.of /\ (x.run \notin R \/ x.run \in S)

(* The same rows, but for the id that comes next.                          *)
SameRows(d, e) ==
  e.runs = d.runs /\ e.milestones = d.milestones /\ e.phases = d.phases
  /\ e.events = d.events

LEMMA ApartAtFirst ==
  ASSUME NEW d, NEW e, NEW f, NEW R, NEW S, Tabled(d), Tabled(f), Grows(d, f, R),
         Once(f, S), e.next = f.next, SameRows(d, e)
  PROVE  Apart(e, f, R, S)
<1>1. f.next <= e.next
  BY DEF Tabled, Tables
<1>2. \A x \in d.runs, y \in f.runs : x.id = y.id => x.run = y.run
  BY DEF Grows, Tabled
<1>3. \A x \in d.milestones, y \in f.milestones : x.id = y.id => x.of = y.of
  BY DEF Grows, Tabled
<1>4. Agree(e, f)
  BY <1>2, <1>3 DEF Agree, SameRows
<1> QED BY <1>1, <1>4 DEF Apart, Grows, SameRows

(* What is new to one is new to whoever has not seen it.                   *)
LEMMA AgreeOn ==
  ASSUME NEW d, NEW e, NEW f, Tabled(e), Tabled(f), d \in Tables, Agree(d, f), Fresh(d, e),
         f.next <= d.next
  PROVE  Agree(e, f)
<1>1. \A y \in f.runs \cup f.milestones : y.id < d.next
  <2>1. /\ f.next \in Nat /\ d.next \in Nat
        /\ \A y \in f.runs \cup f.milestones : y.id \in Nat /\ y.id < f.next
    BY DEF Tabled, Tables, RunRows, PartRows
  <2> QED BY <2>1
<1> QED BY <1>1 DEF Agree, Fresh

(* While others commit rows of the runs in Q.                              *)
LEMMA ApartOn ==
  ASSUME NEW d, NEW e, NEW f, NEW R, NEW S, NEW Q, Apart(d, f, R, S), Agree(e, f),
         Grows(d, e, Q), Q \cap R \subseteq S, d.next <= e.next, d \in Tables, e \in Tables
  PROVE  Apart(e, f, R, S)
<1>1. f.next <= e.next
  <2>1. f.next \in Nat /\ d.next \in Nat /\ e.next \in Nat /\ f.next <= d.next
    BY DEF Apart, Tabled, Tables
  <2> QED BY <2>1
<1>2. \A y \in f.runs : (\E x \in e.runs : x.id = y.id /\ x.run = y.run) \/ y.run \in R
  BY DEF Apart, Grows
<1>3. ASSUME NEW m \in f.milestones
      PROVE  \/ \E l \in e.milestones : l.id = m.id /\ l.of = m.of
             \/ \E x \in f.runs : x.id = m.of /\ x.run \in R
  BY DEF Apart, Grows
<1>4. ASSUME NEW x \in e.runs
      PROVE  \/ \E y \in f.runs : y.id = x.id /\ y.run = x.run
             \/ x.run \notin R \/ x.run \in S
  BY DEF Apart, Grows
<1>5. ASSUME NEW l \in e.milestones
      PROVE  \/ \E m \in f.milestones : m.id = l.id /\ m.of = l.of
             \/ \E x \in e.runs : x.id = l.of /\ (x.run \notin R \/ x.run \in S)
  <2>1. CASE \E x \in e.runs : x.id = l.of /\ x.run \in Q
    BY <2>1
  <2>2. CASE \E k \in d.milestones : k.id = l.id /\ k.of = l.of
    <3>1. PICK k \in d.milestones : k.id = l.id /\ k.of = l.of
      BY <2>2
    <3>2. CASE \E m \in f.milestones : m.id = k.id /\ m.of = k.of
      BY <3>1, <3>2
    <3>3. CASE \E x \in d.runs : x.id = k.of /\ (x.run \notin R \/ x.run \in S)
      <4>1. PICK x \in d.runs : x.id = k.of /\ (x.run \notin R \/ x.run \in S)
        BY <3>3
      <4>2. PICK z \in e.runs : z.id = x.id /\ z.run = x.run
        BY DEF Grows
      <4> QED BY <3>1, <4>1, <4>2
    <3> QED BY <3>2, <3>3 DEF Apart
  <2> QED BY <2>1, <2>2 DEF Grows
<1> QED BY <1>1, <1>2, <1>3, <1>4, <1>5 DEF Apart

LEMMA ApartFromMore ==
  ASSUME NEW d, NEW f, NEW R, NEW S, NEW T, S \subseteq T, Apart(d, f, R, S)
  PROVE  Apart(d, f, R, T)
<1>1. Once(f, T)
  BY OnceAmongMore DEF Apart
<1> QED BY <1>1 DEF Apart

(* What is merged is in one or the other, and what is in them is merged.   *)
LEMMA Merged ==
  ASSUME NEW d \in Tables, NEW f \in Tables, Tabled(d), Tabled(f)
  PROVE  LET e == Merge(d, f)
         IN  /\ e \in Tables /\ e.next = d.next /\ e.events = d.events \cup f.events
             /\ e.runs = Latest(d.runs, f.runs)
             /\ e.milestones = Latest(d.milestones, f.milestones)
             /\ e.phases \subseteq d.phases \cup f.phases
             /\ Distinct(d.runs) /\ Distinct(f.runs)
             /\ Distinct(d.milestones) /\ Distinct(f.milestones)
<1> DEFINE runs == Latest(d.runs, f.runs)
           milestones == Latest(d.milestones, f.milestones)
           phases == Latest(d.phases, f.phases)
           e == Merge(d, f)
<1>1. /\ Distinct(d.runs) /\ Distinct(f.runs)
      /\ Distinct(d.milestones) /\ Distinct(f.milestones)
  BY DEF Tabled, Distinct
<1>2. phases \subseteq d.phases \cup f.phases
  BY DEF Latest
<1>3. runs \subseteq d.runs \cup f.runs /\ milestones \subseteq d.milestones \cup f.milestones
  BY <1>1, LatestOfBoth
<1>4. e = [d EXCEPT !.runs = runs, !.milestones = milestones, !.phases = phases,
                    !.events = @ \cup f.events]
  BY DEF Merge
<1> HIDE DEF runs, milestones, phases, e
<1>5. /\ runs \in SUBSET RunRows /\ milestones \in SUBSET PartRows
      /\ phases \in SUBSET PartRows /\ d.events \cup f.events \in SUBSET EventRows
  BY <1>2, <1>3 DEF Tables
<1>6. /\ e \in Tables /\ e.next = d.next /\ e.events = d.events \cup f.events
      /\ e.runs = runs /\ e.milestones = milestones /\ e.phases = phases
  BY <1>4, <1>5 DEF Tables
<1> QED BY <1>1, <1>2, <1>6 DEF e, runs, milestones

(* What a sync commits, whatever others have committed since it looked.    *)
LEMMA MergeKeeps ==
  ASSUME NEW d \in Tables, NEW f \in Tables, NEW R, NEW S,
         Tabled(d), Once(d, S), Apart(d, f, R, S)
  PROVE  LET e == Merge(d, f)
         IN  Tabled(e) /\ Grows(d, e, R) /\ Once(e, S)
<1> DEFINE e == Merge(d, f)
<1>1. /\ e \in Tables /\ e.next = d.next /\ e.events = d.events \cup f.events
      /\ e.runs = Latest(d.runs, f.runs)
      /\ e.milestones = Latest(d.milestones, f.milestones)
      /\ e.phases \subseteq d.phases \cup f.phases
      /\ Distinct(d.runs) /\ Distinct(f.runs)
      /\ Distinct(d.milestones) /\ Distinct(f.milestones) /\ Tabled(f)
  BY Merged DEF Apart
<1> HIDE DEF e
<1>2. /\ e.runs \subseteq d.runs \cup f.runs /\ Distinct(e.runs)
      /\ \A x \in d.runs \cup f.runs : \E z \in e.runs : z.id = x.id
      /\ e.milestones \subseteq d.milestones \cup f.milestones /\ Distinct(e.milestones)
      /\ \A x \in d.milestones \cup f.milestones : \E z \in e.milestones : z.id = x.id
  BY <1>1, LatestOfBoth
<1>3. \A x, z \in d.runs \cup f.runs : x.id = z.id => x.run = z.run
  BY <1>1 DEF Apart, Agree, Distinct
<1>4. \A x, z \in d.milestones \cup f.milestones : x.id = z.id => x.of = z.of
  BY <1>1 DEF Apart, Agree, Distinct
<1>5. /\ \A x \in d.runs \cup f.runs : \E z \in e.runs : z.id = x.id /\ z.run = x.run
      /\ \A x \in d.milestones \cup f.milestones :
           \E z \in e.milestones : z.id = x.id /\ z.of = x.of
  <2>1. ASSUME NEW x \in d.runs \cup f.runs
        PROVE  \E z \in e.runs : z.id = x.id /\ z.run = x.run
    <3>1. PICK z \in e.runs : z.id = x.id
      BY <1>2
    <3> QED BY <1>2, <1>3, <3>1
  <2>2. ASSUME NEW x \in d.milestones \cup f.milestones
        PROVE  \E z \in e.milestones : z.id = x.id /\ z.of = x.of
    <3>1. PICK z \in e.milestones : z.id = x.id
      BY <1>2
    <3> QED BY <1>2, <1>4, <3>1
  <2> QED BY <2>1, <2>2
<1>6. Ids(d.runs) \cup Ids(f.runs) \subseteq Ids(e.runs)
      /\ Ids(d.milestones) \cup Ids(f.milestones) \subseteq Ids(e.milestones)
  BY <1>2 DEF Ids
<1>7. Tabled(e)
  <2>1. ASSUME NEW x \in e.runs \cup e.milestones PROVE x.id < e.next
    <3>1. /\ f.next <= d.next /\ f.next \in Nat /\ d.next \in Nat
          /\ \A y \in d.runs \cup d.milestones : y.id < d.next /\ y.id \in Nat
          /\ \A y \in f.runs \cup f.milestones : y.id < f.next /\ y.id \in Nat
      BY DEF Apart, Tabled, Tables, RunRows, PartRows
    <3> QED BY <1>1, <1>2, <3>1
  <2>2. \A x \in e.milestones \cup e.events : x.of \in Ids(e.runs)
    BY <1>1, <1>2, <1>6 DEF Tabled
  <2>3. \A x \in e.phases : x.of \in Ids(e.milestones)
    BY <1>1, <1>6 DEF Tabled
  <2> QED BY <1>1, <1>2, <2>1, <2>2, <2>3 DEF Tabled, Distinct
<1>8. Grows(d, e, R)
  <2>1. ASSUME NEW m \in e.milestones
        PROVE  \/ \E l \in d.milestones : l.id = m.id /\ l.of = m.of
               \/ \E x \in e.runs : x.id = m.of /\ x.run \in R
    <3>1. CASE m \in d.milestones
      BY <3>1
    <3>2. CASE \E x \in f.runs : x.id = m.of /\ x.run \in R
      BY <1>5, <3>2
    <3> QED BY <1>2, <3>1, <3>2 DEF Apart
  <2>2. \A x \in e.runs : (\E y \in d.runs : y.id = x.id /\ y.run = x.run) \/ x.run \in R
    BY <1>2 DEF Apart
  <2> QED BY <1>5, <2>1, <2>2 DEF Grows
<1>9. ASSUME NEW x \in e.runs, NEW y \in e.runs, x.run = y.run, x # y, x.run \notin S
      PROVE  FALSE
  <2>1. x.id # y.id
    BY <1>2, <1>9 DEF Distinct
  <2>2. CASE x.run \in R
    <3>1. PICK a \in f.runs : a.id = x.id /\ a.run = x.run
      BY <1>2, <1>9, <2>2 DEF Apart
    <3>2. PICK b \in f.runs : b.id = y.id /\ b.run = y.run
      BY <1>2, <1>9, <2>2 DEF Apart
    <3> QED BY <1>9, <2>1, <3>1, <3>2 DEF Apart, Once
  <2>3. CASE x.run \notin R
    <3>1. PICK a \in d.runs : a.id = x.id /\ a.run = x.run
      BY <1>8, <1>9, <2>3 DEF Grows
    <3>2. PICK b \in d.runs : b.id = y.id /\ b.run = y.run
      BY <1>8, <1>9, <2>3 DEF Grows
    <3> QED BY <1>9, <2>1, <3>1, <3>2 DEF Once
  <2> QED BY <2>2, <2>3
<1>10. ASSUME NEW x \in e.milestones, NEW y \in e.milestones, x.of = y.of, x # y
       PROVE  \E row \in e.runs : row.id = x.of /\ row.run \in S
  <2> DEFINE In(m, rows) == \E l \in rows : l.id = m.id /\ l.of = m.of
             Exempt(m) == \E row \in e.runs : row.id = m.of /\ row.run \in S
  <2>1. x.id # y.id
    BY <1>2, <1>10 DEF Distinct
  <2>2. ASSUME In(x, d.milestones), In(y, d.milestones) PROVE Exempt(x)
    <3>1. PICK a \in d.milestones, b \in d.milestones :
            a.id = x.id /\ a.of = x.of /\ b.id = y.id /\ b.of = y.of
      BY <2>2
    <3>2. PICK row \in d.runs : row.id = x.of /\ row.run \in S
      BY <1>10, <2>1, <3>1 DEF Once
    <3>3. PICK z \in e.runs : z.id = row.id /\ z.run = row.run
      BY <1>5
    <3> QED BY <3>2, <3>3
  <2>3. ASSUME In(x, f.milestones), In(y, f.milestones) PROVE Exempt(x)
    <3>1. PICK a \in f.milestones, b \in f.milestones :
            a.id = x.id /\ a.of = x.of /\ b.id = y.id /\ b.of = y.of
      BY <2>3
    <3>2. Once(f, S)
      BY DEF Apart
    <3>3. PICK row \in f.runs : row.id = x.of /\ row.run \in S
      BY <1>10, <2>1, <3>1, <3>2 DEF Once
    <3>4. PICK z \in e.runs : z.id = row.id /\ z.run = row.run
      BY <1>5
    <3> QED BY <3>3, <3>4
  <2>4. ASSUME NEW m \in d.milestones, ~In(m, f.milestones),
               NEW l \in f.milestones, ~In(l, d.milestones), l.of = m.of
        PROVE  \E row \in d.runs : row.id = m.of /\ row.run \in S
    <3>1. PICK a \in d.runs : a.id = m.of /\ (a.run \notin R \/ a.run \in S)
      BY <2>4 DEF Apart
    <3>2. PICK b \in f.runs : b.id = l.of /\ b.run \in R
      BY <2>4 DEF Apart
    <3>3. a.run = b.run
      BY <1>3, <2>4, <3>1, <3>2
    <3> QED BY <3>1, <3>2, <3>3
  <2>5. ASSUME NEW m \in d.milestones, ~In(m, f.milestones),
               NEW l \in f.milestones, ~In(l, d.milestones), l.of = m.of
        PROVE  Exempt(m) /\ Exempt(l)
    <3>1. PICK row \in d.runs : row.id = m.of /\ row.run \in S
      BY <2>4, <2>5
    <3>2. PICK z \in e.runs : z.id = row.id /\ z.run = row.run
      BY <1>5
    <3> QED BY <2>5, <3>1, <3>2
  <2>6. In(x, d.milestones) /\ x \in f.milestones => In(x, f.milestones)
    OBVIOUS
  <2>7. /\ x \in d.milestones => In(x, d.milestones)
        /\ x \in f.milestones => In(x, f.milestones)
        /\ y \in d.milestones => In(y, d.milestones)
        /\ y \in f.milestones => In(y, f.milestones)
    OBVIOUS
  <2>8. Exempt(y) => Exempt(x)
    BY <1>10
  <2>9. /\ x \in d.milestones /\ ~In(x, f.milestones)
             /\ y \in f.milestones /\ ~In(y, d.milestones) => Exempt(x)
        /\ y \in d.milestones /\ ~In(y, f.milestones)
             /\ x \in f.milestones /\ ~In(x, d.milestones) => Exempt(x)
    <3> HIDE DEF In, Exempt
    <3> QED BY <1>10, <2>5, <2>8
  <2>10. x \in d.milestones \cup f.milestones /\ y \in d.milestones \cup f.milestones
    BY <1>2
  <2> HIDE DEF In, Exempt
  <2>11. Exempt(x)
    BY <2>2, <2>3, <2>7, <2>9, <2>10
  <2> QED BY <2>11 DEF Exempt
<1>11. Once(e, S)
  BY <1>9, <1>10 DEF Once
<1> QED BY <1>7, <1>8, <1>11 DEF e

LEMMA MergeAgrees ==
  ASSUME NEW d \in Tables, NEW f \in Tables, NEW g, Tabled(d), Tabled(f),
         Agree(d, g), Agree(f, g)
  PROVE  Agree(Merge(d, f), g)
<1> DEFINE e == Merge(d, f)
<1>1. /\ e.runs = Latest(d.runs, f.runs)
      /\ e.milestones = Latest(d.milestones, f.milestones)
      /\ Distinct(d.runs) /\ Distinct(f.runs)
      /\ Distinct(d.milestones) /\ Distinct(f.milestones)
  BY Merged
<1> HIDE DEF e
<1>2. e.runs \subseteq d.runs \cup f.runs /\ e.milestones \subseteq d.milestones \cup f.milestones
  BY <1>1, LatestOfBoth
<1>3. Agree(e, g)
  BY <1>2 DEF Agree
<1> QED BY <1>3 DEF e

LEMMA ScriptEmits ==
  ASSUME setup \in Setups, NEW i \in DOMAIN Script, Script[i].does = "emit"
  PROVE  Script[i].what \in Kinds /\ (Script[i].what = "run_started" => i = 1)
<1>1. CASE setup.audit
  <2>1. DOMAIN Script = 1 .. 11
    BY <1>1, WithTrail
  <2>2. \/ i = 1 \/ i = 2 \/ i = 3 \/ i = 4 \/ i = 5 \/ i = 6 \/ i = 7
        \/ i = 8 \/ i = 9 \/ i = 10 \/ i = 11
    BY <2>1
  <2>3. i \in {1, 4, 6, 7, 9, 10}
    BY <1>1, <2>2, WithTrail
  <2>4. /\ Script[1].what = "run_started" /\ Script[4].what = "milestone_started"
        /\ Script[6].what = "phase_started" /\ Script[7].what = "phase_completed"
        /\ Script[9].what = "milestone_completed" /\ Script[10].what = "run_completed"
    BY <1>1 DEF Script, Emits
  <2> QED BY <2>3, <2>4 DEF Kinds
<1>2. CASE ~setup.audit
  <2>1. i \in 1 .. 6
    BY <1>2, WithoutTrail
  <2>2. /\ Script[1].what = "run_started" /\ Script[2].what = "milestone_started"
        /\ Script[3].what = "phase_started" /\ Script[4].what = "phase_completed"
        /\ Script[5].what = "milestone_completed" /\ Script[6].what = "run_completed"
    BY <1>2 DEF Script, Emits
  <2> QED BY <2>1, <2>2 DEF Kinds
<1> QED BY <1>1, <1>2

Numbered ==
  /\ \A i \in DOMAIN telemetry.lines : telemetry.lines[i].run <= run
  /\ \A c \in Commands : \A r \in RunsOf(sync[c]) : r <= run
  /\ \A x \in db.runs : x.run <= run
  /\ \A i \in DOMAIN queue : queue[i].run = run
  /\ \A i \in DOMAIN batch : batch[i].run = run

StartsFirst ==
  /\ step = 1 => queue = <<>> /\ batch = <<>>
  /\ \A i \in DOMAIN queue : queue[i].kind = "run_started" => i = 1 /\ batch = <<>>
  /\ \A i \in DOMAIN batch : batch[i].kind = "run_started" => i = 1

(* A run that no sync has met alive files its rows by itself.              *)
Alone ==
  Live /\ run \notin shared =>
    /\ \A c \in Commands : run \notin RunsOf(sync[c])
    /\ known.milestone = NoRow => Quiet(db, run)
    /\ step = 1 \/ Starts(queue) \/ Starts(batch) => Absent(db, run)

(* What two syncs have read, each may be filing.                           *)
Overlaps ==
  \A c, d \in Commands :
    c # d /\ sync[c] # NoSync /\ sync[d] # NoSync => RunsOf(sync[c]) \subseteq shared

Filings ==
  /\ \A c \in Commands :
       filed[c] # Unfiled => Apart(db, filed[c], RunsOf(sync[c]), shared)
  /\ \A c, d \in Commands :
       filed[c] # Unfiled /\ filed[d] # Unfiled => Agree(filed[c], filed[d])

Rows == /\ Tabled(db) /\ Knows(db, known, run) /\ Once(db, shared)
        /\ Numbered /\ StartsFirst /\ Alone /\ Overlaps /\ Filings

LEMMA NowIsAnEvent ==
  ASSUME TypeOK, Does("emit")
  PROVE  Now \in Events /\ Now.run = run /\ Now.kind \in Kinds
         /\ (Now.kind = "run_started" => step = 1)
<1>1. Script[step].what \in Kinds /\ (Script[step].what = "run_started" => step = 1)
  BY ScriptEmits DEF TypeOK, RunTyped, Does
<1> QED BY <1>1 DEF Now, Event, Events, TypeOK, RunTyped

LEMMA Constants ==
  MaxRuns \in Nat /\ MaxQueue \in Nat /\ MaxEvents \in Nat
  BY RecordsAssumption

Linting == Event(Standalone, "spec_lint_completed")

LEMMA OfNoRun ==
  /\ Garbage \in Events /\ Garbage.run = 0 /\ Garbage.kind = "garbage"
  /\ Linting \in Events /\ Linting.run = 0 /\ Linting.kind = "spec_lint_completed"
  /\ NoSync \in Seq(Events) /\ RunsOf(NoSync) = {0}
<1>1. /\ Garbage \in Events /\ Garbage.run = 0 /\ Garbage.kind = "garbage"
      /\ Linting \in Events /\ Linting.run = 0 /\ Linting.kind = "spec_lint_completed"
  BY Constants DEF Garbage, Event, Events, Standalone, Linting
<1>2. NoSync \in Seq(Events) /\ DOMAIN NoSync = {1} /\ NoSync[1] = Garbage
  BY <1>1 DEF NoSync
<1>3. RunsOf(NoSync) = {0}
  BY <1>1, <1>2 DEF RunsOf
<1> QED BY <1>1, <1>2, <1>3

(* The audit trail has nothing to do with the rest.                        *)
Audited == \E c \in Commands : AuditLoad(c) \/ AuditAppend(c) \/ AuditTear(c)

LEMMA AuditLeaves ==
  Audited => UNCHANGED <<telemetry, run, step, setup, queue, batch, known, db,
                         sync, filed, fresh, refused, shared>>
  BY DEF Audited, AuditLoad, AuditAppend, AuditTear, runVars, writerVars, syncVars

(* One line at most, and whose it is.                                      *)
LEMMA LinesMove ==
  ASSUME TypeOK, [Next]_vars
  PROVE  \/ UNCHANGED telemetry
         \/ \E e \in Events :
              /\ e = Garbage \/ (e = Now /\ Emit) \/ (e = Linting /\ LintSpec)
              /\ telemetry'.lines = telemetry.lines \/ telemetry'.lines = Append(telemetry.lines, e)
              /\ telemetry' \in Files(Events)
<1>1. telemetry \in Files(Events) /\ Garbage \in Events /\ Linting \in Events
  BY OfNoRun DEF TypeOK, FilesTyped
<1>2. ASSUME NEW e \in Events, telemetry' = Line(telemetry, e)
      PROVE  /\ telemetry'.lines = telemetry.lines \/ telemetry'.lines = Append(telemetry.lines, e)
             /\ telemetry' \in Files(Events)
  <2>1. CASE telemetry.torn
    BY <1>1, <1>2, <2>1, Appended
  <2>2. CASE ~telemetry.torn
    BY <1>1, <1>2, <2>2, Appended
  <2> QED BY <2>1, <2>2
<1>3. ASSUME telemetry' = Tear(telemetry, Garbage)
      PROVE  /\ \/ telemetry'.lines = telemetry.lines
                \/ telemetry'.lines = Append(telemetry.lines, Garbage)
             /\ telemetry' \in Files(Events)
  <2>1. Append(telemetry.lines, Garbage) \in Seq(Events)
    BY <1>1 DEF Files
  <2> QED BY <1>1, <1>3, <2>1 DEF Tear, Files
<1>4. CASE Emit
  <2>1. Now \in Events
    BY <1>4, NowIsAnEvent DEF Emit
  <2>2. \/ telemetry' = Line(telemetry, Now) \/ UNCHANGED telemetry
        \/ telemetry' = Tear(telemetry, Garbage)
    BY <1>4 DEF Emit
  <2> QED BY <1>1, <1>2, <1>3, <1>4, <2>1, <2>2
<1>5. CASE LintSpec
  <2>1. telemetry' = Line(telemetry, Linting) \/ telemetry' = Tear(telemetry, Garbage)
    BY <1>5 DEF LintSpec, Linting
  <2> QED BY <1>1, <1>2, <1>3, <1>5, <2>1
<1>6. CASE CrashInLine
  <2>1. telemetry' = telemetry \/ telemetry' = Tear(telemetry, Garbage)
    BY <1>6 DEF CrashInLine
  <2> QED BY <1>1, <1>3, <2>1
<1>7. CASE Audited
  BY <1>7, AuditLeaves
<1> QED
  BY <1>4, <1>5, <1>6, <1>7 DEF Next, Command, vars, Start, Load, AppendEntry, TakeBatch,
     CommitBatch, LoseBatch, Close, Crash, SyncRead, SyncFile, SyncCommit, SyncFails, Audited

LEMMA TypeInitial == Init => TypeOK
<1> SUFFICES ASSUME Init PROVE TypeOK
  OBVIOUS
<1>1. FilesTyped
  BY DEF Init, FilesTyped, Files, NoHash, Unbroken, Unloaded
<1>2. step = 0 /\ setup \in Setups /\ run = 0 /\ queue = <<>> /\ batch = <<>>
      /\ known = NoRows
  BY DEF Init
<1>3. Closing \in Nat
  BY <1>2, TheScript DEF Closing
<1>4. RunTyped
  BY <1>2, <1>3, Constants DEF RunTyped, Live
<1>5. NoTables \in Tables /\ NoRows \in Known
  BY DEF NoTables, Tables, NoRows, Known, NoRow
<1>6. NoSync \in Seq(Events)
  BY OfNoRun
<1>7. db = NoTables /\ known = NoRows /\ sync = [c \in Commands |-> NoSync] /\ shared = {}
      /\ events = 0 /\ filed = [c \in Commands |-> Unfiled] /\ refused = {} /\ fresh = FALSE
  BY DEF Init
<1>8. sync \in [Commands -> Seq(Events)] /\ \A c \in Commands : sync[c] = NoSync
  BY <1>6, <1>7
<1>9. filed \in [Commands -> Tables \cup {Unfiled}] /\ \A c \in Commands : filed[c] = Unfiled
  BY <1>7
<1>10. 0 \in 0 .. MaxEvents
  BY Constants
<1>11. RowsTyped
  BY <1>5, <1>7, <1>8, <1>9, <1>10 DEF RowsTyped
<1> QED BY <1>1, <1>4, <1>11 DEF TypeOK

LEMMA FilesStep == TypeOK /\ Chain /\ [Next]_vars => FilesTyped'
<1> SUFFICES ASSUME TypeOK, Chain, [Next]_vars PROVE FilesTyped'
  OBVIOUS
<1>1. telemetry \in Files(Events) /\ Trails
  BY DEF TypeOK, FilesTyped, Trails
<1>2. Trails' /\ audit' \in Files(Int) /\ broken' \in Int
  BY <1>1, TrailTyped, ChainStep DEF Chain, Chained
<1>3. telemetry' \in Files(Events)
  BY <1>1, LinesMove
<1> QED BY <1>2, <1>3 DEF FilesTyped, Trails

LEMMA RunStep == TypeOK /\ [Next]_vars => RunTyped'
<1> SUFFICES ASSUME TypeOK, [Next]_vars PROVE RunTyped'
  OBVIOUS
<1>1. /\ run \in 0 .. MaxRuns /\ step \in 0 .. Closing /\ (Live => run > 0)
      /\ setup \in Setups
      /\ queue \in Seq(Events) /\ Len(queue) <= MaxQueue /\ batch \in Seq(Events)
      /\ Live \/ (queue = <<>> /\ batch = <<>> /\ known = NoRows)
  BY DEF TypeOK, RunTyped
<1>2. /\ Closing \in Nat /\ Closing >= 1 /\ DOMAIN Script = 1 .. Closing - 1
      /\ MaxRuns \in Nat /\ MaxQueue \in Nat
  BY <1>1, TheScript, Constants DEF Closing
<1>3. UNCHANGED setup
  BY AuditLeaves DEF Next, Command, Audited, vars, runVars, Start, Emit, Load, AppendEntry,
     TakeBatch, CommitBatch, LoseBatch, Close, Crash, CrashInLine, LintSpec, SyncRead,
     SyncFile, SyncCommit, SyncFails
<1>4. Closing' = Closing
  BY <1>3 DEF Closing, Script
<1>5. CASE Start
  BY <1>1, <1>2, <1>3, <1>4, <1>5 DEF Start, RunTyped, Live, writerVars
<1>6. CASE Emit \/ Load \/ AppendEntry
  <2>1. step \in 1 .. Closing - 1 /\ step' = step + 1 /\ UNCHANGED <<run, batch, known>>
    BY <1>2, <1>6 DEF Emit, Load, AppendEntry, Does, writerVars
  <2>2. queue' \in Seq(Events) /\ Len(queue') <= MaxQueue
    <3>1. CASE Emit
      <4>1. Now \in Events
        BY <3>1, NowIsAnEvent DEF Emit
      <4> QED BY <1>1, <1>2, <3>1, <4>1 DEF Emit
    <3>2. CASE UNCHANGED queue
      BY <1>1, <3>2
    <3> QED BY <1>6, <3>1, <3>2 DEF Load, AppendEntry, writerVars
  <2> QED BY <1>1, <1>2, <1>3, <1>4, <2>1, <2>2 DEF RunTyped, Live
<1>7. CASE TakeBatch
  <2>1. Live /\ batch' = queue /\ queue' = <<>> /\ UNCHANGED <<run, step, known>>
    BY <1>7 DEF TakeBatch, runVars
  <2>2. queue' \in Seq(Events) /\ Len(queue') = 0
    BY <2>1
  <2> QED BY <1>1, <1>2, <1>3, <1>4, <2>1, <2>2 DEF RunTyped, Live
<1>8. CASE CommitBatch \/ LoseBatch
  <2>1. Live /\ batch' = <<>> /\ UNCHANGED <<run, step, queue>>
    BY <1>8 DEF CommitBatch, LoseBatch, runVars
  <2>2. batch' \in Seq(Events)
    BY <2>1
  <2> QED BY <1>1, <1>3, <1>4, <2>1, <2>2 DEF RunTyped, Live
<1>9. CASE Close \/ Crash \/ CrashInLine
  <2>1. step' = 0 /\ queue' = <<>> /\ batch' = <<>> /\ known' = NoRows /\ UNCHANGED run
    BY <1>9 DEF Close, Crash, CrashInLine, Exit
  <2>2. queue' \in Seq(Events) /\ batch' \in Seq(Events) /\ Len(queue') = 0
    BY <2>1
  <2> QED BY <1>1, <1>2, <1>3, <1>4, <2>1, <2>2 DEF RunTyped, Live
<1>10. ASSUME UNCHANGED <<run, step, queue, batch, known>> PROVE RunTyped'
  BY <1>1, <1>3, <1>4, <1>10 DEF RunTyped, Live
<1>11. CASE Audited
  BY <1>10, <1>11, AuditLeaves
<1> QED
  BY <1>5, <1>6, <1>7, <1>8, <1>9, <1>10, <1>11 DEF Next, Command, Audited, vars, runVars,
     writerVars, LintSpec, SyncRead, SyncFile, SyncCommit, SyncFails

(* What a batch of the live run makes of the rows.                         *)
LEMMA BatchFiled ==
  ASSUME TypeOK, Rows, Live
  PROVE  LET s == [db |-> db, known |-> known]
             t == WriteAll(db, known, batch)
         IN  /\ Filed(s, run) /\ Keeps(s, t, run) /\ t.db \in Tables /\ t.known \in Known
             /\ Once(t.db, shared)
             /\ run \notin shared => (t.known.milestone = NoRow => Quiet(t.db, run))
<1> DEFINE s == [db |-> db, known |-> known]
           t == WriteAll(db, known, batch)
<1>1. s \in Filing /\ s.db = db /\ s.known = known
  BY DEF TypeOK, RowsTyped, Filing
<1>2. Filed(s, run)
  BY <1>1 DEF Filed, Rows
<1>3. batch \in Seq(Events)
  BY DEF TypeOK, RunTyped
<1>4. /\ \A i \in DOMAIN batch : batch[i].run = run
      /\ \A i \in DOMAIN batch : batch[i].kind = "run_started" => i = 1
  BY DEF Rows, Numbered, StartsFirst
<1>5. run \in shared \/ ~Starts(batch) \/ Absent(db, run)
  BY DEF Rows, Alone
<1>6. Settled(s, run, shared)
  BY <1>1 DEF Settled, Rows, Alone
<1>7. Keeps(s, t, run) /\ Settled(t, run, shared)
  BY <1>2, <1>3, <1>4, <1>5, <1>6, BatchKeeps
<1> HIDE DEF s, t
<1>8. t.db \in Tables /\ t.known \in Known
  BY <1>7, Parts DEF Keeps, Filed
<1>9. Once(t.db, shared) /\ (run \notin shared => (t.known.milestone = NoRow => Quiet(t.db, run)))
  BY <1>7 DEF Settled
<1> QED BY <1>2, <1>7, <1>8, <1>9 DEF s, t

LEMMA KnowsNothing ==
  ASSUME NEW d, NEW r
  PROVE  Knows(d, NoRows, r)
<1>1. NoRows \in Known /\ NoRows.run = NoRow /\ NoRows.milestone = NoRow
  BY DEF NoRows, Known, NoRow
<1> QED BY <1>1 DEF Knows

(* A transaction that is rolled back, or under way, leaves nothing but the *)
(* ids it has used up.                                                     *)
LEMMA IdsUsed ==
  ASSUME NEW d \in Tables, NEW e \in Tables, Tabled(d), Tabled(e), Fresh(d, e)
  PROVE  LET f == [d EXCEPT !.next = e.next]
         IN  /\ f \in Tables /\ f.next = e.next /\ SameRows(d, f) /\ Tabled(f)
             /\ Grows(d, f, {}) /\ Fresh(d, f)
<1> DEFINE f == [d EXCEPT !.next = e.next]
<1>1. f \in Tables /\ f.next = e.next /\ SameRows(d, f)
  BY DEF Tables, SameRows
<1> HIDE DEF f
<1>2. ASSUME NEW x \in d.runs \cup d.milestones PROVE x.id < e.next
  <2>1. x.id \in Nat /\ d.next \in Nat /\ e.next \in Nat /\ x.id < d.next /\ d.next <= e.next
    BY DEF Fresh, Tabled, Tables, RunRows, PartRows
  <2> QED BY <2>1
<1>3. Tabled(f)
  BY <1>1, <1>2 DEF Tabled, SameRows
<1>4. Grows(d, f, {}) /\ Fresh(d, f)
  BY <1>1 DEF Grows, Fresh, SameRows
<1> QED BY <1>1, <1>3, <1>4 DEF f

(* What a sync is about to commit, while it is.                            *)
LEMMA SyncFiled ==
  ASSUME TypeOK, Rows, NEW c \in Commands, SyncFile(c)
  PROVE  LET f == filed'[c]
         IN  /\ f \in Tables /\ Tabled(f) /\ Once(f, shared)
             /\ Grows(db, f, RunsOf(sync[c])) /\ Fresh(db, f)
             /\ filed' = [filed EXCEPT ![c] = f]
             /\ db' \in Tables /\ db'.next = f.next /\ SameRows(db, db') /\ Tabled(db')
             /\ Grows(db, db', {}) /\ Fresh(db, db')
<1>1. /\ db \in Tables /\ Tabled(db) /\ Once(db, shared) /\ sync[c] \in Seq(Events)
      /\ filed \in [Commands -> Tables \cup {Unfiled}]
  BY DEF TypeOK, RowsTyped, Rows
<1>2. PICK drop, pick : filed' = [filed EXCEPT ![c] = SyncAll(db, sync[c], pick, drop)]
  BY DEF SyncFile
<1> DEFINE f == SyncAll(db, sync[c], pick, drop)
<1>3. filed'[c] = f
  BY <1>1, <1>2
<1>4. /\ Tabled(f) /\ Grows(db, f, RunsOf(sync[c])) /\ Fresh(db, f) /\ Once(f, shared)
  BY <1>1, SyncAllKeeps
<1>5. db' = [db EXCEPT !.next = f.next]
  BY <1>3 DEF SyncFile
<1>6. filed' = [filed EXCEPT ![c] = f]
  BY <1>2
<1> HIDE DEF f
<1>7. f \in Tables
  BY <1>4 DEF Tabled
<1>8. /\ db' \in Tables /\ db'.next = f.next /\ SameRows(db, db') /\ Tabled(db')
      /\ Grows(db, db', {}) /\ Fresh(db, db')
  BY <1>1, <1>4, <1>5, <1>7, IdsUsed
<1> QED BY <1>3, <1>4, <1>6, <1>7, <1>8

LEMMA SyncCommitted ==
  ASSUME TypeOK, Rows, NEW c \in Commands, SyncCommit(c)
  PROVE  /\ filed[c] \in Tables /\ Tabled(filed[c])
         /\ Apart(db, filed[c], RunsOf(sync[c]), shared) /\ sync[c] # NoSync
         /\ db' = Merge(db, filed[c]) /\ db' \in Tables /\ db'.next = db.next
         /\ Tabled(db') /\ Grows(db, db', RunsOf(sync[c])) /\ Once(db', shared)
<1>1. /\ db \in Tables /\ Tabled(db) /\ Once(db, shared) /\ filed[c] # Unfiled
      /\ filed[c] \in Tables /\ Apart(db, filed[c], RunsOf(sync[c]), shared)
      /\ db' = Merge(db, filed[c]) /\ sync[c] # NoSync
  BY DEF TypeOK, RowsTyped, Rows, Filings, SyncCommit
<1>2. Tabled(filed[c])
  BY <1>1 DEF Apart
<1>3. db' \in Tables /\ db'.next = db.next
  BY <1>1, <1>2, Merged
<1>4. Tabled(db') /\ Grows(db, db', RunsOf(sync[c])) /\ Once(db', shared)
  BY <1>1, MergeKeeps
<1> QED BY <1>1, <1>2, <1>3, <1>4

(* A batch that is rolled back.                                            *)
LEMMA BatchLost ==
  ASSUME TypeOK, Rows, LoseBatch
  PROVE  /\ db' \in Tables /\ SameRows(db, db') /\ Tabled(db')
         /\ Grows(db, db', {}) /\ Fresh(db, db')
<1> DEFINE s == [db |-> db, known |-> known]
           t == WriteAll(db, known, batch)
<1>1. Live /\ db' = [db EXCEPT !.next = t.db.next] /\ db \in Tables /\ Tabled(db)
  BY DEF LoseBatch, TypeOK, RowsTyped, Rows
<1>2. Keeps(s, t, run) /\ t.db \in Tables /\ s.db = db
  BY <1>1, BatchFiled
<1> HIDE DEF s, t
<1>3. Tabled(t.db) /\ Fresh(db, t.db)
  BY <1>2 DEF Keeps, Filed
<1> QED BY <1>1, <1>2, <1>3, IdsUsed

(* Who has changed the rows, if anybody.                                   *)
LEMMA RowsMove ==
  ASSUME TypeOK, Rows, [Next]_vars
  PROVE  \/ UNCHANGED db
         \/ CommitBatch /\ Live
         \/ LoseBatch /\ SameRows(db, db')
         \/ \E c \in Commands : SyncFile(c) \/ SyncCommit(c)
<1>1. CASE LoseBatch
  BY <1>1, BatchLost
<1>2. CASE Audited
  BY <1>2, AuditLeaves
<1> QED
  BY <1>1, <1>2 DEF Next, Command, Audited, vars, Start, Emit, Load, AppendEntry, TakeBatch,
     CommitBatch, Close, Crash, CrashInLine, LintSpec, SyncRead, SyncFails

(* What a sync has read is read by SyncRead, and gone when it ends.        *)
LEMMA SyncsMove ==
  ASSUME TypeOK, [Next]_vars
  PROVE  /\ \/ UNCHANGED sync
            \/ \E c \in Commands :
                 /\ SyncRead(c) /\ UNCHANGED filed
                 /\ sync' = [sync EXCEPT ![c] = Readable(telemetry)]
            \/ \E c \in Commands :
                 /\ SyncCommit(c) \/ SyncFails(c)
                 /\ sync' = [sync EXCEPT ![c] = NoSync]
                 /\ filed' = [filed EXCEPT ![c] = Unfiled]
         /\ UNCHANGED shared \/ \E c \in Commands : SyncRead(c)
         /\ shared \subseteq shared'
         /\ UNCHANGED filed
              \/ \E c \in Commands : SyncFile(c) \/ SyncCommit(c) \/ SyncFails(c)
<1>1. CASE Audited
  BY <1>1, AuditLeaves
<1>2. CASE \E c \in Commands : SyncRead(c) \/ SyncFile(c) \/ SyncCommit(c) \/ SyncFails(c)
  BY <1>2 DEF SyncRead, SyncFile, SyncCommit, SyncFails
<1> QED
  BY <1>1, <1>2 DEF Next, Command, Audited, vars, syncVars, Start, Emit, Load, AppendEntry,
     TakeBatch, CommitBatch, LoseBatch, Close, Crash, CrashInLine, LintSpec

LEMMA RowsTypedStep == TypeOK /\ Rows /\ [Next]_vars => RowsTyped'
<1> SUFFICES ASSUME TypeOK, Rows, [Next]_vars PROVE RowsTyped'
  OBVIOUS
<1>1. /\ known \in Known /\ db \in Tables /\ sync \in [Commands -> Seq(Events)]
      /\ filed \in [Commands -> Tables \cup {Unfiled}]
      /\ \A c \in Commands : filed[c] # Unfiled => sync[c] # NoSync
      /\ fresh \in BOOLEAN /\ refused \subseteq Events /\ shared \subseteq 0 .. MaxRuns
      /\ events \in 0 .. MaxEvents /\ telemetry.lines \in Seq(Events)
      /\ NoRows \in Known /\ NoSync \in Seq(Events) /\ MaxEvents \in Nat
      /\ run \in 0 .. MaxRuns /\ MaxRuns \in Nat
  <2>1. NoRows \in Known
    BY DEF NoRows, Known, NoRow
  <2> QED BY <2>1, OfNoRun, Constants DEF TypeOK, RowsTyped, FilesTyped, Files, RunTyped
<1>2. events' \in 0 .. MaxEvents
  <2>1. events' = events \/ Eventful
    BY DEF Next, Command, vars, Start, Emit, Load, AppendEntry, TakeBatch, CommitBatch,
       LoseBatch, Close, Crash, CrashInLine, LintSpec, AuditLoad, AuditAppend, AuditTear,
       SyncRead, SyncFile, SyncCommit, SyncFails
  <2> QED BY <1>1, <2>1 DEF Eventful
<1>3. fresh' \in BOOLEAN
  <2>1. CASE Audited
    BY <1>1, <2>1, AuditLeaves
  <2> QED
    BY <1>1, <2>1 DEF Next, Command, Audited, vars, syncVars, Start, Emit, Load, AppendEntry,
       TakeBatch, CommitBatch, LoseBatch, Close, Crash, CrashInLine, LintSpec, SyncRead,
       SyncFile, SyncCommit, SyncFails
<1>4. refused' \subseteq Events
  <2>1. CASE \E c \in Commands : SyncFile(c)
    <3>1. PICK c \in Commands : SyncFile(c)
      BY <2>1
    <3>2. PICK drop \in SUBSET {e \in Range(sync[c]) : e.kind \in Refusable} :
            refused' = refused \cup drop
      BY <3>1 DEF SyncFile
    <3>3. Range(sync[c]) \subseteq Events
      BY <1>1 DEF Range
    <3> QED BY <1>1, <3>2, <3>3
  <2>2. CASE Audited
    BY <1>1, <2>2, AuditLeaves
  <2> QED
    BY <1>1, <2>1, <2>2 DEF Next, Command, Audited, vars, syncVars, Start, Emit, Load,
       AppendEntry, TakeBatch, CommitBatch, LoseBatch, Close, Crash, CrashInLine, LintSpec,
       SyncRead, SyncCommit, SyncFails
<1>5. shared' \subseteq 0 .. MaxRuns
  <2>1. CASE \E c \in Commands : SyncRead(c)
    <3>1. shared' \subseteq shared \cup {run} \cup 0 .. run
      BY <2>1 DEF SyncRead
    <3> QED BY <1>1, <3>1
  <2> QED BY <1>1, <2>1, SyncsMove
<1>6. sync' \in [Commands -> Seq(Events)]
  <2>1. Readable(telemetry) \in Seq(Events)
    BY <1>1, FoldOfLines
  <2> QED BY <1>1, <2>1, SyncsMove
<1>7. filed' \in [Commands -> Tables \cup {Unfiled}]
  <2>1. ASSUME NEW c \in Commands, SyncFile(c) PROVE filed' \in [Commands -> Tables \cup {Unfiled}]
    <3>1. filed'[c] \in Tables /\ filed' = [filed EXCEPT ![c] = filed'[c]]
      BY <2>1, SyncFiled
    <3> DEFINE f == filed'[c]
    <3> HIDE DEF f
    <3> QED BY <1>1, <3>1 DEF f
  <2>2. ASSUME NEW c \in Commands, SyncCommit(c) \/ SyncFails(c)
        PROVE  filed' \in [Commands -> Tables \cup {Unfiled}]
    BY <1>1, <2>2 DEF SyncCommit, SyncFails
  <2> QED BY <1>1, <2>1, <2>2, SyncsMove
<1>8. ASSUME NEW c \in Commands, filed'[c] # Unfiled PROVE sync'[c] # NoSync
  <2>1. CASE UNCHANGED filed
    <3>1. sync[c] # NoSync
      BY <1>1, <1>8, <2>1
    <3>2. ASSUME NEW d \in Commands, SyncRead(d) PROVE d # c
      BY <3>1, <3>2 DEF SyncRead
    <3>3. ASSUME NEW d \in Commands, SyncCommit(d) \/ SyncFails(d),
                 filed' = [filed EXCEPT ![d] = Unfiled]
          PROVE  d # c
      BY <1>1, <1>8, <3>3
    <3> QED BY <1>1, <3>1, <3>2, <3>3, SyncsMove
  <2>2. ASSUME NEW d \in Commands, SyncFile(d) PROVE sync'[c] # NoSync
    <3>1. sync' = sync /\ sync[d] # NoSync
      BY <2>2 DEF SyncFile
    <3>2. filed' = [filed EXCEPT ![d] = filed'[d]]
      BY <2>2, SyncFiled
    <3>3. c # d => filed'[c] = filed[c]
      <4> DEFINE f == filed'[d]
      <4> HIDE DEF f
      <4> QED BY <1>1, <3>2 DEF f
    <3> QED BY <1>1, <1>8, <3>1, <3>3
  <2>3. ASSUME NEW d \in Commands, SyncCommit(d) \/ SyncFails(d) PROVE sync'[c] # NoSync
    <3>1. sync' = [sync EXCEPT ![d] = NoSync] /\ filed' = [filed EXCEPT ![d] = Unfiled]
      BY <2>3 DEF SyncCommit, SyncFails
    <3>2. c # d
      BY <1>1, <1>8, <3>1
    <3> QED BY <1>1, <1>8, <3>1, <3>2
  <2> QED BY <2>1, <2>2, <2>3, SyncsMove
<1>9. known' \in Known /\ db' \in Tables
  <2>1. CASE CommitBatch
    <3>1. Live /\ db' = WriteAll(db, known, batch).db /\ known' = WriteAll(db, known, batch).known
      BY <2>1 DEF CommitBatch
    <3> QED BY <3>1, BatchFiled
  <2>2. CASE LoseBatch
    BY <1>1, <2>2, BatchLost DEF LoseBatch
  <2>3. ASSUME NEW c \in Commands, SyncFile(c) PROVE known' \in Known /\ db' \in Tables
    BY <1>1, <2>3, SyncFiled DEF SyncFile, writerVars
  <2>4. ASSUME NEW c \in Commands, SyncCommit(c) PROVE known' \in Known /\ db' \in Tables
    BY <1>1, <2>4, SyncCommitted DEF SyncCommit, writerVars
  <2>5. CASE Audited
    BY <1>1, <2>5, AuditLeaves
  <2>6. ASSUME UNCHANGED db, known' = known \/ known' = NoRows
        PROVE  known' \in Known /\ db' \in Tables
    BY <1>1, <2>6
  <2> QED
    BY <2>1, <2>2, <2>3, <2>4, <2>5, <2>6 DEF Next, Command, Audited, vars, writerVars, Start,
       Emit, Load, AppendEntry, TakeBatch, Close, Crash, CrashInLine, Exit, LintSpec,
       SyncRead, SyncFails
<1> QED BY <1>2, <1>3, <1>4, <1>5, <1>6, <1>7, <1>8, <1>9 DEF RowsTyped

Hanging == Tabled(db) /\ Knows(db, known, run) /\ Once(db, shared)

LEMMA HangingStep == TypeOK /\ Rows /\ [Next]_vars => Hanging'
<1> SUFFICES ASSUME TypeOK, Rows, [Next]_vars PROVE Hanging'
  OBVIOUS
<1>1. /\ Tabled(db) /\ Knows(db, known, run) /\ Once(db, shared) /\ db \in Tables
      /\ Live \/ known = NoRows
  BY DEF Rows, TypeOK, RunTyped, RowsTyped
<1>2. ASSUME UNCHANGED <<db, shared>>, Knows(db, known', run') PROVE Hanging'
  BY <1>1, <1>2 DEF Hanging
<1>3. CASE Start
  BY <1>1, <1>2, <1>3, KnowsNothing DEF Start, writerVars
<1>4. CASE CommitBatch
  <2> DEFINE s == [db |-> db, known |-> known]
             t == WriteAll(db, known, batch)
  <2>1. Live /\ db' = t.db /\ known' = t.known /\ UNCHANGED <<run, shared>>
    BY <1>4 DEF CommitBatch, runVars, syncVars
  <2>2. Keeps(s, t, run) /\ Once(t.db, shared)
    BY <2>1, BatchFiled
  <2> HIDE DEF s, t
  <2> QED BY <2>1, <2>2 DEF Hanging, Keeps, Filed
<1>5. CASE LoseBatch
  <2>1. UNCHANGED <<known, run, shared>>
    BY <1>5 DEF LoseBatch, runVars, syncVars
  <2>2. SameRows(db, db') /\ Tabled(db')
    BY <1>5, BatchLost
  <2> QED BY <1>1, <2>1, <2>2 DEF Hanging, Knows, Once, SameRows
<1>6. ASSUME NEW c \in Commands, SyncRead(c) PROVE Hanging'
  <2>1. UNCHANGED <<db, known, run>> /\ shared \subseteq shared'
    BY <1>6 DEF SyncRead, runVars, writerVars
  <2>2. Once(db, shared')
    BY <1>1, <2>1, OnceAmongMore
  <2> QED BY <1>1, <2>1, <2>2 DEF Hanging
<1>7. ASSUME NEW c \in Commands, SyncFile(c) PROVE Hanging'
  <2>1. UNCHANGED <<known, run, shared>>
    BY <1>7 DEF SyncFile, runVars, writerVars
  <2>2. SameRows(db, db') /\ Tabled(db')
    BY <1>7, SyncFiled
  <2> QED BY <1>1, <2>1, <2>2 DEF Hanging, Knows, Once, SameRows
<1>8. ASSUME NEW c \in Commands, SyncCommit(c) PROVE Hanging'
  <2>1. Tabled(db') /\ Grows(db, db', RunsOf(sync[c])) /\ Once(db', shared)
    BY <1>8, SyncCommitted
  <2>2. Knows(db', known, run)
    BY <1>1, <2>1, GrowthKeeps
  <2>3. UNCHANGED <<known, run, shared>>
    BY <1>8 DEF SyncCommit, runVars, writerVars
  <2> QED BY <2>1, <2>2, <2>3 DEF Hanging
<1>9. CASE Close \/ Crash \/ CrashInLine
  BY <1>2, <1>9, KnowsNothing DEF Close, Crash, CrashInLine, Exit, syncVars
<1>10. ASSUME UNCHANGED <<db, shared, known, run>> PROVE Hanging'
  BY <1>1, <1>2, <1>10
<1>11. CASE Audited
  BY <1>10, <1>11, AuditLeaves
<1> QED
  BY <1>3, <1>4, <1>5, <1>6, <1>7, <1>8, <1>9, <1>10, <1>11 DEF Next, Command, Audited, vars,
     runVars, writerVars, syncVars, Emit, Load, AppendEntry, TakeBatch, LintSpec, SyncFails

(* Lines of runs so far, and what is read of them.                         *)
LEMMA ReadsRunsSoFar ==
  ASSUME TypeOK, Numbered
  PROVE  \A r \in RunsOf(Readable(telemetry)) : r <= run
<1> DEFINE E == {e \in Events : e.run <= run}
<1>1. /\ \A i \in DOMAIN telemetry.lines : telemetry.lines[i].run <= run
      /\ telemetry.lines \in Seq(Events)
  BY DEF Numbered, TypeOK, FilesTyped, Files
<1>2. telemetry.lines \in Seq(E)
  <2>1. \A i \in 1 .. Len(telemetry.lines) : telemetry.lines[i] \in E
    BY <1>1
  <2>2. /\ Len(telemetry.lines) \in Nat
        /\ telemetry.lines = [i \in 1 .. Len(telemetry.lines) |-> telemetry.lines[i]]
    BY <1>1
  <2> HIDE DEF E
  <2> QED BY <2>1, <2>2
<1>3. Readable(telemetry) \in Seq(E)
  <2> HIDE DEF E
  <2> QED BY <1>2, FoldOfLines
<1>4. \A i \in DOMAIN Readable(telemetry) : Readable(telemetry)[i] \in E
  <2> HIDE DEF E
  <2> QED BY <1>3
<1> QED BY <1>4 DEF RunsOf

LEMMA NumberedStep == TypeOK /\ Rows /\ [Next]_vars => Numbered'
<1> SUFFICES ASSUME TypeOK, Rows, [Next]_vars PROVE Numbered'
  OBVIOUS
<1>1. /\ \A i \in DOMAIN telemetry.lines : telemetry.lines[i].run <= run
      /\ \A c \in Commands : \A r \in RunsOf(sync[c]) : r <= run
      /\ \A x \in db.runs : x.run <= run
      /\ \A i \in DOMAIN queue : queue[i].run = run
      /\ \A i \in DOMAIN batch : batch[i].run = run
      /\ telemetry.lines \in Seq(Events) /\ sync \in [Commands -> Seq(Events)]
      /\ queue \in Seq(Events) /\ batch \in Seq(Events)
      /\ run \in Nat /\ db \in Tables
      /\ Live \/ (queue = <<>> /\ batch = <<>>)
  BY Constants DEF Rows, Numbered, TypeOK, RunTyped, RowsTyped, FilesTyped, Files
<1>2. run' \in Nat /\ run <= run' /\ (~Start => run' = run)
  <2>1. CASE Audited
    BY <1>1, <2>1, AuditLeaves
  <2>2. CASE Start
    BY <1>1, <2>2 DEF Start
  <2>3. ASSUME ~Start, ~Audited PROVE run' = run
    BY <2>3 DEF Next, Command, Audited, vars, runVars, Emit, Load, AppendEntry,
       TakeBatch, CommitBatch, LoseBatch, Close, Crash, CrashInLine, LintSpec, SyncRead,
       SyncFile, SyncCommit, SyncFails
  <2> QED BY <1>1, <2>1, <2>2, <2>3
<1>3. \A i \in DOMAIN telemetry'.lines : telemetry'.lines[i].run <= run'
  <2>1. \A i \in DOMAIN telemetry.lines :
          telemetry.lines[i].run <= run' /\ telemetry.lines[i].run \in Int
    <3>1. \A i \in DOMAIN telemetry.lines : telemetry.lines[i] \in Events
      BY <1>1
    <3>2. \A e \in Events : e.run \in Int
      BY Constants DEF Events
    <3> QED BY <1>1, <1>2, <3>1, <3>2
  <2>2. ASSUME NEW e \in Events, e.run <= run',
               telemetry'.lines = Append(telemetry.lines, e)
        PROVE  \A i \in DOMAIN telemetry'.lines : telemetry'.lines[i].run <= run'
    BY <1>1, <2>1, <2>2
  <2>3. Garbage.run <= run' /\ Linting.run <= run'
    BY <1>2, OfNoRun
  <2>4. Emit => Now.run <= run'
    BY <1>1, <1>2, NowIsAnEvent DEF Emit
  <2>5. CASE UNCHANGED telemetry
    BY <2>1, <2>5
  <2>6. CASE telemetry'.lines = telemetry.lines
    BY <2>1, <2>6
  <2> QED BY <2>2, <2>3, <2>4, <2>5, <2>6, LinesMove
<1>4. \A c \in Commands : \A r \in RunsOf(sync'[c]) : r <= run'
  <2>1. ASSUME NEW c \in Commands, NEW r \in RunsOf(sync[c]) PROVE r <= run'
    <3>1. PICK i \in DOMAIN sync[c] : r = sync[c][i].run
      BY DEF RunsOf
    <3>2. sync[c][i] \in Events
      BY <1>1
    <3>3. r \in Int
      BY <3>1, <3>2, Constants DEF Events
    <3>4. r <= run
      BY <1>1
    <3> QED BY <1>1, <1>2, <3>3, <3>4
  <2>2. \A r \in RunsOf(NoSync) : r <= run'
    BY <1>2, OfNoRun
  <2>3. ASSUME NEW d \in Commands, SyncRead(d) PROVE run' = run
    BY <2>3 DEF SyncRead, runVars
  <2>4. \A r \in RunsOf(Readable(telemetry)) : r <= run
    BY ReadsRunsSoFar DEF Rows
  <2>5. ASSUME NEW c \in Commands
        PROVE  \/ sync'[c] = sync[c] \/ sync'[c] = NoSync
               \/ sync'[c] = Readable(telemetry) /\ run' = run
    BY <1>1, <2>3, SyncsMove
  <2> QED BY <2>1, <2>2, <2>4, <2>5
<1>5. \A x \in db'.runs : x.run <= run'
  <2>1. \A x \in db.runs : x.run <= run' /\ x.run \in Int
    <3>1. \A x \in db.runs : x.run \in Int
      BY <1>1, Constants DEF Tables, RunRows
    <3> QED BY <1>1, <1>2, <3>1
  <2>2. CASE CommitBatch /\ Live
    <3> DEFINE s == [db |-> db, known |-> known]
               t == WriteAll(db, known, batch)
    <3>1. Keeps(s, t, run) /\ s.db = db
      BY <2>2, BatchFiled
    <3>2. db' = t.db /\ run' = run
      BY <2>2 DEF CommitBatch, runVars
    <3> HIDE DEF s, t
    <3> QED BY <1>1, <2>1, <3>1, <3>2 DEF Keeps, Grows
  <2>3. ASSUME NEW c \in Commands, SyncCommit(c) PROVE \A x \in db'.runs : x.run <= run'
    <3>1. Grows(db, db', RunsOf(sync[c])) /\ run' = run
      BY <2>3, SyncCommitted DEF SyncCommit, runVars
    <3> QED BY <1>1, <2>1, <3>1 DEF Grows
  <2>4. ASSUME NEW c \in Commands, SyncFile(c) PROVE \A x \in db'.runs : x.run <= run'
    BY <2>1, <2>4, SyncFiled DEF SameRows
  <2> QED BY <2>1, <2>2, <2>3, <2>4, RowsMove DEF SameRows
<1>6. /\ \A i \in DOMAIN queue' : queue'[i].run = run'
      /\ \A i \in DOMAIN batch' : batch'[i].run = run'
  <2>1. CASE Start
    <3>1. queue' = <<>> /\ batch' = <<>>
      BY <1>1, <2>1 DEF Start, writerVars
    <3> QED BY <3>1
  <2>2. CASE Emit
    <3>1. Now \in Events /\ Now.run = run
      BY <2>2, NowIsAnEvent DEF Emit
    <3>2. run' = run /\ batch' = batch /\ (queue' = queue \/ queue' = Append(queue, Now))
      BY <2>2 DEF Emit
    <3>3. ASSUME queue' = Append(queue, Now), NEW i \in DOMAIN queue'
          PROVE  queue'[i].run = run
      <4>1. i \in DOMAIN queue \/ i = Len(queue) + 1
        BY <1>1, <3>3
      <4>2. CASE i \in DOMAIN queue
        BY <1>1, <3>3, <4>2
      <4>3. CASE i = Len(queue) + 1
        BY <1>1, <3>1, <3>3, <4>3
      <4> QED BY <4>1, <4>2, <4>3
    <3>4. CASE queue' = queue
      BY <1>1, <3>2, <3>4
    <3> QED BY <1>1, <3>2, <3>3, <3>4
  <2>3. CASE TakeBatch
    BY <1>1, <2>3 DEF TakeBatch, runVars
  <2>4. CASE CommitBatch \/ LoseBatch
    BY <1>1, <2>4 DEF CommitBatch, LoseBatch, runVars
  <2>5. CASE Close \/ Crash \/ CrashInLine
    BY <2>5 DEF Close, Crash, CrashInLine, Exit
  <2>6. ASSUME UNCHANGED <<run, queue, batch>>
        PROVE  /\ \A i \in DOMAIN queue' : queue'[i].run = run'
               /\ \A i \in DOMAIN batch' : batch'[i].run = run'
    BY <1>1, <2>6
  <2>7. CASE Audited
    BY <2>6, <2>7, AuditLeaves
  <2> QED
    BY <2>1, <2>2, <2>3, <2>4, <2>5, <2>6, <2>7 DEF Next, Command, Audited, vars, runVars,
       writerVars, Load, AppendEntry, LintSpec, SyncRead, SyncFile, SyncCommit, SyncFails
<1> QED BY <1>3, <1>4, <1>5, <1>6 DEF Numbered

LEMMA StartsFirstStep == TypeOK /\ Rows /\ [Next]_vars => StartsFirst'
<1> SUFFICES ASSUME TypeOK, Rows, [Next]_vars PROVE StartsFirst'
  OBVIOUS
<1>1. /\ step = 1 => queue = <<>> /\ batch = <<>>
      /\ \A i \in DOMAIN queue : queue[i].kind = "run_started" => i = 1 /\ batch = <<>>
      /\ \A i \in DOMAIN batch : batch[i].kind = "run_started" => i = 1
      /\ step \in Nat /\ queue \in Seq(Events) /\ batch \in Seq(Events)
      /\ Live \/ (queue = <<>> /\ batch = <<>>)
  <2>1. Closing \in Nat
    BY TheScript DEF TypeOK, RunTyped, Closing
  <2> QED BY <2>1 DEF Rows, StartsFirst, TypeOK, RunTyped
<1>2. CASE Start
  BY <1>1, <1>2 DEF Start, StartsFirst, writerVars
<1>3. CASE Emit
  <2>1. step \in 1 .. Len(Script) /\ Len(Script) \in Nat
    BY <1>3, TheScript DEF Emit, Does, TypeOK, RunTyped
  <2>2. Now \in Events /\ (Now.kind = "run_started" => step = 1)
    BY <1>3, NowIsAnEvent DEF Emit
  <2>3. step' # 1 /\ batch' = batch /\ ((queue' = queue) \/ (queue' = Append(queue, Now)))
    BY <1>1, <1>3, <2>1 DEF Emit
  <2>4. ASSUME NEW i \in DOMAIN queue', queue'[i].kind = "run_started"
        PROVE  i = 1 /\ batch' = <<>>
    <3>1. CASE queue' = queue
      BY <1>1, <2>3, <2>4, <3>1
    <3>2. CASE queue' = Append(queue, Now)
      <4>1. CASE i \in DOMAIN queue
        BY <1>1, <2>3, <2>4, <3>2, <4>1
      <4>2. CASE i = Len(queue) + 1
        <5>1. queue'[i] = Now
          BY <1>1, <3>2, <4>2
        <5>2. step = 1 /\ Len(queue) = 0
          BY <1>1, <2>2, <2>4, <5>1
        <5> QED BY <1>1, <2>3, <4>2, <5>2
      <4> QED BY <1>1, <3>2, <4>1, <4>2
    <3> QED BY <2>3, <3>1, <3>2
  <2> QED BY <1>1, <2>3, <2>4 DEF StartsFirst
<1>4. CASE Load \/ AppendEntry
  <2>1. step \in 1 .. Len(Script) /\ Len(Script) \in Nat
    BY <1>4, TheScript DEF Load, AppendEntry, Does, TypeOK, RunTyped
  <2>2. step' # 1 /\ UNCHANGED <<queue, batch>>
    BY <1>1, <1>4, <2>1 DEF Load, AppendEntry, writerVars
  <2> QED BY <1>1, <2>2 DEF StartsFirst
<1>5. CASE TakeBatch
  <2>1. batch' = queue /\ queue' = <<>> /\ step' = step /\ queue # <<>>
    BY <1>5 DEF TakeBatch, runVars
  <2> QED BY <1>1, <2>1 DEF StartsFirst
<1>6. CASE CommitBatch \/ LoseBatch
  <2>1. batch' = <<>> /\ UNCHANGED <<step, queue>>
    BY <1>6 DEF CommitBatch, LoseBatch, runVars
  <2> QED BY <1>1, <2>1 DEF StartsFirst
<1>7. CASE Close \/ Crash \/ CrashInLine
  <2>1. batch' = <<>> /\ queue' = <<>> /\ step' = 0
    BY <1>7 DEF Close, Crash, CrashInLine, Exit
  <2> QED BY <2>1 DEF StartsFirst
<1>8. ASSUME UNCHANGED <<step, queue, batch>> PROVE StartsFirst'
  BY <1>1, <1>8 DEF StartsFirst
<1>9. CASE Audited
  BY <1>8, <1>9, AuditLeaves
<1> QED
  BY <1>2, <1>3, <1>4, <1>5, <1>6, <1>7, <1>8, <1>9 DEF Next, Command, Audited, vars, runVars,
     writerVars, LintSpec, SyncRead, SyncFile, SyncCommit, SyncFails

LEMMA AloneStep == TypeOK /\ Rows /\ [Next]_vars => Alone'
<1> SUFFICES ASSUME TypeOK, Rows, [Next]_vars, Live', run' \notin shared'
             PROVE  /\ \A c \in Commands : run' \notin RunsOf(sync'[c])
                    /\ known'.milestone = NoRow => Quiet(db', run')
                    /\ step' = 1 \/ Starts(queue') \/ Starts(batch') => Absent(db', run')
  BY DEF Alone
<1> DEFINE Unsynced == \A c \in Commands : run \notin RunsOf(sync[c])
           Empty == known.milestone = NoRow => Quiet(db, run)
           Begins == step = 1 \/ Starts(queue) \/ Starts(batch)
<1>1. /\ step \in Nat /\ queue \in Seq(Events) /\ batch \in Seq(Events)
      /\ sync \in [Commands -> Seq(Events)] /\ run \in Nat /\ db \in Tables
  <2>1. Closing \in Nat
    BY TheScript DEF TypeOK, RunTyped, Closing
  <2> QED BY <2>1, Constants DEF TypeOK, RunTyped, RowsTyped
<1>2. Live /\ run \notin shared => /\ Unsynced /\ Empty /\ run > 0
                                   /\ Begins => Absent(db, run)
  BY DEF Rows, Alone, TypeOK, RunTyped
<1>3. ASSUME Live, UNCHANGED <<sync, known, db, run, shared>>,
             step' = 1 \/ Starts(queue') \/ Starts(batch') => Begins
      PROVE  Unsynced' /\ Empty' /\ (Begins' => Absent(db, run)')
  BY <1>2, <1>3
<1>4. CASE Start
  <2>1. run' = run + 1 /\ UNCHANGED <<sync, db>>
    BY <1>4 DEF Start
  <2>2. ASSUME NEW c \in Commands PROVE run + 1 \notin RunsOf(sync[c])
    <3>1. \A r \in RunsOf(sync[c]) : r <= run
      BY DEF Rows, Numbered
    <3> QED BY <1>1, <3>1
  <2>3. Absent(db, run + 1)
    <3>1. ASSUME NEW x \in db.runs PROVE x.run # run + 1
      <4>1. x \in RunRows /\ x.run <= run
        BY <1>1 DEF Tables, Rows, Numbered
      <4> QED BY <1>1, <4>1, Constants DEF RunRows
    <3> QED BY <3>1 DEF Absent
  <2>4. Quiet(db, run + 1)
    BY <2>3 DEF Quiet, Absent
  <2> QED BY <2>1, <2>2, <2>3, <2>4
<1>5. CASE Emit
  <2>1. step \in 1 .. Len(Script) /\ Len(Script) \in Nat /\ Live
    BY <1>5, TheScript DEF Emit, Does, TypeOK, RunTyped, Live
  <2>2. Now \in Events /\ (Now.kind = "run_started" => step = 1)
    BY <1>5, NowIsAnEvent DEF Emit
  <2>3. /\ step' # 1 /\ batch' = batch
        /\ (queue' = queue) \/ (queue' = Append(queue, Now))
        /\ UNCHANGED <<sync, known, db, run, shared>>
    BY <1>1, <1>5, <2>1 DEF Emit, syncVars
  <2>4. ASSUME NEW i \in DOMAIN queue', queue'[i].kind = "run_started"
        PROVE  step = 1 \/ Starts(queue)
    <3>1. CASE queue' = queue
      BY <2>4, <3>1 DEF Starts
    <3>2. CASE queue' = Append(queue, Now)
      <4>1. CASE i \in DOMAIN queue
        BY <1>1, <2>4, <3>2, <4>1 DEF Starts
      <4>2. CASE i = Len(queue) + 1
        <5>1. queue'[i] = Now
          BY <1>1, <3>2, <4>2
        <5> QED BY <2>2, <2>4, <5>1
      <4> QED BY <1>1, <3>2, <4>1, <4>2
    <3> QED BY <2>3, <3>1, <3>2
  <2>5. Starts(queue') => Begins
    BY <2>4 DEF Starts
  <2>6. step' = 1 \/ Starts(queue') \/ Starts(batch') => Begins
    BY <2>3, <2>5
  <2> QED BY <1>3, <2>1, <2>3, <2>6
<1>6. CASE Load \/ AppendEntry
  <2>1. step \in 1 .. Len(Script) /\ Len(Script) \in Nat /\ Live
    BY <1>6, TheScript DEF Load, AppendEntry, Does, TypeOK, RunTyped, Live
  <2>2. step' # 1 /\ UNCHANGED <<queue, batch, sync, known, db, run, shared>>
    BY <1>1, <1>6, <2>1 DEF Load, AppendEntry, writerVars, syncVars
  <2> QED BY <1>3, <2>1, <2>2
<1>7. CASE TakeBatch
  <2>1. /\ Live /\ batch' = queue /\ queue' = <<>> /\ step' = step
        /\ UNCHANGED <<sync, known, db, run, shared>>
    BY <1>7 DEF TakeBatch, runVars, syncVars
  <2>2. ~Starts(queue')
    BY <2>1 DEF Starts
  <2>3. Starts(batch') => Starts(queue)
    BY <2>1
  <2> QED BY <1>3, <2>1, <2>2, <2>3
<1>8. CASE CommitBatch
  <2> DEFINE t == WriteAll(db, known, batch)
  <2>1. /\ Live /\ batch # <<>> /\ batch' = <<>> /\ db' = t.db /\ known' = t.known
        /\ UNCHANGED <<run, step, queue, sync, shared>>
    BY <1>8 DEF CommitBatch, runVars, syncVars
  <2>2. t.known.milestone = NoRow => Quiet(t.db, run)
    BY <2>1, BatchFiled
  <2> HIDE DEF t
  <2>3. step # 1 /\ ~Starts(queue)
    BY <2>1 DEF Rows, StartsFirst, Starts
  <2>4. ~Starts(batch')
    BY <2>1 DEF Starts
  <2> QED BY <1>2, <2>1, <2>2, <2>3, <2>4
<1>9. ASSUME SameRows(db, db') PROVE /\ Quiet(db, run) => Quiet(db', run)
                                     /\ Absent(db, run) => Absent(db', run)
  BY <1>9 DEF Quiet, Absent, SameRows
<1>10. CASE LoseBatch
  <2>1. Live /\ batch' = <<>> /\ UNCHANGED <<run, step, queue, sync, shared, known>>
    BY <1>10 DEF LoseBatch, runVars, syncVars
  <2>2. ~Starts(batch')
    BY <2>1 DEF Starts
  <2> QED BY <1>2, <1>9, <1>10, <2>1, <2>2, BatchLost
<1>11. CASE Close \/ Crash \/ CrashInLine
  BY <1>11 DEF Close, Crash, CrashInLine, Exit, Live
<1>12. ASSUME NEW c \in Commands, SyncRead(c) PROVE FALSE
  BY <1>12 DEF SyncRead, Live, runVars
<1>13. ASSUME NEW c \in Commands, SyncFile(c)
       PROVE  Unsynced' /\ Empty' /\ (Begins' => Absent(db, run)')
  <2>1. Live /\ UNCHANGED <<run, step, queue, batch, sync, shared, known>>
    BY <1>13 DEF SyncFile, Live, runVars, writerVars
  <2>2. SameRows(db, db')
    BY <1>13, SyncFiled
  <2> QED BY <1>2, <1>9, <2>1, <2>2
<1>14. ASSUME NEW c \in Commands, SyncCommit(c) \/ SyncFails(c)
       PROVE  Unsynced' /\ Empty' /\ (Begins' => Absent(db, run)')
  <2>1. /\ Live /\ UNCHANGED <<run, step, queue, batch, shared, known>>
        /\ sync' = [sync EXCEPT ![c] = NoSync]
    BY <1>14 DEF SyncCommit, SyncFails, Live, runVars, writerVars
  <2>2. run > 0 /\ run \notin RunsOf(sync[c])
    BY <1>2, <2>1
  <2>3. (Quiet(db, run) => Quiet(db', run)) /\ (Absent(db, run) => Absent(db', run))
    <3>1. CASE SyncCommit(c)
      <4>1. Grows(db, db', RunsOf(sync[c])) /\ Tabled(db')
        BY <3>1, SyncCommitted
      <4> QED BY <2>2, <4>1, GrowthKeeps
    <3>2. CASE SyncFails(c)
      BY <3>2 DEF SyncFails
    <3> QED BY <1>14, <3>1, <3>2
  <2>4. \A d \in Commands : sync'[d] = sync[d] \/ sync'[d] = NoSync
    BY <1>1, <2>1
  <2>5. run \notin RunsOf(NoSync)
    BY <1>1, <2>2, OfNoRun
  <2>6. Unsynced'
    BY <1>2, <2>1, <2>4, <2>5
  <2> QED BY <1>2, <2>1, <2>3, <2>6
<1>15. ASSUME UNCHANGED <<sync, known, db, run, shared, step, queue, batch>>
       PROVE  Unsynced' /\ Empty' /\ (Begins' => Absent(db, run)')
  BY <1>2, <1>15 DEF Live
<1>16. CASE Audited
  BY <1>15, <1>16, AuditLeaves
<1>17. CASE LintSpec \/ UNCHANGED vars
  BY <1>15, <1>17 DEF LintSpec, vars, runVars, writerVars, syncVars
<1>18. ASSUME Audited \/ LintSpec \/ UNCHANGED vars
       PROVE  Unsynced' /\ Empty' /\ (Begins' => Absent(db, run)')
  BY <1>16, <1>17, <1>18
<1>19. ASSUME NEW c \in Commands,
              SyncRead(c) \/ SyncFile(c) \/ SyncCommit(c) \/ SyncFails(c)
       PROVE  Unsynced' /\ Empty' /\ (Begins' => Absent(db, run)')
  BY <1>12, <1>13, <1>14, <1>19
<1>20. \/ Start \/ Emit \/ Load \/ AppendEntry \/ TakeBatch \/ CommitBatch \/ LoseBatch
       \/ Close \/ Crash \/ CrashInLine \/ Audited \/ LintSpec \/ UNCHANGED vars
       \/ \E c \in Commands : SyncRead(c) \/ SyncFile(c) \/ SyncCommit(c) \/ SyncFails(c)
  BY DEF Next, Command, Audited
<1> QED
  BY <1>4, <1>5, <1>6, <1>7, <1>8, <1>10, <1>11, <1>18, <1>19, <1>20

LEMMA OverlapsStep == TypeOK /\ Rows /\ [Next]_vars => Overlaps'
<1> SUFFICES ASSUME TypeOK, Rows, [Next]_vars, NEW c \in Commands, NEW d \in Commands,
                    c # d, sync'[c] # NoSync, sync'[d] # NoSync
             PROVE  RunsOf(sync'[c]) \subseteq shared'
  BY DEF Overlaps
<1>1. /\ sync \in [Commands -> Seq(Events)] /\ shared \subseteq shared' /\ run \in Nat
      /\ sync[c] # NoSync /\ sync[d] # NoSync => RunsOf(sync[c]) \subseteq shared
  BY SyncsMove, Constants DEF TypeOK, RunTyped, RowsTyped, Rows, Overlaps
<1>2. CASE UNCHANGED sync
  BY <1>1, <1>2
<1>3. ASSUME NEW e \in Commands, SyncRead(e), sync' = [sync EXCEPT ![e] = Readable(telemetry)]
      PROVE  RunsOf(sync'[c]) \subseteq shared'
  <2>1. CASE e # c /\ e # d
    BY <1>1, <1>3, <2>1
  <2>2. CASE e = c \/ e = d
    <3>1. Syncing # {}
      BY <1>1, <1>3, <2>2 DEF Syncing
    <3>2. 0 .. run \subseteq shared'
      BY <1>3, <3>1 DEF SyncRead
    <3>3. sync'[c] \in Seq(Events) /\ \A r \in RunsOf(sync'[c]) : r <= run
      <4>1. CASE e = c
        <5>1. Readable(telemetry) \in Seq(Events)
          BY FoldOfLines DEF TypeOK, FilesTyped, Files
        <5> QED BY <1>1, <1>3, <4>1, <5>1, ReadsRunsSoFar DEF Rows
      <4>2. CASE e # c
        BY <1>1, <1>3, <4>2 DEF Rows, Numbered
      <4> QED BY <4>1, <4>2
    <3>4. ASSUME NEW r \in RunsOf(sync'[c]) PROVE r \in 0 .. run
      <4>1. PICK i \in DOMAIN sync'[c] : r = sync'[c][i].run
        BY DEF RunsOf
      <4>2. sync'[c][i] \in Events
        BY <3>3
      <4> QED BY <1>1, <3>3, <4>1, <4>2, Constants DEF Events
    <3> QED BY <3>2, <3>4
  <2> QED BY <2>1, <2>2
<1>4. ASSUME NEW e \in Commands, sync' = [sync EXCEPT ![e] = NoSync]
      PROVE  RunsOf(sync'[c]) \subseteq shared'
  <2>1. e # c /\ e # d
    BY <1>1, <1>4
  <2> QED BY <1>1, <1>4, <2>1
<1> QED BY <1>2, <1>3, <1>4, SyncsMove

LEMMA FilingsStep == TypeOK /\ Rows /\ [Next]_vars => Filings'
<1> SUFFICES ASSUME TypeOK, Rows, [Next]_vars PROVE Filings'
  OBVIOUS
<1> DEFINE R(c) == RunsOf(sync[c])
           Still(c) == Apart(db', filed[c], R(c), shared')
           Aparts == \A c \in Commands :
                       filed'[c] # Unfiled => Apart(db', filed'[c], RunsOf(sync'[c]), shared')
           Agrees == \A c, d \in Commands :
                       filed'[c] # Unfiled /\ filed'[d] # Unfiled => Agree(filed'[c], filed'[d])
<1>1. /\ db \in Tables /\ Tabled(db) /\ sync \in [Commands -> Seq(Events)]
      /\ filed \in [Commands -> Tables \cup {Unfiled}] /\ shared \subseteq shared'
      /\ \A c \in Commands : filed[c] # Unfiled => sync[c] # NoSync
  BY SyncsMove DEF TypeOK, RowsTyped, Rows
<1>2. ASSUME NEW c \in Commands, filed[c] # Unfiled
      PROVE  /\ Apart(db, filed[c], R(c), shared) /\ filed[c] \in Tables
             /\ Tabled(filed[c]) /\ Agree(db, filed[c]) /\ filed[c].next <= db.next
             /\ \A d \in Commands : filed[d] # Unfiled => Agree(filed[c], filed[d])
  BY <1>1, <1>2 DEF Rows, Filings, Apart
<1>3. ASSUME NEW c \in Commands, filed[c] # Unfiled, db' = db PROVE Still(c)
  BY <1>1, <1>2, <1>3, ApartFromMore
<1>4. ASSUME NEW c \in Commands, filed[c] # Unfiled, shared' = shared, NEW Q,
             Grows(db, db', Q), Q \cap R(c) \subseteq shared, db' \in Tables,
             Agree(db', filed[c]), db.next <= db'.next
      PROVE  Still(c)
  <2> HIDE DEF R
  <2> QED BY <1>1, <1>2, <1>4, ApartOn
<1>5. ASSUME NEW c \in Commands, filed[c] # Unfiled, shared' = shared, NEW Q,
             Grows(db, db', Q), Q \cap R(c) \subseteq shared, Tabled(db'), Fresh(db, db')
      PROVE  Still(c)
  <2>1. db' \in Tables /\ db.next <= db'.next
    BY <1>5 DEF Tabled, Fresh
  <2>2. Agree(db', filed[c])
    BY <1>1, <1>2, <1>5, AgreeOn
  <2> QED BY <1>4, <1>5, <2>1, <2>2
<1>6. ASSUME UNCHANGED <<sync, filed>>, \A c \in Commands : filed[c] # Unfiled => Still(c)
      PROVE  Filings'
  BY <1>2, <1>6 DEF Filings
<1> HIDE DEF Still
<1>7. CASE UNCHANGED <<db, sync, filed>>
  BY <1>3, <1>6, <1>7
<1>8. CASE CommitBatch
  <2> DEFINE s == [db |-> db, known |-> known]
             t == WriteAll(db, known, batch)
  <2>1. Live /\ db' = t.db /\ s.db = db /\ UNCHANGED <<sync, filed, shared>>
    BY <1>8 DEF CommitBatch, syncVars
  <2>2. Keeps(s, t, run)
    BY <2>1, BatchFiled
  <2> HIDE DEF s, t
  <2>3. Grows(db, db', {run}) /\ Tabled(db') /\ Fresh(db, db')
    BY <2>1, <2>2 DEF Keeps, Filed
  <2>4. ASSUME NEW c \in Commands PROVE {run} \cap R(c) \subseteq shared
    BY <2>1 DEF Rows, Alone
  <2>5. ASSUME NEW c \in Commands, filed[c] # Unfiled PROVE Still(c)
    <3> HIDE DEF R
    <3> QED BY <1>5, <2>1, <2>3, <2>4, <2>5
  <2> QED BY <1>6, <2>1, <2>5
<1>9. ASSUME NEW c \in Commands, filed[c] # Unfiled, shared' = shared,
             Grows(db, db', {}), Tabled(db'), Fresh(db, db')
      PROVE  Still(c)
  <2>1. {} \cap R(c) \subseteq shared
    OBVIOUS
  <2> HIDE DEF R
  <2> QED BY <1>5, <1>9, <2>1
<1>10. CASE LoseBatch
  <2>1. UNCHANGED <<sync, filed, shared>>
    BY <1>10 DEF LoseBatch, syncVars
  <2>2. \A c \in Commands : filed[c] # Unfiled => Still(c)
    BY <1>9, <1>10, <2>1, BatchLost
  <2> QED BY <1>6, <2>1, <2>2
<1>11. ASSUME NEW c \in Commands, SyncRead(c) PROVE Filings'
  <2>1. /\ UNCHANGED <<db, filed>> /\ sync[c] = NoSync
        /\ sync' = [sync EXCEPT ![c] = Readable(telemetry)]
    BY <1>11 DEF SyncRead, writerVars
  <2>2. \A d \in Commands : filed[d] # Unfiled => d # c /\ sync'[d] = sync[d]
    BY <1>1, <2>1
  <2>3. Aparts
    BY <1>3, <2>1, <2>2 DEF Still
  <2>4. Agrees
    BY <1>2, <2>1
  <2> QED BY <2>3, <2>4 DEF Filings
<1>12. ASSUME NEW c \in Commands, SyncFile(c) PROVE Filings'
  <2> DEFINE f == filed'[c]
  <2>1. /\ f \in Tables /\ Tabled(f) /\ Once(f, shared) /\ Grows(db, f, R(c)) /\ Fresh(db, f)
        /\ filed' = [filed EXCEPT ![c] = f]
        /\ db' \in Tables /\ db'.next = f.next /\ SameRows(db, db') /\ Tabled(db')
        /\ Grows(db, db', {}) /\ Fresh(db, db')
    BY <1>12, SyncFiled
  <2>2. UNCHANGED <<sync, shared>>
    BY <1>12 DEF SyncFile
  <2>3. Apart(db', f, R(c), shared)
    <3> HIDE DEF R, f
    <3> QED BY <1>1, <2>1, ApartAtFirst
  <2>4. \A d \in Commands : d # c => filed'[d] = filed[d]
    BY <1>1, <2>1
  <2>5. \A d \in Commands : filed[d] # Unfiled => Still(d)
    BY <1>9, <2>1, <2>2
  <2>6. Aparts
    BY <2>2, <2>3, <2>4, <2>5 DEF Still
  <2> HIDE DEF f
  <2>7. ASSUME NEW d \in Commands, filed[d] # Unfiled
        PROVE  Agree(f, filed[d]) /\ Agree(filed[d], f)
    <3>1. Agree(f, filed[d])
      BY <1>1, <1>2, <2>1, <2>7, AgreeOn
    <3> QED BY <3>1 DEF Agree
  <2>8. Agree(f, f)
    BY <2>1 DEF Tabled, Agree
  <2>9. Agrees
    BY <1>2, <2>4, <2>7, <2>8 DEF f
  <2> QED BY <2>6, <2>9 DEF Filings
<1>13. ASSUME NEW c \in Commands, SyncCommit(c) \/ SyncFails(c) PROVE Filings'
  <2>1. /\ sync' = [sync EXCEPT ![c] = NoSync] /\ filed' = [filed EXCEPT ![c] = Unfiled]
        /\ UNCHANGED shared
    BY <1>13 DEF SyncCommit, SyncFails
  <2>2. \A d \in Commands :
          filed'[d] # Unfiled =>
            d # c /\ filed[d] # Unfiled /\ filed'[d] = filed[d] /\ sync'[d] = sync[d]
    BY <1>1, <2>1
  <2>3. ASSUME NEW d \in Commands, d # c, filed[d] # Unfiled PROVE Still(d)
    <3>1. CASE SyncFails(c)
      BY <1>3, <2>3, <3>1 DEF SyncFails
    <3>2. CASE SyncCommit(c)
      <4>1. /\ filed[c] \in Tables /\ Tabled(filed[c]) /\ sync[c] # NoSync /\ filed[c] # Unfiled
            /\ db' = Merge(db, filed[c]) /\ db' \in Tables /\ db'.next = db.next
            /\ Grows(db, db', R(c))
        BY <3>2, SyncCommitted DEF SyncCommit
      <4>2. Agree(db', filed[d])
        BY <1>1, <1>2, <2>3, <4>1, MergeAgrees
      <4>3. R(c) \cap R(d) \subseteq shared
        BY <1>1, <2>3, <4>1 DEF Rows, Overlaps
      <4>4. db.next <= db'.next
        BY <1>1, <4>1 DEF Tables
      <4> HIDE DEF R
      <4> QED BY <1>4, <2>1, <2>3, <4>1, <4>2, <4>3, <4>4
    <3> QED BY <1>13, <3>1, <3>2
  <2>4. Aparts
    BY <2>2, <2>3 DEF Still
  <2>5. Agrees
    BY <1>2, <2>2
  <2> QED BY <2>4, <2>5 DEF Filings
<1>14. CASE Audited
  BY <1>7, <1>14, AuditLeaves
<1> QED
  BY <1>7, <1>8, <1>10, <1>11, <1>12, <1>13, <1>14 DEF Next, Command, Audited, vars, syncVars,
     writerVars, Start, Emit, Load, AppendEntry, TakeBatch, Close, Crash, CrashInLine, LintSpec

LEMMA RowsInitial == Init => Rows
<1> SUFFICES ASSUME Init PROVE Rows
  OBVIOUS
<1>1. /\ db = NoTables /\ known = NoRows /\ run = 0 /\ step = 0 /\ queue = <<>>
      /\ batch = <<>> /\ telemetry.lines = <<>>
      /\ \A c \in Commands : sync[c] = NoSync /\ filed[c] = Unfiled
  BY DEF Init
<1>2. NoTables \in Tables /\ NoTables.runs = {} /\ NoTables.milestones = {}
      /\ NoTables.phases = {} /\ NoTables.events = {}
  BY DEF NoTables, Tables
<1>3. Tabled(db) /\ Once(db, shared)
  BY <1>1, <1>2 DEF Tabled, Once
<1>4. Numbered
  BY <1>1, <1>2, OfNoRun DEF Numbered
<1>5. StartsFirst /\ Alone
  BY <1>1 DEF StartsFirst, Alone, Live
<1>6. Overlaps /\ Filings
  BY <1>1 DEF Overlaps, Filings
<1> QED BY <1>1, <1>3, <1>4, <1>5, <1>6, KnowsNothing DEF Rows

LEMMA RowsAlways == Spec => [](TypeOK /\ Chain /\ Rows)
<1>1. Init => TypeOK /\ Chain /\ Rows
  BY TypeInitial, ChainInitial, RowsInitial
<1>2. TypeOK /\ Chain /\ Rows /\ [Next]_vars => (TypeOK /\ Chain /\ Rows)'
  <2> SUFFICES ASSUME TypeOK, Chain, Rows, [Next]_vars PROVE (TypeOK /\ Chain /\ Rows)'
    OBVIOUS
  <2>1. TypeOK'
    BY FilesStep, RunStep, RowsTypedStep DEF TypeOK
  <2>2. Trails
    BY DEF TypeOK, FilesTyped, Trails
  <2>3. Chain'
    BY <2>2, ChainStep
  <2>4. Rows'
    BY HangingStep, NumberedStep, StartsFirstStep, AloneStep, OverlapsStep, FilingsStep
       DEF Rows, Hanging
  <2> QED BY <2>1, <2>3, <2>4
<1> QED BY <1>1, <1>2, PTL DEF Spec

(* For any number of runs, any queue and any number of mishaps: the files    *)
(* hold what the program writes, only a live run has a queue, and the rows   *)
(* are rows of the tables (telemetry.py, audit.py, db/models.py).            *)
THEOREM RecordsTyped == Spec => []TypeOK
  BY RowsAlways, PTL

(* Whichever batches and syncs fail, and whenever runs die, a milestone or   *)
(* an event belongs to a run and a phase to a milestone that were committed  *)
(* (db/writer.py:88-113, db/sync_adapter.py:54-159).                         *)
THEOREM RowsHangTogether == Spec => []NoOrphanRows
<1>1. Rows => NoOrphanRows
  BY DEF Rows, Tabled, Ids, NoOrphanRows
<1> QED BY <1>1, RowsAlways, PTL

(* A run has one row, and its row one milestone, whatever its writer has     *)
(* lost, died with or filed already when a sync files it again, however many *)
(* syncs come and go, unless two were at it at once: the run and a sync, or  *)
(* two syncs (db/sync_adapter.py:104-159, no column is unique).              *)
THEOREM RowsAreSingle == Spec => []OneRowPerRun
<1>1. Rows => OneRowPerRun
  BY DEF Rows, Once, OneRowPerRun
<1> QED BY <1>1, RowsAlways, PTL


-----------------------------------------------------------------------------
(* What a sync makes complete                                              *)

(* No row is lost or taken back.                                           *)
Onward(d, e) ==
  /\ \A x \in d.runs : \E y \in e.runs :
       y.id = x.id /\ y.run = x.run /\ (x.status = "done" => y.status = "done")
  /\ \A x \in d.milestones : \E y \in e.milestones :
       y.id = x.id /\ y.of = x.of /\ (x.status = "done" => y.status = "done")
  /\ d.events \subseteq e.events

(* The rows of runs, of which one may lack it, have the event they start   *)
(* with.                                                                   *)
StartsFiled(d, but) ==
  \A x \in d.runs : x.run \in RunIds =>
      x.id = but \/ [of |-> x.id, kind |-> "run_started"] \in d.events

(* The milestone a sync knows is one of the run it knows.                  *)
OwnMilestone(s) ==
  s.known.milestone # NoRow =>
    /\ s.known.run # NoRow
    /\ \E m \in s.db.milestones : m.id = s.known.milestone /\ m.of = s.known.run

(* A step from s to t that loses nothing.                                  *)
Adds(s, t) ==
  /\ Onward(s.db, t.db)
  /\ s.known.run # NoRow => t.known.run = s.known.run
  /\ s.known.milestone # NoRow => t.known.milestone = s.known.milestone
  /\ OwnMilestone(s) => OwnMilestone(t)

LEMMA OnwardOn ==
  ASSUME NEW d, NEW e, NEW f, Onward(d, e), Onward(e, f)
  PROVE  Onward(d, f)
<1>1. ASSUME NEW x \in d.runs
      PROVE  \E y \in f.runs :
               y.id = x.id /\ y.run = x.run /\ (x.status = "done" => y.status = "done")
  <2>1. PICK y \in e.runs :
           y.id = x.id /\ y.run = x.run /\ (x.status = "done" => y.status = "done")
    BY DEF Onward
  <2>2. PICK z \in f.runs :
           z.id = y.id /\ z.run = y.run /\ (y.status = "done" => z.status = "done")
    BY DEF Onward
  <2> QED BY <2>1, <2>2
<1>2. ASSUME NEW x \in d.milestones
      PROVE  \E y \in f.milestones :
               y.id = x.id /\ y.of = x.of /\ (x.status = "done" => y.status = "done")
  <2>1. PICK y \in e.milestones :
           y.id = x.id /\ y.of = x.of /\ (x.status = "done" => y.status = "done")
    BY DEF Onward
  <2>2. PICK z \in f.milestones :
           z.id = y.id /\ z.of = y.of /\ (y.status = "done" => z.status = "done")
    BY DEF Onward
  <2> QED BY <2>1, <2>2
<1> QED BY <1>1, <1>2 DEF Onward

LEMMA OnwardSame ==
  ASSUME NEW d
  PROVE  Onward(d, d)
  BY DEF Onward

LEMMA AddsOn ==
  ASSUME NEW s, NEW t, NEW u, Adds(s, t), Adds(t, u)
  PROVE  Adds(s, u)
<1>1. Onward(s.db, u.db)
  BY OnwardOn DEF Adds
<1> QED BY <1>1 DEF Adds

(* The milestone is still there, whatever is added.                        *)
LEMMA StillOwn ==
  ASSUME NEW s, NEW t, Onward(s.db, t.db), OwnMilestone(s),
         t.known.run = s.known.run, t.known.milestone = s.known.milestone
  PROVE  OwnMilestone(t)
<1> SUFFICES ASSUME s.known.milestone # NoRow
             PROVE  /\ s.known.run # NoRow
                    /\ \E m \in t.db.milestones : m.id = s.known.milestone /\ m.of = s.known.run
  BY DEF OwnMilestone
<1>1. PICK m \in s.db.milestones : m.id = s.known.milestone /\ m.of = s.known.run
  BY DEF OwnMilestone
<1>2. PICK l \in t.db.milestones : l.id = m.id /\ l.of = m.of
  BY DEF Onward
<1> QED BY <1>1, <1>2 DEF OwnMilestone

(* Finish undoes nothing, and what it finishes is done.                    *)
LEMMA FinishDone ==
  ASSUME NEW rows, NEW id, rows \in SUBSET RunRows \/ rows \in SUBSET PartRows
  PROVE  /\ rows \in SUBSET RunRows =>
              /\ \A x \in rows : \E y \in Finish(rows, id) :
                   y.id = x.id /\ y.run = x.run /\ (x.status = "done" => y.status = "done")
                   /\ (x.id = id => y.status = "done")
              /\ \A y \in Finish(rows, id) : \E x \in rows : x.id = y.id /\ x.run = y.run
         /\ rows \in SUBSET PartRows =>
              \A x \in rows : \E y \in Finish(rows, id) :
                   y.id = x.id /\ y.of = x.of /\ (x.status = "done" => y.status = "done")
                   /\ (x.id = id => y.status = "done")
<1> DEFINE done(x) == IF x.id = id THEN [x EXCEPT !.status = "done"] ELSE x
<1>1. Finish(rows, id) = {done(x) : x \in rows}
  BY DEF Finish
<1>2. ASSUME NEW x \in rows, x \in RunRows
      PROVE  /\ done(x).id = x.id /\ done(x).run = x.run
             /\ x.status = "done" => done(x).status = "done"
             /\ x.id = id => done(x).status = "done"
  BY <1>2 DEF RunRows
<1>3. ASSUME NEW x \in rows, x \in PartRows
      PROVE  /\ done(x).id = x.id /\ done(x).of = x.of
             /\ x.status = "done" => done(x).status = "done"
             /\ x.id = id => done(x).status = "done"
  BY <1>3 DEF PartRows
<1> HIDE DEF done
<1>4. \A x \in rows : done(x) \in Finish(rows, id)
  BY <1>1
<1>5. \A y \in Finish(rows, id) : \E x \in rows : y = done(x)
  BY <1>1
<1>6. ASSUME rows \in SUBSET RunRows
      PROVE  /\ \A x \in rows : \E y \in Finish(rows, id) :
                  y.id = x.id /\ y.run = x.run /\ (x.status = "done" => y.status = "done")
                  /\ (x.id = id => y.status = "done")
             /\ \A y \in Finish(rows, id) : \E x \in rows : x.id = y.id /\ x.run = y.run
  <2>1. ASSUME NEW x \in rows
        PROVE  \E y \in Finish(rows, id) :
                  y.id = x.id /\ y.run = x.run /\ (x.status = "done" => y.status = "done")
                  /\ (x.id = id => y.status = "done")
    <3>1. done(x) \in Finish(rows, id) /\ x \in RunRows
      BY <1>4, <1>6
    <3>2. /\ done(x).id = x.id /\ done(x).run = x.run
          /\ x.status = "done" => done(x).status = "done"
          /\ x.id = id => done(x).status = "done"
      BY <1>2, <3>1
    <3> QED BY <3>1, <3>2
  <2>2. ASSUME NEW y \in Finish(rows, id)
        PROVE  \E x \in rows : x.id = y.id /\ x.run = y.run
    <3>1. PICK x \in rows : y = done(x)
      BY <1>5
    <3> QED BY <1>2, <1>6, <3>1
  <2> QED BY <2>1, <2>2
<1>7. ASSUME rows \in SUBSET PartRows, NEW x \in rows
      PROVE  \E y \in Finish(rows, id) :
                y.id = x.id /\ y.of = x.of /\ (x.status = "done" => y.status = "done")
                /\ (x.id = id => y.status = "done")
  <2>1. done(x) \in Finish(rows, id) /\ x \in PartRows
    BY <1>4, <1>7
  <2>2. /\ done(x).id = x.id /\ done(x).of = x.of
        /\ x.status = "done" => done(x).status = "done"
        /\ x.id = id => done(x).status = "done"
    BY <1>3, <2>1
  <2> QED BY <2>1, <2>2
<1> QED BY <1>6, <1>7

(* What a new row changes.                                                 *)
LEMMA RunAdded ==
  ASSUME NEW s, NEW r \in 0 .. MaxRuns, NEW status \in Statuses, Filed(s, r)
  PROVE  LET t == AddRun(s, r, status)
         IN  /\ s.known.run = NoRow => Adds(s, t)
             /\ t.known.run # NoRow
             /\ StartsFiled(s.db, NoRow) => StartsFiled(t.db, t.known.run)
             /\ r \notin RunIds /\ StartsFiled(s.db, NoRow) => StartsFiled(t.db, NoRow)
<1> DEFINE row == [id |-> s.db.next, run |-> r, status |-> status]
           k == [s.known EXCEPT !.run = s.db.next]
           d == [s.db EXCEPT !.next = @ + 1, !.runs = @ \cup {row}]
           t == AddRun(s, r, status)
<1>1. s \in Filing /\ Knows(s.db, s.known, r)
  BY DEF Filed
<1>2. t = [db |-> d, known |-> k]
  BY DEF AddRun
<1>3. row.id = s.db.next /\ row.run = r
  OBVIOUS
<1> HIDE DEF row, t
<1>4. /\ s.db \in Tables /\ s.db.next \in Nat \ {0} /\ s.known \in Known
  BY <1>1, Parts
<1>5. /\ d.runs = s.db.runs \cup {row} /\ d.milestones = s.db.milestones
      /\ d.events = s.db.events
  BY <1>4 DEF Tables
<1>6. k.run = s.db.next /\ k.milestone = s.known.milestone
  BY <1>4 DEF Known
<1> HIDE DEF d, k
<1>7. t.db = d /\ t.known = k
  BY <1>2
<1>8. Onward(s.db, d)
  BY <1>5 DEF Onward
<1>9. s.known.run = NoRow /\ OwnMilestone(s) => s.known.milestone = NoRow
  BY DEF OwnMilestone
<1>10. s.known.run = NoRow => Adds(s, t)
  BY <1>6, <1>7, <1>8, <1>9 DEF Adds, OwnMilestone
<1>11. t.known.run # NoRow
  BY <1>4, <1>6, <1>7 DEF NoRow
<1>12. ASSUME StartsFiled(s.db, NoRow), NEW x \in t.db.runs, x.run \in RunIds
       PROVE  /\ x.id = t.known.run \/ [of |-> x.id, kind |-> "run_started"] \in t.db.events
              /\ r \notin RunIds => [of |-> x.id, kind |-> "run_started"] \in t.db.events
  <2>1. CASE x = row
    BY <1>3, <1>6, <1>7, <1>12, <2>1
  <2>2. CASE x \in s.db.runs
    <3>1. x.id # NoRow
      BY <1>1, <2>2, Parts DEF RunRows, NoRow
    <3> QED BY <1>5, <1>7, <1>12, <2>2, <3>1 DEF StartsFiled
  <2> QED BY <1>5, <1>7, <2>1, <2>2
<1>13. StartsFiled(s.db, NoRow) => StartsFiled(t.db, t.known.run)
  BY <1>12 DEF StartsFiled
<1>14. r \notin RunIds /\ StartsFiled(s.db, NoRow) => StartsFiled(t.db, NoRow)
  BY <1>12 DEF StartsFiled
<1> QED BY <1>10, <1>11, <1>13, <1>14 DEF t

LEMMA MilestoneAdded ==
  ASSUME NEW s, NEW r, Filed(s, r), s.known.run # NoRow, s.known.milestone = NoRow
  PROVE  LET t == AddMilestone(s)
         IN  /\ Adds(s, t) /\ t.known.milestone # NoRow
             /\ OwnMilestone(t)
             /\ t.known.run = s.known.run /\ t.db.runs = s.db.runs
             /\ t.db.events = s.db.events
<1> DEFINE row == [id |-> s.db.next, of |-> s.known.run, status |-> "running"]
           k == [s.known EXCEPT !.milestone = s.db.next]
           d == [s.db EXCEPT !.next = @ + 1, !.milestones = @ \cup {row}]
           t == AddMilestone(s)
<1>1. s \in Filing
  BY DEF Filed
<1>2. t = [db |-> d, known |-> k]
  BY DEF AddMilestone
<1>3. row.id = s.db.next /\ row.of = s.known.run
  OBVIOUS
<1> HIDE DEF row, t
<1>4. /\ s.db \in Tables /\ s.db.next \in Nat \ {0} /\ s.known \in Known
  BY <1>1, Parts
<1>5. /\ d.milestones = s.db.milestones \cup {row} /\ d.runs = s.db.runs
      /\ d.events = s.db.events
  BY <1>4 DEF Tables
<1>6. k.milestone = s.db.next /\ k.run = s.known.run
  BY <1>4 DEF Known
<1> HIDE DEF d, k
<1>7. t.db = d /\ t.known = k
  BY <1>2
<1>8. Onward(s.db, d)
  BY <1>5 DEF Onward
<1>9. t.known.milestone # NoRow
  BY <1>4, <1>6, <1>7 DEF NoRow
<1>10. OwnMilestone(t)
  BY <1>3, <1>5, <1>6, <1>7 DEF OwnMilestone
<1>11. Adds(s, t)
  BY <1>6, <1>7, <1>8, <1>10 DEF Adds
<1> QED BY <1>5, <1>6, <1>7, <1>9, <1>10, <1>11 DEF t

LEMMA EventAdded ==
  ASSUME NEW s, NEW r, Filed(s, r), NEW kind
  PROVE  LET t == AddEvent(s, kind)
         IN  /\ Adds(s, t) /\ t.known = s.known
             /\ t.db.runs = s.db.runs /\ t.db.milestones = s.db.milestones
             /\ t.db.events = s.db.events \cup {[of |-> s.known.run, kind |-> kind]}
<1> DEFINE row == [of |-> s.known.run, kind |-> kind]
           d == [s.db EXCEPT !.events = @ \cup {row}]
           t == AddEvent(s, kind)
<1>1. s \in Filing /\ s.db \in Tables
  BY Parts DEF Filed
<1>2. t = [s EXCEPT !.db = d]
  BY DEF AddEvent
<1> HIDE DEF row, t
<1>3. /\ d.events = s.db.events \cup {row} /\ d.runs = s.db.runs
      /\ d.milestones = s.db.milestones
  BY <1>1 DEF Tables
<1> HIDE DEF d
<1>4. t.db = d /\ t.known = s.known
  BY <1>1, <1>2 DEF Filing
<1>5. Onward(s.db, t.db)
  BY <1>3, <1>4 DEF Onward
<1>6. Adds(s, t)
  BY <1>4, <1>5, StillOwn DEF Adds
<1> QED BY <1>3, <1>4, <1>6 DEF t, row

(* What the updates of the writer and of a sync leave alone, and what they *)
(* finish.                                                                 *)
LEMMA UpdateAdds ==
  ASSUME NEW s, NEW r, Filed(s, r), NEW kind
  PROVE  LET t == Update(s, kind)
         IN  /\ Adds(s, t) /\ t.db.events = s.db.events
             /\ t.known.run = s.known.run /\ t.known.milestone = s.known.milestone
             /\ \A y \in t.db.runs : \E x \in s.db.runs : x.id = y.id /\ x.run = y.run
             /\ kind = "run_completed" /\ s.known.run # NoRow =>
                  \E x \in t.db.runs : x.id = s.known.run /\ x.status = "done"
             /\ kind = "milestone_completed" /\ s.known.milestone # NoRow /\ OwnMilestone(s) =>
                  \E m \in t.db.milestones : m.of = s.known.run /\ m.status = "done"
<1> DEFINE t == Update(s, kind)
<1>1. /\ s \in Filing /\ s.db \in Tables /\ s.known \in Known
      /\ s.db.runs \in SUBSET RunRows /\ s.db.milestones \in SUBSET PartRows
      /\ Knows(s.db, s.known, r)
  BY Parts DEF Filed
<1>2. CASE kind = "phase_started" /\ s.known.milestone /= NoRow /\ s.known.phase = NoRow
  <2> DEFINE row == [id |-> s.db.next, of |-> s.known.milestone, status |-> "running"]
             k == [s.known EXCEPT !.phase = s.db.next]
             d == [s.db EXCEPT !.next = @ + 1, !.phases = @ \cup {row}]
  <2>1. t = [db |-> d, known |-> k]
    BY <1>2 DEF Update, AddPhase
  <2>2. d.runs = s.db.runs /\ d.milestones = s.db.milestones /\ d.events = s.db.events
    BY <1>1 DEF Tables
  <2>3. k.run = s.known.run /\ k.milestone = s.known.milestone
    BY <1>1 DEF Known
  <2> HIDE DEF d, k, t
  <2>4. Onward(s.db, t.db)
    BY <2>1, <2>2 DEF Onward
  <2>5. Adds(s, t)
    BY <2>1, <2>3, <2>4, StillOwn DEF Adds
  <2> QED BY <1>2, <2>1, <2>2, <2>3, <2>5 DEF t
<1>3. CASE kind = "phase_completed"
  <2> DEFINE d == [s.db EXCEPT !.phases = Finish(@, s.known.phase)]
  <2>1. t = [s EXCEPT !.db = d]
    BY <1>3 DEF Update
  <2>2. d.runs = s.db.runs /\ d.milestones = s.db.milestones /\ d.events = s.db.events
    BY <1>1 DEF Tables
  <2> HIDE DEF d, t
  <2>3. t.db = d /\ t.known = s.known
    BY <1>1, <2>1 DEF Filing
  <2>4. Onward(s.db, t.db)
    BY <2>2, <2>3 DEF Onward
  <2>5. Adds(s, t)
    BY <2>3, <2>4, StillOwn DEF Adds
  <2> QED BY <1>3, <2>2, <2>3, <2>5 DEF t
<1>4. CASE kind = "milestone_completed"
  <2> DEFINE rows == Finish(s.db.milestones, s.known.milestone)
             d == [s.db EXCEPT !.milestones = rows]
  <2>1. t = [s EXCEPT !.db = d]
    BY <1>4 DEF Update
  <2>2. d.runs = s.db.runs /\ d.milestones = rows /\ d.events = s.db.events
    BY <1>1 DEF Tables
  <2> HIDE DEF d, t
  <2>3. t.db = d /\ t.known = s.known
    BY <1>1, <2>1 DEF Filing
  <2>4. \A x \in s.db.milestones : \E y \in rows :
           y.id = x.id /\ y.of = x.of /\ (x.status = "done" => y.status = "done")
           /\ (x.id = s.known.milestone => y.status = "done")
    BY <1>1, FinishDone
  <2> HIDE DEF rows
  <2>5. Onward(s.db, t.db)
    BY <2>2, <2>3, <2>4 DEF Onward
  <2>6. Adds(s, t)
    BY <2>3, <2>5, StillOwn DEF Adds
  <2>7. ASSUME s.known.milestone # NoRow, OwnMilestone(s)
        PROVE  \E m \in t.db.milestones : m.of = s.known.run /\ m.status = "done"
    <3>1. PICK m \in s.db.milestones : m.id = s.known.milestone /\ m.of = s.known.run
      BY <2>7 DEF OwnMilestone
    <3> QED BY <2>2, <2>3, <2>4, <3>1
  <2> QED BY <1>4, <2>2, <2>3, <2>6, <2>7 DEF t
<1>5. CASE kind = "run_completed"
  <2> DEFINE rows == Finish(s.db.runs, s.known.run)
             d == [s.db EXCEPT !.runs = rows]
  <2>1. t = [s EXCEPT !.db = d]
    BY <1>5 DEF Update
  <2>2. d.runs = rows /\ d.milestones = s.db.milestones /\ d.events = s.db.events
    BY <1>1 DEF Tables
  <2> HIDE DEF d, t
  <2>3. t.db = d /\ t.known = s.known
    BY <1>1, <2>1 DEF Filing
  <2>4. /\ \A x \in s.db.runs : \E y \in rows :
             y.id = x.id /\ y.run = x.run /\ (x.status = "done" => y.status = "done")
             /\ (x.id = s.known.run => y.status = "done")
        /\ \A y \in rows : \E x \in s.db.runs : x.id = y.id /\ x.run = y.run
    BY <1>1, FinishDone
  <2> HIDE DEF rows
  <2>5. Onward(s.db, t.db)
    BY <2>2, <2>3, <2>4 DEF Onward
  <2>6. Adds(s, t)
    BY <2>3, <2>5, StillOwn DEF Adds
  <2>7. ASSUME s.known.run # NoRow
        PROVE  \E x \in t.db.runs : x.id = s.known.run /\ x.status = "done"
    <3>1. PICK x \in s.db.runs : x.id = s.known.run
      BY <1>1, <2>7 DEF Knows
    <3> QED BY <2>2, <2>3, <2>4, <3>1
  <2> QED BY <1>5, <2>2, <2>3, <2>4, <2>6, <2>7 DEF t
<1>6. CASE t = s /\ kind \notin {"run_completed", "milestone_completed"}
  BY <1>6, OnwardSame DEF Adds
<1> QED BY <1>2, <1>3, <1>4, <1>5, <1>6 DEF Update

LEMMA AdoptAdds ==
  ASSUME NEW s, NEW e \in Events, Filed(s, e.run), NEW pick,
         e.kind = "spec_lint_completed" => e.run = Standalone
  PROVE  LET t == Adopt(s, e, pick)
         IN  /\ Adds(s, t) /\ (e.kind = "run_started" => t.known.run # NoRow)
             /\ StartsFiled(s.db, NoRow) =>
                  \/ StartsFiled(t.db, NoRow)
                  \/ /\ e.kind = "run_started" /\ RunRow(s, e.run, pick) = NoRow
                     /\ StartsFiled(t.db, t.known.run)
<1> DEFINE r == e.run
           row == RunRow(s, r, pick)
           t == Adopt(s, e, pick)
<1>1. s \in Filing /\ s.known \in Known /\ r \in 0 .. MaxRuns
  BY Parts DEF Filed, Events
<1>2. CASE s.known.run # NoRow
  <2>1. t = s
    BY <1>2 DEF Adopt
  <2> QED BY <1>2, <2>1, OnwardSame DEF Adds
<1>3. CASE s.known.run = NoRow /\ row # NoRow
  <2>1. t = [s EXCEPT !.known.run = row]
    BY <1>3 DEF Adopt
  <2> HIDE DEF row
  <2>2. t.db = s.db /\ t.known.run = row /\ t.known.milestone = s.known.milestone
    <3>1. [s.known EXCEPT !.run = row].run = row
          /\ [s.known EXCEPT !.run = row].milestone = s.known.milestone
      BY <1>1 DEF Known
    <3> QED BY <1>1, <2>1, <3>1 DEF Filing
  <2> HIDE DEF t
  <2>3. OwnMilestone(s) => OwnMilestone(t)
    BY <1>3, <2>2 DEF OwnMilestone
  <2>4. Adds(s, t)
    BY <1>3, <2>2, <2>3, OnwardSame DEF Adds
  <2> QED BY <1>3, <2>2, <2>4 DEF t
<1>4. CASE s.known.run = NoRow /\ row = NoRow
  <2>1. CASE e.kind = "run_started"
    <3>1. t = AddRun(s, r, "running")
      BY <1>4, <2>1 DEF Adopt
    <3> HIDE DEF t
    <3>2. /\ Adds(s, t) /\ t.known.run # NoRow
          /\ StartsFiled(s.db, NoRow) => StartsFiled(t.db, t.known.run)
      BY <1>1, <1>4, <3>1, RunAdded DEF Statuses
    <3> QED BY <1>4, <2>1, <3>2 DEF t
  <2>2. CASE e.kind = "spec_lint_completed"
    <3>1. t = AddRun(s, r, "standalone")
      BY <1>4, <2>2 DEF Adopt
    <3>2. r \notin RunIds
      BY <2>2, Constants DEF RunIds, Standalone
    <3> HIDE DEF t
    <3>3. /\ Adds(s, t)
          /\ r \notin RunIds /\ StartsFiled(s.db, NoRow) => StartsFiled(t.db, NoRow)
      BY <1>1, <1>4, <3>1, RunAdded DEF Statuses
    <3> QED BY <2>2, <3>2, <3>3 DEF t
  <2>3. CASE e.kind \notin {"run_started", "spec_lint_completed"}
    <3>1. t = s
      BY <1>4, <2>3 DEF Adopt
    <3> QED BY <2>3, <3>1, OnwardSame DEF Adds
  <2> QED BY <2>1, <2>2, <2>3
<1> QED BY <1>2, <1>3, <1>4

LEMMA AdoptMilestoneAdds ==
  ASSUME NEW s, NEW r, Filed(s, r), s.known.run # NoRow, NEW pick
  PROVE  LET t == AdoptMilestone(s, pick)
         IN  /\ Adds(s, t) /\ t.known.milestone # NoRow
             /\ t.known.run = s.known.run /\ t.db.runs = s.db.runs
             /\ t.db.events = s.db.events
<1> DEFINE mine == {x \in s.db.milestones : x.of = s.known.run}
           row == First(mine, pick)
           t == AdoptMilestone(s, pick)
<1>1. s \in Filing /\ s.known \in Known
  BY Parts DEF Filed
<1>2. CASE s.known.milestone # NoRow
  <2>1. t = s
    BY <1>2 DEF AdoptMilestone
  <2> QED BY <1>2, <2>1, OnwardSame DEF Adds
<1>3. CASE s.known.milestone = NoRow /\ row # NoRow
  <2>1. t = [s EXCEPT !.known.milestone = row]
    BY <1>3 DEF AdoptMilestone
  <2>2. \E m \in s.db.milestones : m.id = row /\ m.of = s.known.run
    <3>1. /\ s.db.next - 1 \in Nat
          /\ \A x \in mine : x.id \in 1 .. (s.db.next - 1)
      BY IdsAreBelow
    <3>2. mine # {} => \E x \in mine : x.id = row
      <4> HIDE DEF mine
      <4> QED BY <3>1, FirstIsOne
    <3>3. mine # {}
      <4>1. mine = {} => row = NoRow
        <5> HIDE DEF mine
        <5> QED BY <3>1, FirstIsOne
      <4> QED BY <1>3, <4>1
    <3> QED BY <3>2, <3>3
  <2> HIDE DEF row
  <2>3. t.db = s.db /\ t.known.run = s.known.run /\ t.known.milestone = row
    <3>1. [s.known EXCEPT !.milestone = row].run = s.known.run
          /\ [s.known EXCEPT !.milestone = row].milestone = row
      BY <1>1 DEF Known
    <3> QED BY <1>1, <2>1, <3>1 DEF Filing
  <2> HIDE DEF t
  <2>4. OwnMilestone(t)
    BY <2>2, <2>3 DEF OwnMilestone
  <2>5. Adds(s, t)
    BY <1>3, <2>3, <2>4, OnwardSame DEF Adds
  <2> QED BY <1>3, <2>3, <2>5 DEF t
<1>4. CASE s.known.milestone = NoRow /\ row = NoRow
  <2>1. t = AddMilestone(s)
    BY <1>4 DEF AdoptMilestone
  <2> HIDE DEF t
  <2> QED BY <1>4, <2>1, MilestoneAdded DEF t
<1> QED BY <1>2, <1>3, <1>4

(* One event of a sync adds what it says to what the sync knows.           *)
LEMMA SyncAdds ==
  ASSUME NEW s, NEW e \in Events, Filed(s, e.run), NEW pick,
         e.kind = "spec_lint_completed" => e.run = Standalone,
         NEW drop, \A x \in drop : x.kind # "run_started"
  PROVE  LET t == SyncEvent(s, e, pick, drop)
         IN  /\ Adds(s, t)
             /\ StartsFiled(s.db, NoRow) => StartsFiled(t.db, NoRow)
             /\ /\ e.run \in RunIds /\ StartsFiled(s.db, NoRow)
                /\ e.kind = "run_started" \/ s.known.run # NoRow
                => /\ t.known.run # NoRow
                   /\ e \notin drop => [of |-> t.known.run, kind |-> e.kind] \in t.db.events
                   /\ e.kind = "milestone_started" => t.known.milestone # NoRow
             /\ e.kind = "milestone_completed" /\ s.known.milestone # NoRow /\ OwnMilestone(s) =>
                  \E m \in t.db.milestones : m.of = t.known.run /\ m.status = "done"
             /\ e.kind = "run_completed" /\ s.known.run # NoRow =>
                  \E x \in t.db.runs : x.id = t.known.run /\ x.status = "done"
<1> DEFINE r == e.run
           a == Adopt(s, e, pick)
           u == IF e.kind = "milestone_started" THEN AdoptMilestone(a, pick)
                ELSE Update(a, e.kind)
           t == SyncEvent(s, e, pick, drop)
           skip == \/ a.known.run = NoRow
                   \/ e.kind = "run_started" /\ RunRow(s, r, pick) /= NoRow
           Starts0 == StartsFiled(s.db, NoRow)
<1>1. t = IF skip THEN a ELSE IF e \in drop THEN u ELSE AddEvent(u, e.kind)
  BY DEF SyncEvent
<1>2. /\ Adds(s, a) /\ (e.kind = "run_started" => a.known.run # NoRow)
      /\ Starts0 =>
           \/ StartsFiled(a.db, NoRow)
           \/ /\ e.kind = "run_started" /\ RunRow(s, r, pick) = NoRow
              /\ StartsFiled(a.db, a.known.run)
  BY AdoptAdds
<1>3. Filed(a, r)
  BY AdoptKeeps DEF Keeps
<1>4. s.known.run # NoRow => a = s
  BY DEF Adopt
<1> HIDE DEF t, a
<1>5. CASE skip
  <2>1. t = a
    BY <1>1, <1>5
  <2>2. Starts0 => StartsFiled(t.db, NoRow)
    BY <1>2, <1>5, <2>1
  <2>3. ASSUME e.run \in RunIds, Starts0, e.kind = "run_started" \/ s.known.run # NoRow
        PROVE  /\ t.known.run # NoRow
               /\ [of |-> t.known.run, kind |-> e.kind] \in t.db.events
               /\ e.kind # "milestone_started"
    <3>1. e.kind = "run_started" /\ a.known.run # NoRow
      BY <1>2, <1>4, <1>5, <2>3
    <3>2. PICK x \in a.db.runs : x.id = a.known.run /\ x.run = r
      BY <1>3, <3>1 DEF Filed, Knows
    <3> QED BY <2>1, <2>2, <2>3, <3>1, <3>2 DEF StartsFiled
  <2>4. s.known.run # NoRow => e.kind = "run_started"
    BY <1>4, <1>5
  <2>5. s.known.milestone # NoRow /\ OwnMilestone(s) => s.known.run # NoRow
    BY DEF OwnMilestone
  <2> HIDE DEF skip, Starts0
  <2> QED BY <1>2, <2>1, <2>2, <2>3, <2>4, <2>5 DEF t, Starts0
<1>6. CASE ~skip
  <2>1. /\ t = IF e \in drop THEN u ELSE AddEvent(u, e.kind)
        /\ a.known.run # NoRow
    BY <1>1, <1>6
  <2>2. /\ Adds(a, u) /\ u.db.events = a.db.events /\ u.known.run = a.known.run
        /\ \A y \in u.db.runs : \E x \in a.db.runs : x.id = y.id /\ x.run = y.run
        /\ e.kind = "milestone_started" => u.known.milestone # NoRow
        /\ Filed(u, r)
    <3>1. CASE e.kind = "milestone_started"
      <4>1. u = AdoptMilestone(a, pick)
        BY <3>1
      <4> HIDE DEF u
      <4>2. Filed(u, r)
        BY <1>3, <2>1, <4>1, AdoptMilestoneKeeps DEF Keeps
      <4> QED BY <1>3, <2>1, <4>1, <4>2, AdoptMilestoneAdds
    <3>2. CASE e.kind # "milestone_started"
      <4>1. u = Update(a, e.kind)
        BY <3>2
      <4> HIDE DEF u
      <4>2. Filed(u, r)
        BY <1>3, <4>1, UpdateMarks DEF Marks, Keeps
      <4> QED BY <1>3, <3>2, <4>1, <4>2, UpdateAdds
    <3> QED BY <3>1, <3>2
  <2>3. e.kind \in {"milestone_completed", "run_completed"} => u = Update(a, e.kind)
    OBVIOUS
  <2> HIDE DEF u
  <2>4. /\ Adds(u, t) /\ t.known = u.known
        /\ t.db.runs = u.db.runs /\ t.db.milestones = u.db.milestones
        /\ u.db.events \subseteq t.db.events
        /\ e \notin drop => [of |-> t.known.run, kind |-> e.kind] \in t.db.events
    <3>1. CASE e \in drop
      BY <2>1, <3>1, OnwardSame DEF Adds
    <3>2. CASE e \notin drop
      BY <2>1, <2>2, <3>2, EventAdded
    <3> QED BY <3>1, <3>2
  <2>5. Adds(s, t)
    BY <1>2, <2>2, <2>4, AddsOn
  <2>6. e.kind = "run_started" => [of |-> t.known.run, kind |-> e.kind] \in t.db.events
    BY <2>4
  <2>7. ASSUME Starts0, NEW y \in t.db.runs, y.run \in RunIds
        PROVE  [of |-> y.id, kind |-> "run_started"] \in t.db.events
    <3>1. PICK x \in a.db.runs : x.id = y.id /\ x.run = y.run
      BY <2>2, <2>4
    <3>2. CASE StartsFiled(a.db, NoRow)
      <4>1. x.id # NoRow
        BY <1>3, Parts DEF Filed, RunRows, NoRow
      <4> QED BY <2>2, <2>4, <2>7, <3>1, <3>2, <4>1 DEF StartsFiled
    <3>3. CASE e.kind = "run_started" /\ StartsFiled(a.db, a.known.run)
      <4>1. CASE x.id = a.known.run
        BY <2>2, <2>4, <2>6, <3>1, <3>3, <4>1
      <4>2. CASE x.id # a.known.run
        BY <2>2, <2>4, <2>7, <3>1, <3>3, <4>2 DEF StartsFiled
      <4> QED BY <4>1, <4>2
    <3> QED BY <1>2, <2>7, <3>2, <3>3
  <2>8. Starts0 => StartsFiled(t.db, NoRow)
    BY <2>7 DEF StartsFiled
  <2>9. ASSUME e.kind = "milestone_completed", s.known.milestone # NoRow, OwnMilestone(s)
        PROVE  \E m \in t.db.milestones : m.of = t.known.run /\ m.status = "done"
    <3>1. a = s
      BY <1>4, <2>9 DEF OwnMilestone
    <3>2. \E m \in u.db.milestones : m.of = s.known.run /\ m.status = "done"
      BY <2>3, <2>9, <3>1, UpdateAdds
    <3> QED BY <2>2, <2>4, <3>1, <3>2
  <2>10. ASSUME e.kind = "run_completed", s.known.run # NoRow
        PROVE  \E x \in t.db.runs : x.id = t.known.run /\ x.status = "done"
    <3>1. a = s
      BY <1>4, <2>10
    <3>2. \E x \in u.db.runs : x.id = s.known.run /\ x.status = "done"
      BY <2>3, <2>10, <3>1, UpdateAdds
    <3> QED BY <2>2, <2>4, <3>1, <3>2
  <2>11. t.known.run # NoRow /\ (e.kind = "milestone_started" => t.known.milestone # NoRow)
    BY <2>1, <2>2, <2>4
  <2> HIDE DEF skip, Starts0
  <2> QED BY <2>4, <2>5, <2>8, <2>9, <2>10, <2>11 DEF t, Starts0
<1> QED BY <1>5, <1>6

-----------------------------------------------------------------------------
(* What a sync files                                                       *)

(* Only a lint of the specification is of no run.                          *)
Linted(q) ==
  \A i \in DOMAIN q : q[i].kind = "spec_lint_completed" => q[i].run = Standalone

(* The events of a run in S follow its start, and the end of a milestone   *)
(* of a run in M follows the milestone's start.                            *)
Ordered(q, S, M) ==
  \A i \in DOMAIN q :
    /\ q[i].run \in S /\ q[i].kind # "run_started" =>
         \E j \in 1 .. i - 1 : q[j] = Event(q[i].run, "run_started")
    /\ q[i].run \in M /\ q[i].kind = "milestone_completed" =>
         \E j \in 1 .. i - 1 : q[j] = Event(q[i].run, "milestone_started")

(* What a sync has filed of an event, by what it knew before and knows after.*)
FilesAll(s, t, e, drop) ==
  /\ /\ e.run \in RunIds /\ StartsFiled(s.db, NoRow)
     /\ e.kind = "run_started" \/ s.known.run # NoRow
     => /\ t.known.run # NoRow
        /\ e \notin drop => [of |-> t.known.run, kind |-> e.kind] \in t.db.events
        /\ e.kind = "milestone_started" => t.known.milestone # NoRow
  /\ e.kind = "milestone_completed" /\ s.known.milestone # NoRow /\ OwnMilestone(s) =>
       \E m \in t.db.milestones : m.of = t.known.run /\ m.status = "done"
  /\ e.kind = "run_completed" /\ s.known.run # NoRow =>
       \E x \in t.db.runs : x.id = t.known.run /\ x.status = "done"

LEMMA SyncFollows ==
  ASSUME NEW s, NEW e \in Events, Filed(s, e.run), NEW pick,
         e.kind = "spec_lint_completed" => e.run = Standalone,
         NEW drop, \A x \in drop : x.kind # "run_started"
  PROVE  FilesAll(s, SyncEvent(s, e, pick, drop), e, drop)
<1> DEFINE t == SyncEvent(s, e, pick, drop)
<1>1. /\ /\ e.run \in RunIds /\ StartsFiled(s.db, NoRow)
         /\ e.kind = "run_started" \/ s.known.run # NoRow
         => /\ t.known.run # NoRow
            /\ e \notin drop => [of |-> t.known.run, kind |-> e.kind] \in t.db.events
            /\ e.kind = "milestone_started" => t.known.milestone # NoRow
      /\ e.kind = "milestone_completed" /\ s.known.milestone # NoRow /\ OwnMilestone(s) =>
           \E m \in t.db.milestones : m.of = t.known.run /\ m.status = "done"
      /\ e.kind = "run_completed" /\ s.known.run # NoRow =>
           \E x \in t.db.runs : x.id = t.known.run /\ x.status = "done"
  BY SyncAdds
<1> HIDE DEF t
<1> QED BY <1>1 DEF t, FilesAll

(* The tables say of the run whose row has this id what an event says.     *)
Tells(d, id, e, drop, M) ==
  /\ e \notin drop => [of |-> id, kind |-> e.kind] \in d.events
  /\ e.kind = "run_completed" => \E x \in d.runs : x.id = id /\ x.status = "done"
  /\ e.kind = "milestone_completed" /\ e.run \in M =>
       \E m \in d.milestones : m.of = id /\ m.status = "done"

LEMMA TellsOn ==
  ASSUME NEW d, NEW e, Onward(d, e), NEW id, NEW line, NEW drop, NEW M,
         Tells(d, id, line, drop, M)
  PROVE  Tells(e, id, line, drop, M)
<1>1. line \notin drop => [of |-> id, kind |-> line.kind] \in e.events
  BY DEF Onward, Tells
<1>2. ASSUME line.kind = "run_completed"
      PROVE  \E x \in e.runs : x.id = id /\ x.status = "done"
  <2>1. PICK x \in d.runs : x.id = id /\ x.status = "done"
    BY <1>2 DEF Tells
  <2> QED BY <2>1 DEF Onward
<1>3. ASSUME line.kind = "milestone_completed", line.run \in M
      PROVE  \E m \in e.milestones : m.of = id /\ m.status = "done"
  <2>1. PICK m \in d.milestones : m.of = id /\ m.status = "done"
    BY <1>3 DEF Tells
  <2> QED BY <2>1 DEF Onward
<1> QED BY <1>1, <1>2, <1>3 DEF Tells

(* A sync files, of every run whose start it has read, all it has read.    *)
LEMMA SyncAllTells ==
  ASSUME NEW rows \in Tables, Tabled(rows), StartsFiled(rows, NoRow), NEW pick,
         NEW drop, \A x \in drop : x.kind # "run_started",
         NEW read \in Seq(Events), Linted(read), NEW S \in SUBSET RunIds,
         NEW M, Ordered(read, S, M)
  PROVE  LET d == SyncAll(rows, read, pick, drop)
         IN  /\ StartsFiled(d, NoRow)
             /\ \A r \in S : (\E i \in DOMAIN read : read[i].run = r) =>
                  \E x \in d.runs : x.run = r /\
                    \A i \in DOMAIN read : read[i].run = r => Tells(d, x.id, read[i], drop, M)
<1> DEFINE n == Len(read)
           acc0 == [db |-> rows, at |-> NoneKnown]
           Own(acc, q) == [db |-> acc.db, known |-> acc.at[q]]
           all == [db : Tables, at : [0 .. MaxRuns -> Known]]
           A == {acc \in all :
                   /\ Tabled(acc.db) /\ StartsFiled(acc.db, NoRow)
                   /\ \A q \in 0 .. MaxRuns :
                        Knows(acc.db, acc.at[q], q) /\ OwnMilestone(Own(acc, q))}
           Reached(acc, e) ==
             /\ acc.at[e.run].run # NoRow
             /\ Tells(acc.db, acc.at[e.run].run, e, drop, M)
             /\ e.kind = "milestone_started" => acc.at[e.run].milestone # NoRow
           Good == [k \in 0 .. n |->
                      {acc \in A : \A i \in 1 .. k : read[i].run \in S => Reached(acc, read[i])}]
<1>1. n \in Nat /\ DOMAIN read = 1 .. n /\ \A i \in 1 .. n : read[i] \in Events
  OBVIOUS
<1>2. acc0 \in A
  <2>1. NoRows \in Known /\ NoRows.run = NoRow /\ NoRows.milestone = NoRow
    BY DEF NoRows, Known, NoRow
  <2>2. \A q \in 0 .. MaxRuns : Knows(rows, NoRows, q)
    BY <2>1 DEF Knows
  <2>3. NoneKnown \in [0 .. MaxRuns -> Known] /\ \A q \in 0 .. MaxRuns : NoneKnown[q] = NoRows
    BY <2>1 DEF NoneKnown
  <2>4. acc0 \in all /\ acc0.db = rows /\ acc0.at = NoneKnown
    BY <2>3
  <2> HIDE DEF acc0
  <2>5. ASSUME NEW q \in 0 .. MaxRuns PROVE OwnMilestone(Own(acc0, q))
    BY <2>1, <2>3, <2>4 DEF OwnMilestone
  <2> HIDE DEF Own
  <2> QED BY <2>2, <2>3, <2>4, <2>5
<1>3. ASSUME NEW acc \in A, NEW i \in 1 .. n
      PROVE  LET e == read[i]
                 s == Own(acc, e.run)
                 t == SyncEvent(s, e, pick, drop)
                 next == File(acc, e, pick, drop)
             IN  /\ next \in A /\ Filed(s, e.run) /\ Adds(s, t)
                 /\ next.db = t.db /\ next.at[e.run] = t.known
                 /\ \A q \in 0 .. MaxRuns : q # e.run => next.at[q] = acc.at[q]
  <2> DEFINE e == read[i]
             s == Own(acc, e.run)
             t == SyncEvent(s, e, pick, drop)
             after == [acc.at EXCEPT ![e.run] = t.known]
             next == File(acc, e, pick, drop)
  <2>1. e \in Events /\ e.run \in 0 .. MaxRuns
        /\ (e.kind = "spec_lint_completed" => e.run = Standalone)
    BY <1>1 DEF Events, Linted
  <2>2. /\ acc.db \in Tables /\ acc.at \in [0 .. MaxRuns -> Known] /\ Tabled(acc.db)
        /\ StartsFiled(acc.db, NoRow)
        /\ \A q \in 0 .. MaxRuns : Knows(acc.db, acc.at[q], q)
    OBVIOUS
  <2>3. \A q \in 0 .. MaxRuns : OwnMilestone(Own(acc, q))
    OBVIOUS
  <2>4. next = [db |-> t.db, at |-> after]
    BY DEF File
  <2> HIDE DEF e, next
  <2>5. Filed(s, e.run) /\ s.db = acc.db /\ s.known = acc.at[e.run]
    BY <2>1, <2>2 DEF Filed, Filing
  <2>6. OwnMilestone(s)
    BY <2>1, <2>3
  <2>7. \A q \in 0 .. MaxRuns : Own(acc, q).db = acc.db /\ Own(acc, q).known = acc.at[q]
    OBVIOUS
  <2> HIDE DEF s, Own
  <2>8. Keeps(s, t, e.run)
    BY <2>1, <2>5, SyncKeeps
  <2>9. Adds(s, t) /\ StartsFiled(t.db, NoRow)
    BY <2>1, <2>2, <2>5, SyncAdds
  <2> HIDE DEF t
  <2>10. /\ Tabled(t.db) /\ t.db \in Tables /\ t.known \in Known
         /\ Knows(t.db, t.known, e.run) /\ Grows(acc.db, t.db, {e.run})
    BY <2>5, <2>8, Parts DEF Keeps, Filed
  <2>11. after \in [0 .. MaxRuns -> Known] /\ after[e.run] = t.known
         /\ \A q \in 0 .. MaxRuns : q # e.run => after[q] = acc.at[q]
    BY <2>1, <2>2, <2>10
  <2> HIDE DEF after
  <2>12. next \in all /\ next.db = t.db /\ next.at = after
    BY <2>4, <2>10, <2>11
  <2>13. ASSUME NEW q \in 0 .. MaxRuns PROVE Knows(t.db, after[q], q)
    <3>1. CASE q = e.run
      BY <2>10, <2>11, <3>1
    <3>2. CASE q # e.run
      BY <2>2, <2>10, <2>11, <3>2, GrowthKeeps
    <3> QED BY <3>1, <3>2
  <2>14. ASSUME NEW q \in 0 .. MaxRuns PROVE OwnMilestone(Own(next, q))
    <3>1. Own(next, q).db = t.db /\ Own(next, q).known = after[q]
      BY <2>12 DEF Own
    <3>2. CASE q = e.run
      <4>1. OwnMilestone(t)
        BY <2>6, <2>9 DEF Adds
      <4> QED BY <2>11, <3>1, <3>2, <4>1 DEF OwnMilestone
    <3>3. CASE q # e.run
      <4>1. Onward(Own(acc, q).db, Own(next, q).db)
        BY <2>5, <2>7, <2>9, <3>1 DEF Adds
      <4>2. Own(next, q).known = Own(acc, q).known
        BY <2>7, <2>11, <3>1, <3>3
      <4> QED BY <2>3, <4>1, <4>2, StillOwn
    <3> QED BY <3>2, <3>3
  <2>15. next \in A
    BY <2>9, <2>10, <2>12, <2>13, <2>14
  <2> QED BY <2>5, <2>9, <2>11, <2>12, <2>15 DEF e, s, t, next
<1> HIDE DEF A
<1>4. acc0 \in Good[0]
  BY <1>1, <1>2
<1>5. ASSUME NEW k \in 0 .. n - 1, NEW acc \in Good[k]
      PROVE  File(acc, read[k + 1], pick, drop) \in Good[k + 1]
  <2> DEFINE e == read[k + 1]
             s == Own(acc, e.run)
             t == SyncEvent(s, e, pick, drop)
             next == File(acc, e, pick, drop)
  <2>1. k \in 0 .. n /\ k + 1 \in 0 .. n /\ k + 1 \in 1 .. n /\ k + 1 \in DOMAIN read
    BY <1>1
  <2>2. acc \in A /\ \A i \in 1 .. k : read[i].run \in S => Reached(acc, read[i])
    BY <1>5, <2>1
  <2>3. /\ next \in A /\ Filed(s, e.run) /\ Adds(s, t)
        /\ next.db = t.db /\ next.at[e.run] = t.known
        /\ \A q \in 0 .. MaxRuns : q # e.run => next.at[q] = acc.at[q]
    BY <1>3, <2>1, <2>2
  <2>4. s.db = acc.db /\ s.known = acc.at[e.run]
    OBVIOUS
  <2>5. OwnMilestone(s) /\ StartsFiled(s.db, NoRow)
    <3>1. e.run \in 0 .. MaxRuns
      BY <1>1, <2>1 DEF Events
    <3> HIDE DEF e
    <3> QED BY <2>2, <3>1 DEF A
  <2>6. e \in Events /\ (e.kind = "spec_lint_completed" => e.run = Standalone)
    BY <1>1, <2>1 DEF Linted
  <2>7. /\ e.run \in S /\ e.kind # "run_started" =>
             \E j \in 1 .. k : read[j] = Event(e.run, "run_started")
        /\ e.run \in M /\ e.kind = "milestone_completed" =>
             \E j \in 1 .. k : read[j] = Event(e.run, "milestone_started")
    <3>1. (k + 1) - 1 = k
      BY <2>1
    <3> DEFINE i == k + 1
    <3>2. i \in DOMAIN read /\ i - 1 = k
      BY <2>1, <3>1
    <3> HIDE DEF i
    <3>3. /\ read[i].run \in S /\ read[i].kind # "run_started" =>
               \E j \in 1 .. i - 1 : read[j] = Event(read[i].run, "run_started")
          /\ read[i].run \in M /\ read[i].kind = "milestone_completed" =>
               \E j \in 1 .. i - 1 : read[j] = Event(read[i].run, "milestone_started")
      BY <3>2 DEF Ordered
    <3>4. e = read[i]
      BY DEF i
    <3> HIDE DEF e
    <3> QED BY <3>2, <3>3, <3>4
  <2> HIDE DEF e, s, next
  <2>8. ASSUME NEW j \in 1 .. k, read[j].run \in S PROVE Reached(next, read[j])
    <3> DEFINE f == read[j]
    <3>1. Reached(acc, f) /\ f.run \in 0 .. MaxRuns
      BY <2>1, <2>2, <2>8, <1>1 DEF Events
    <3> HIDE DEF f, t
    <3>2. next.at[f.run].run = acc.at[f.run].run
          /\ (acc.at[f.run].milestone # NoRow => next.at[f.run].milestone # NoRow)
      BY <2>3, <2>4, <3>1 DEF Adds
    <3>3. Onward(acc.db, next.db)
      BY <2>3, <2>4 DEF Adds
    <3> QED BY <3>1, <3>2, <3>3, TellsOn DEF f
  <2>9. ASSUME e.run \in S PROVE Reached(next, e)
    <3>1. e.kind = "run_started" \/ s.known.run # NoRow
      <4>1. ASSUME e.kind # "run_started" PROVE s.known.run # NoRow
        <5>1. PICK j \in 1 .. k : read[j] = Event(e.run, "run_started")
          BY <2>7, <2>9, <4>1
        <5>2. read[j].run = e.run
          BY <5>1 DEF Event
        <5> QED BY <2>2, <2>4, <2>9, <5>2
      <4> QED BY <4>1
    <3>2. e.kind = "milestone_completed" /\ e.run \in M => s.known.milestone # NoRow
      <4>1. ASSUME e.kind = "milestone_completed", e.run \in M PROVE s.known.milestone # NoRow
        <5>1. PICK j \in 1 .. k : read[j] = Event(e.run, "milestone_started")
          BY <2>7, <2>9, <4>1
        <5>2. read[j].run = e.run /\ read[j].kind = "milestone_started"
          BY <5>1 DEF Event
        <5> QED BY <2>2, <2>4, <2>9, <5>2
      <4> QED BY <4>1
    <3>3. /\ t.known.run # NoRow
          /\ e \notin drop => [of |-> t.known.run, kind |-> e.kind] \in t.db.events
          /\ e.kind = "milestone_started" => t.known.milestone # NoRow
          /\ e.kind = "milestone_completed" /\ e.run \in M =>
               \E m \in t.db.milestones : m.of = t.known.run /\ m.status = "done"
          /\ e.kind = "run_completed" =>
               \E x \in t.db.runs : x.id = t.known.run /\ x.status = "done"
      <4>1. e.run \in RunIds
        BY <1>1, <2>9
      <4>2. \A x \in drop : x.kind # "run_started"
        BY <1>1
      <4>3. FilesAll(s, t, e, drop)
        <5>1. Filed(s, e.run)
          BY <2>3
        <5> HIDE DEF e, s, next
        <5> QED BY <2>6, <4>2, <5>1, SyncFollows
      <4> HIDE DEF t, s, e
      <4> QED BY <2>5, <3>1, <3>2, <4>1, <4>3 DEF FilesAll
    <3> HIDE DEF t
    <3> QED BY <2>3, <3>3 DEF Tells
  <2>10. ASSUME NEW j \in 1 .. k + 1, read[j].run \in S PROVE Reached(next, read[j])
    <3>1. CASE j = k + 1
      <4> HIDE DEF Reached
      <4> QED BY <2>9, <2>10, <3>1 DEF e
    <3>2. CASE j \in 1 .. k
      <4> HIDE DEF Reached
      <4> QED BY <2>8, <2>10, <3>2
    <3> QED BY <2>1, <3>1, <3>2
  <2> HIDE DEF Reached
  <2> QED BY <2>1, <2>3, <2>10 DEF e, next
<1>6. \E acc \in Good[n] : SyncAll(rows, read, pick, drop) = acc.db
  <2> HIDE DEF Good
  <2>1. \A acc \in A : \A i \in 1 .. n : File(acc, read[i], pick, drop) \in A
    BY <1>3
  <2> QED BY <1>1, <1>2, <1>4, <1>5, <2>1, FoldOfSync
<1>7. PICK acc \in A : /\ SyncAll(rows, read, pick, drop) = acc.db
                       /\ \A i \in 1 .. n : read[i].run \in S => Reached(acc, read[i])
  <2> HIDE DEF Reached
  <2> QED BY <1>1, <1>6
<1>8. StartsFiled(acc.db, NoRow) /\ \A q \in 0 .. MaxRuns : Knows(acc.db, acc.at[q], q)
  BY DEF A
<1>9. ASSUME NEW r \in S, NEW i \in DOMAIN read, read[i].run = r
      PROVE  \E x \in acc.db.runs : x.run = r /\
               \A j \in DOMAIN read : read[j].run = r => Tells(acc.db, x.id, read[j], drop, M)
  <2>1. r \in 0 .. MaxRuns
    BY Constants DEF RunIds
  <2>2. acc.at[r].run # NoRow
    BY <1>1, <1>7, <1>9
  <2>3. PICK x \in acc.db.runs : x.id = acc.at[r].run /\ x.run = r
    BY <1>8, <2>1, <2>2 DEF Knows
  <2> QED BY <1>1, <1>7, <2>3
<1> QED BY <1>7, <1>8, <1>9

(* A line that is added keeps the lines in order.                          *)
LEMMA OrderedOn ==
  ASSUME NEW q \in Seq(Events), NEW S, NEW M, Ordered(q, S, M), NEW e \in Events,
         e.run \in S /\ e.kind # "run_started" =>
           \E j \in 1 .. Len(q) : q[j] = Event(e.run, "run_started"),
         e.run \in M /\ e.kind = "milestone_completed" =>
           \E j \in 1 .. Len(q) : q[j] = Event(e.run, "milestone_started")
  PROVE  Ordered(Append(q, e), S, M)
<1> DEFINE n == Len(q)
           more == Append(q, e)
           Met(i, kind) == \E j \in 1 .. i - 1 : more[j] = Event(more[i].run, kind)
           Follows(i) == /\ more[i].run \in S /\ more[i].kind # "run_started" =>
                              Met(i, "run_started")
                         /\ more[i].run \in M /\ more[i].kind = "milestone_completed" =>
                              Met(i, "milestone_started")
<1>1. /\ n \in Nat /\ DOMAIN q = 1 .. n /\ DOMAIN more = 1 .. n + 1
      /\ more[n + 1] = e /\ \A i \in 1 .. n : more[i] = q[i]
  OBVIOUS
<1>2. (n + 1) - 1 = n
  BY <1>1
<1> HIDE DEF more
<1>3. ASSUME NEW i \in 1 .. n PROVE Follows(i)
  <2>1. more[i] = q[i] /\ i \in DOMAIN q /\ \A j \in 1 .. i - 1 : j \in 1 .. n
    BY <1>1
  <2>2. /\ q[i].run \in S /\ q[i].kind # "run_started" =>
             \E j \in 1 .. i - 1 : q[j] = Event(q[i].run, "run_started")
        /\ q[i].run \in M /\ q[i].kind = "milestone_completed" =>
             \E j \in 1 .. i - 1 : q[j] = Event(q[i].run, "milestone_started")
    BY <2>1 DEF Ordered
  <2>3. \A j \in 1 .. i - 1 : more[j] = q[j]
    BY <1>1, <2>1
  <2> QED BY <2>1, <2>2, <2>3
<1>4. ASSUME NEW i, i = n + 1 PROVE Follows(i)
  <2>1. more[i] = e /\ i - 1 = n
    BY <1>1, <1>2, <1>4
  <2>2. \A j \in 1 .. i - 1 : more[j] = q[j]
    BY <1>1, <2>1
  <2> HIDE DEF n
  <2>3. /\ e.run \in S /\ e.kind # "run_started" =>
             \E j \in 1 .. i - 1 : q[j] = Event(e.run, "run_started")
        /\ e.run \in M /\ e.kind = "milestone_completed" =>
             \E j \in 1 .. i - 1 : q[j] = Event(e.run, "milestone_started")
    BY <2>1 DEF n
  <2> QED BY <2>1, <2>2, <2>3
<1>5. ASSUME NEW i \in DOMAIN more PROVE Follows(i)
  <2>1. i \in 1 .. n \/ i = n + 1
    BY <1>1
  <2> HIDE DEF Follows
  <2> QED BY <1>3, <1>4, <2>1
<1> QED BY <1>5 DEF Ordered, more

LEMMA LintedOn ==
  ASSUME NEW q \in Seq(Events), Linted(q), NEW e \in Events,
         e.kind = "spec_lint_completed" => e.run = Standalone
  PROVE  Linted(Append(q, e))
<1> DEFINE n == Len(q)
           more == Append(q, e)
<1>1. /\ n \in Nat /\ DOMAIN q = 1 .. n /\ DOMAIN more = 1 .. n + 1
      /\ more[n + 1] = e /\ \A i \in 1 .. n : more[i] = q[i]
  OBVIOUS
<1> HIDE DEF more
<1>2. ASSUME NEW i \in DOMAIN more, more[i].kind = "spec_lint_completed"
      PROVE  more[i].run = Standalone
  <2>1. CASE i \in 1 .. n
    BY <1>1, <1>2, <2>1 DEF Linted
  <2>2. CASE i = n + 1
    BY <1>1, <1>2, <2>2
  <2> QED BY <1>1, <2>1, <2>2
<1> QED BY <1>2 DEF Linted, more

(* What a reader is left with tells, in the same order, what can be read.  *)
LEMMA ReadableTells ==
  ASSUME NEW file, file.lines \in Seq(Events), Linted(file.lines),
         NEW S, NEW M, Ordered(file.lines, S, M)
  PROVE  LET q == Readable(file)
         IN  /\ q \in Seq(Events) /\ Linted(q) /\ Ordered(q, S, M) /\ q # NoSync
             /\ \A i \in DOMAIN file.lines : file.lines[i] # Garbage =>
                  \E j \in DOMAIN q : q[j] = file.lines[i]
<1> DEFINE n == Len(file.lines)
           Holds(q, k) == \A i \in 1 .. k : file.lines[i] # Garbage =>
                             \E j \in 1 .. Len(q) : q[j] = file.lines[i]
           Clear(q) == \A j \in 1 .. Len(q) : q[j] # Garbage
           Good == [k \in 0 .. n |-> {q \in Seq(Events) : /\ Linted(q) /\ Ordered(q, S, M)
                                                         /\ Holds(q, k) /\ Clear(q)}]
<1>1. n \in Nat /\ DOMAIN file.lines = 1 .. n /\ \A i \in 1 .. n : file.lines[i] \in Events
  OBVIOUS
<1>2. <<>> \in Good[0]
  <2>1. <<>> \in Seq(Events) /\ DOMAIN <<>> = {} /\ 1 .. 0 = {}
    OBVIOUS
  <2>2. Linted(<<>>) /\ Ordered(<<>>, S, M) /\ Holds(<<>>, 0) /\ Clear(<<>>)
    BY <2>1 DEF Linted, Ordered
  <2> HIDE DEF Holds, Clear
  <2> QED BY <1>1, <2>1, <2>2
<1>3. ASSUME NEW k \in 0 .. n - 1, NEW q \in Good[k]
      PROVE  (IF file.lines[k + 1] = Garbage THEN q ELSE Append(q, file.lines[k + 1]))
               \in Good[k + 1]
  <2> DEFINE e == file.lines[k + 1]
             m == Len(q)
  <2>1. k \in 0 .. n /\ k + 1 \in 0 .. n /\ k + 1 \in 1 .. n /\ (k + 1) - 1 = k
    BY <1>1
  <2>2. /\ e \in Events /\ q \in Seq(Events) /\ Linted(q) /\ Ordered(q, S, M)
        /\ Holds(q, k) /\ Clear(q)
    <3> HIDE DEF Holds, Clear
    <3> QED BY <1>1, <2>1
  <2>3. \A i \in 1 .. k + 1 : i \in 1 .. k \/ i = k + 1
    BY <2>1
  <2>4. CASE e = Garbage
    <3>1. Holds(q, k + 1)
      BY <2>2, <2>3, <2>4
    <3> HIDE DEF Holds, Clear
    <3> QED BY <2>1, <2>2, <2>4, <3>1
  <2>5. CASE e # Garbage
    <3> DEFINE more == Append(q, e)
    <3>1. /\ m \in Nat /\ DOMAIN q = 1 .. m /\ more \in Seq(Events) /\ Len(more) = m + 1
          /\ more[m + 1] = e /\ \A j \in 1 .. m : more[j] = q[j]
      BY <2>2
    <3>2. 1 .. m \subseteq 1 .. m + 1 /\ m + 1 \in 1 .. m + 1
      BY <3>1
    <3> HIDE DEF more
    <3>3. ASSUME NEW i \in 1 .. k, file.lines[i] # Garbage
          PROVE  \E j \in 1 .. Len(more) : more[j] = file.lines[i]
      <4>1. PICK j \in 1 .. m : q[j] = file.lines[i]
        BY <2>2, <3>3
      <4> HIDE DEF m
      <4> QED BY <3>1, <3>2, <4>1
    <3>4. \E j \in 1 .. Len(more) : more[j] = e
      <4> HIDE DEF m
      <4> QED BY <3>1, <3>2
    <3>5. Holds(more, k + 1)
      BY <2>3, <3>3, <3>4
    <3>6. Clear(more)
      <4>1. \A j \in 1 .. m + 1 : j \in 1 .. m \/ j = m + 1
        BY <3>1
      <4>2. \A j \in 1 .. m : q[j] # Garbage
        BY <2>2
      <4> HIDE DEF m, e
      <4> QED BY <2>5, <3>1, <4>1, <4>2
    <3>7. Linted(more)
      <4>1. e.kind = "spec_lint_completed" => e.run = Standalone
        BY <1>1, <2>1 DEF Linted
      <4> HIDE DEF e
      <4> QED BY <2>2, <4>1, LintedOn DEF more
    <3>8. Ordered(more, S, M)
      <4> DEFINE i == k + 1
      <4>1. i \in DOMAIN file.lines /\ i - 1 = k /\ file.lines[i] = e
        BY <1>1, <2>1
      <4> HIDE DEF i, e
      <4>2. /\ e.run \in S /\ e.kind # "run_started" =>
                 \E j \in 1 .. k : file.lines[j] = Event(e.run, "run_started")
            /\ e.run \in M /\ e.kind = "milestone_completed" =>
                 \E j \in 1 .. k : file.lines[j] = Event(e.run, "milestone_started")
        BY <4>1 DEF Ordered
      <4>3. Event(e.run, "run_started") # Garbage /\ Event(e.run, "milestone_started") # Garbage
        <5>1. /\ Event(e.run, "run_started").kind = "run_started"
              /\ Event(e.run, "milestone_started").kind = "milestone_started"
              /\ Garbage.kind = "garbage"
          BY DEF Event, Garbage
        <5> QED BY <5>1
      <4>4. ASSUME NEW kind, Event(e.run, kind) # Garbage,
                   \E j \in 1 .. k : file.lines[j] = Event(e.run, kind)
            PROVE  \E j \in 1 .. Len(q) : q[j] = Event(e.run, kind)
        BY <2>2, <4>4
      <4>5. /\ e.run \in S /\ e.kind # "run_started" =>
                 \E j \in 1 .. Len(q) : q[j] = Event(e.run, "run_started")
            /\ e.run \in M /\ e.kind = "milestone_completed" =>
                 \E j \in 1 .. Len(q) : q[j] = Event(e.run, "milestone_started")
        BY <4>2, <4>3, <4>4
      <4> QED BY <2>2, <4>5, OrderedOn DEF more
    <3> HIDE DEF Holds, Clear
    <3> QED BY <2>1, <2>5, <3>1, <3>5, <3>6, <3>7, <3>8 DEF more
  <2> HIDE DEF Good
  <2> QED BY <2>4, <2>5
<1>4. Readable(file) \in Good[n]
  <2> HIDE DEF Good
  <2> QED BY <1>2, <1>3, FoldOfReading DEF n
<1> DEFINE q == Readable(file)
<1> HIDE DEF q
<1>5. /\ q \in Seq(Events) /\ Linted(q) /\ Ordered(q, S, M)
      /\ Holds(q, n) /\ Clear(q)
  <2> HIDE DEF Holds, Clear
  <2> QED BY <1>1, <1>4 DEF q
<1>6. DOMAIN q = 1 .. Len(q)
  BY <1>5
<1>7. q # NoSync
  <2>1. Len(NoSync) = 1 /\ NoSync[1] = Garbage
    BY DEF NoSync
  <2> QED BY <1>5, <2>1
<1> QED BY <1>1, <1>5, <1>6, <1>7 DEF q

(* What the writer files of a run that starts has the event it starts with. *)
LEMMA StartsKept ==
  ASSUME NEW d, NEW f, NEW but, StartsFiled(d, but),
         \A y \in f.runs : \E x \in d.runs : x.id = y.id /\ x.run = y.run,
         d.events \subseteq f.events
  PROVE  StartsFiled(f, but)
<1> SUFFICES ASSUME NEW y \in f.runs, y.run \in RunIds
             PROVE  y.id = but \/ [of |-> y.id, kind |-> "run_started"] \in f.events
  BY DEF StartsFiled
<1>1. PICK x \in d.runs : x.id = y.id /\ x.run = y.run
  OBVIOUS
<1> QED BY <1>1 DEF StartsFiled

LEMMA WriterFilesStarts ==
  ASSUME NEW s, NEW e \in Events, Filed(s, e.run), StartsFiled(s.db, NoRow)
  PROVE  StartsFiled(WriteEvent(s, e).db, NoRow)
<1> DEFINE r == e.run
           started == IF e.kind = "run_started" THEN AddRun(s, r, "running") ELSE s
           opens == /\ e.kind = "milestone_started" /\ started.known.run /= NoRow
                    /\ started.known.milestone = NoRow
           updated == IF opens THEN AddMilestone(started) ELSE Update(started, e.kind)
           t == IF updated.known.run = NoRow THEN updated ELSE AddEvent(updated, e.kind)
           but == IF e.kind = "run_started" THEN started.known.run ELSE NoRow
<1>1. WriteEvent(s, e) = t
  BY DEF WriteEvent
<1>2. r \in 0 .. MaxRuns /\ e.kind \in EventKinds /\ Filed(s, r)
  BY DEF Events, EventKinds
<1> HIDE DEF r
<1>3. /\ Filed(started, r) /\ StartsFiled(started.db, but)
      /\ e.kind = "run_started" => started.known.run # NoRow
  <2>1. CASE e.kind = "run_started"
    <3> DEFINE a == AddRun(s, r, "running")
    <3>1. Keeps(s, a, r)
      BY <1>2, NewRun DEF Statuses
    <3>2. a.known.run # NoRow /\ StartsFiled(a.db, a.known.run)
      BY <1>2, RunAdded DEF Statuses
    <3> HIDE DEF a
    <3>3. started = a
      BY <2>1 DEF a
    <3> QED BY <2>1, <3>1, <3>2, <3>3 DEF Keeps
  <2>2. CASE e.kind # "run_started"
    BY <1>2, <2>2
  <2> QED BY <2>1, <2>2
<1>4. e.kind = "run_started" => ~opens
  OBVIOUS
<1> HIDE DEF started, but
<1>5. /\ Filed(updated, r) /\ StartsFiled(updated.db, but)
      /\ e.kind = "run_started" => updated.known.run = started.known.run
  <2>1. CASE opens
    <3>1. Keeps(started, AddMilestone(started), r)
      BY <1>3, <2>1, NewMilestone
    <3>2. /\ AddMilestone(started).db.runs = started.db.runs
          /\ AddMilestone(started).db.events = started.db.events
      BY <1>3, <2>1, MilestoneAdded
    <3>3. updated = AddMilestone(started)
      BY <2>1
    <3> HIDE DEF updated
    <3>4. StartsFiled(updated.db, but)
      BY <1>3, <3>2, <3>3 DEF StartsFiled
    <3> QED BY <1>4, <2>1, <3>1, <3>3, <3>4 DEF Keeps
  <2>2. CASE ~opens
    <3> DEFINE u == Update(started, e.kind)
    <3>1. Keeps(started, u, r)
      BY <1>3, UpdateMarks DEF Marks
    <3>2. /\ u.db.events = started.db.events /\ u.known.run = started.known.run
          /\ \A y \in u.db.runs : \E x \in started.db.runs : x.id = y.id /\ x.run = y.run
      BY <1>3, UpdateAdds
    <3> HIDE DEF u
    <3>3. StartsFiled(u.db, but)
      BY <1>3, <3>2, StartsKept
    <3>4. updated = u
      BY <2>2 DEF u
    <3> HIDE DEF updated
    <3> QED BY <3>1, <3>2, <3>3, <3>4 DEF Keeps
  <2> QED BY <2>1, <2>2
<1> HIDE DEF updated
<1>6. CASE updated.known.run = NoRow
  <2>1. e.kind # "run_started"
    BY <1>3, <1>5, <1>6
  <2>2. t = updated /\ but = NoRow
    BY <1>6, <2>1 DEF but
  <2> QED BY <1>1, <1>5, <2>2
<1>7. CASE updated.known.run # NoRow
  <2>1. t = AddEvent(updated, e.kind)
    BY <1>7
  <2> HIDE DEF t
  <2>2. /\ t.db.runs = updated.db.runs
        /\ t.db.events = updated.db.events \cup {[of |-> updated.known.run, kind |-> e.kind]}
    BY <1>5, <2>1, EventAdded
  <2>3. CASE e.kind = "run_started"
    <3>1. but = updated.known.run
      BY <1>5, <2>3 DEF but
    <3>2. ASSUME NEW x \in t.db.runs, x.run \in RunIds
          PROVE  [of |-> x.id, kind |-> "run_started"] \in t.db.events
      BY <1>5, <2>2, <2>3, <3>1, <3>2 DEF StartsFiled
    <3> QED BY <1>1, <3>2 DEF StartsFiled
  <2>4. CASE e.kind # "run_started"
    <3>1. but = NoRow
      BY <2>4 DEF but
    <3>2. StartsFiled(t.db, NoRow)
      BY <1>5, <2>2, <3>1 DEF StartsFiled
    <3> QED BY <1>1, <3>2
  <2> QED BY <2>3, <2>4
<1> QED BY <1>6, <1>7

LEMMA BatchFilesStarts ==
  ASSUME NEW r, NEW rows, NEW have, NEW taken \in Seq(Events),
         Filed([db |-> rows, known |-> have], r), StartsFiled(rows, NoRow),
         \A i \in DOMAIN taken : taken[i].run = r
  PROVE  StartsFiled(WriteAll(rows, have, taken).db, NoRow)
<1> DEFINE s0 == [db |-> rows, known |-> have]
           n == Len(taken)
           A == {s \in Filing : Filed(s, r) /\ StartsFiled(s.db, NoRow)}
           Good == [k \in 0 .. n |-> A]
<1>1. n \in Nat /\ DOMAIN taken = 1 .. n /\ \A i \in 1 .. n : taken[i] \in Events
  OBVIOUS
<1>2. s0 \in A
  BY DEF Filed
<1>3. ASSUME NEW s \in A, NEW i \in 1 .. n PROVE WriteEvent(s, taken[i]) \in A
  <2> DEFINE t == WriteEvent(s, taken[i])
  <2>1. Filed(s, taken[i].run) /\ taken[i].run = r /\ taken[i] \in Events
        /\ StartsFiled(s.db, NoRow)
    BY <1>1
  <2>2. Keeps(s, t, r)
    BY <2>1, WriterKeeps
  <2>3. StartsFiled(t.db, NoRow)
    BY <2>1, WriterFilesStarts
  <2> HIDE DEF t
  <2>4. t \in A
    BY <2>2, <2>3 DEF Keeps, Filed
  <2> QED BY <2>4 DEF t
<1> HIDE DEF A
<1>4. ASSUME NEW k \in 0 .. n - 1, NEW s \in Good[k]
      PROVE  WriteEvent(s, taken[k + 1]) \in Good[k + 1]
  <2>1. k \in 0 .. n /\ k + 1 \in 0 .. n /\ k + 1 \in 1 .. n
    BY <1>1
  <2> QED BY <1>3, <1>4, <2>1
<1>5. s0 \in Good[0] /\ Good[n] = A
  BY <1>1, <1>2
<1>6. WriteAll(rows, have, taken) \in Good[n]
  <2> HIDE DEF Good
  <2> QED BY <1>1, <1>2, <1>3, <1>4, <1>5, FoldOfBatch
<1> DEFINE t == WriteAll(rows, have, taken)
<1> HIDE DEF t
<1>7. t \in A
  BY <1>5, <1>6 DEF t
<1>8. StartsFiled(t.db, NoRow)
  BY <1>7 DEF A
<1> QED BY <1>8 DEF t

-----------------------------------------------------------------------------
(* The telemetry file, and the rows between two runs                       *)

(* The runs whose start, or whose milestone's start, can be read: whatever *)
(* else can be read of them comes later.                                   *)
Begun(q) == {r \in RunIds : \E i \in DOMAIN q : q[i] = Event(r, "run_started")}
Opened(q) == {r \in RunIds : \E i \in DOMAIN q : q[i] = Event(r, "milestone_started")}

InOrder(q) == Linted(q) /\ Ordered(q, Begun(q), Opened(q))

LEMMA InOrderOn ==
  ASSUME NEW q \in Seq(Events), InOrder(q), NEW e \in Events,
         e.kind = "spec_lint_completed" => e.run = Standalone,
         e.run \in RunIds /\ e.kind = "run_started" => \A i \in DOMAIN q : q[i].run # e.run,
         e.run \in RunIds /\ e.kind = "milestone_started" =>
           \A i \in DOMAIN q : q[i].run = e.run => q[i].kind # "milestone_completed"
  PROVE  InOrder(Append(q, e))
<1> DEFINE n == Len(q)
           more == Append(q, e)
           S == Begun(more)
           M == Opened(more)
<1>1. /\ n \in Nat /\ DOMAIN q = 1 .. n /\ DOMAIN more = 1 .. n + 1
      /\ more[n + 1] = e /\ \A i \in 1 .. n : more[i] = q[i]
  OBVIOUS
<1>2. Linted(more)
  BY LintedOn DEF InOrder
<1> HIDE DEF more
<1>3. \A i \in DOMAIN more : (i \in DOMAIN q /\ more[i] = q[i]) \/ more[i] = e
  BY <1>1
<1>4. ASSUME NEW r \in S
      PROVE  r \in Begun(q) \/ (r = e.run /\ e.kind = "run_started" /\ r \in RunIds)
  <2>1. PICK i \in DOMAIN more : more[i] = Event(r, "run_started")
    BY DEF Begun
  <2>2. more[i].run = r /\ more[i].kind = "run_started" /\ r \in RunIds
    BY <2>1 DEF Event, Begun
  <2> QED BY <1>3, <2>1, <2>2 DEF Begun
<1>5. ASSUME NEW r \in M
      PROVE  r \in Opened(q) \/ (r = e.run /\ e.kind = "milestone_started" /\ r \in RunIds)
  <2>1. PICK i \in DOMAIN more : more[i] = Event(r, "milestone_started")
    BY DEF Opened
  <2>2. more[i].run = r /\ more[i].kind = "milestone_started" /\ r \in RunIds
    BY <2>1 DEF Event, Opened
  <2> QED BY <1>3, <2>1, <2>2 DEF Opened
<1>6. Ordered(q, Begun(q), Opened(q))
  BY DEF InOrder
<1>7. Ordered(q, S, M)
  <2>1. ASSUME NEW i \in DOMAIN q, q[i].run \in S PROVE q[i].run \in Begun(q)
    BY <1>4, <2>1
  <2>2. ASSUME NEW i \in DOMAIN q, q[i].run \in M, q[i].kind = "milestone_completed"
        PROVE  q[i].run \in Opened(q)
    BY <1>5, <2>2
  <2> HIDE DEF S, M
  <2> QED BY <1>6, <2>1, <2>2 DEF Ordered
<1>8. e.run \in S /\ e.kind # "run_started" =>
        \E j \in 1 .. n : q[j] = Event(e.run, "run_started")
  BY <1>1, <1>4 DEF Begun
<1>9. e.run \in M /\ e.kind = "milestone_completed" =>
        \E j \in 1 .. n : q[j] = Event(e.run, "milestone_started")
  BY <1>1, <1>5 DEF Opened
<1>10. Ordered(more, S, M)
  <2> HIDE DEF S, M
  <2> QED BY <1>7, <1>8, <1>9, OrderedOn DEF more
<1> QED BY <1>2, <1>10 DEF InOrder, more

(* The line of the script that starts the milestone, before it ends.       *)
Opening == IF setup.audit THEN 4 ELSE 2

LEMMA ScriptInOrder ==
  ASSUME setup \in Setups
  PROVE  /\ Opening \in Nat /\ DOMAIN Script \subseteq Nat
         /\ \A i \in DOMAIN Script : Script[i].does = "emit" =>
              /\ Script[i].what = "milestone_started" => i = Opening
              /\ Script[i].what = "milestone_completed" => i > Opening
<1>1. CASE setup.audit
  <2>1. DOMAIN Script = 1 .. 11 /\ Opening = 4
    BY <1>1, WithTrail DEF Opening
  <2>2. /\ Script[1].what = "run_started" /\ Script[4].what = "milestone_started"
        /\ Script[6].what = "phase_started" /\ Script[7].what = "phase_completed"
        /\ Script[9].what = "milestone_completed" /\ Script[10].what = "run_completed"
    BY <1>1 DEF Script, Emits
  <2>3. ASSUME NEW i \in DOMAIN Script, Script[i].does = "emit"
        PROVE  /\ Script[i].what = "milestone_started" => i = 4
               /\ Script[i].what = "milestone_completed" => i > 4
    <3>1. \/ i = 1 \/ i = 2 \/ i = 3 \/ i = 4 \/ i = 5 \/ i = 6 \/ i = 7
          \/ i = 8 \/ i = 9 \/ i = 10 \/ i = 11
      BY <2>1
    <3>2. i \in {1, 4, 6, 7, 9, 10}
      BY <1>1, <2>3, <3>1, WithTrail
    <3> QED BY <2>2, <3>2
  <2> QED BY <2>1, <2>3
<1>2. CASE ~setup.audit
  <2>1. DOMAIN Script = 1 .. 6 /\ Opening = 2
    BY <1>2, WithoutTrail DEF Opening
  <2>2. /\ Script[1].what = "run_started" /\ Script[2].what = "milestone_started"
        /\ Script[3].what = "phase_started" /\ Script[4].what = "phase_completed"
        /\ Script[5].what = "milestone_completed" /\ Script[6].what = "run_completed"
    BY <1>2 DEF Script, Emits
  <2>3. ASSUME NEW i \in DOMAIN Script
        PROVE  /\ Script[i].what = "milestone_started" => i = 2
               /\ Script[i].what = "milestone_completed" => i > 2
    <3>1. i = 1 \/ i = 2 \/ i = 3 \/ i = 4 \/ i = 5 \/ i = 6
      BY <2>1
    <3> QED BY <2>2, <3>1
  <2> QED BY <2>1, <2>3
<1> QED BY <1>1, <1>2

(* The telemetry file is in order, and the live run has told nothing that  *)
(* its later lines have to precede.                                        *)
Tale ==
  /\ InOrder(telemetry.lines)
  /\ step = 1 => \A i \in DOMAIN telemetry.lines : telemetry.lines[i].run # run
  /\ Live /\ step <= Opening =>
       \A i \in DOMAIN telemetry.lines :
         telemetry.lines[i].run = run => telemetry.lines[i].kind # "milestone_completed"

(* A run goes through its script step by step.                             *)
LEMMA StepsMove ==
  ASSUME TypeOK, [Next]_vars
  PROVE  /\ UNCHANGED setup
         /\ \/ Start
            \/ step' = 0
            \/ UNCHANGED <<run, step>> /\ ~Emit
            \/ run' = run /\ step' = step + 1 /\ step \in DOMAIN Script
<1>1. step \in Nat
  BY TheScript DEF TypeOK, RunTyped, Closing
<1>2. CASE Audited
  <2>1. UNCHANGED <<run, step, setup>>
    BY <1>2, AuditLeaves
  <2>2. ~Emit
    BY <1>1, <2>1 DEF Emit
  <2> QED BY <2>1, <2>2
<1>3. CASE Start \/ Close \/ Crash \/ CrashInLine
  BY <1>3 DEF Start, Close, Crash, CrashInLine, Exit
<1>4. CASE Emit \/ Load \/ AppendEntry
  BY <1>4 DEF Emit, Load, AppendEntry, Does
<1>5. ASSUME UNCHANGED <<run, step, setup>>
      PROVE  UNCHANGED setup /\ UNCHANGED <<run, step>> /\ ~Emit
  BY <1>1, <1>5 DEF Emit
<1>6. CASE TakeBatch \/ CommitBatch \/ LoseBatch \/ LintSpec \/ UNCHANGED vars
  BY <1>5, <1>6 DEF TakeBatch, CommitBatch, LoseBatch, LintSpec, vars, runVars
<1>7. ASSUME NEW c \in Commands, SyncRead(c) \/ SyncFile(c) \/ SyncCommit(c) \/ SyncFails(c)
      PROVE  UNCHANGED <<run, step, setup>>
  BY <1>7 DEF SyncRead, SyncFile, SyncCommit, SyncFails, runVars
<1> QED BY <1>2, <1>3, <1>4, <1>5, <1>6, <1>7 DEF Next, Command, Audited

LEMMA TaleStep == TypeOK /\ Rows /\ Tale /\ [Next]_vars => Tale'
<1> SUFFICES ASSUME TypeOK, Rows, Tale, [Next]_vars PROVE Tale'
  OBVIOUS
<1> DEFINE L == telemetry.lines
           Ends(e) == e.run = run /\ e.kind = "milestone_completed"
<1>1. /\ L \in Seq(Events) /\ setup \in Setups /\ step \in Nat /\ run \in Nat
      /\ Live => run > 0
      /\ \A i \in DOMAIN L : L[i].run <= run /\ L[i].run \in Int
  <2>1. L \in Seq(Events) /\ setup \in Setups /\ step \in Nat /\ run \in Nat /\ (Live => run > 0)
    BY TheScript, Constants DEF TypeOK, FilesTyped, RunTyped, Files, Closing
  <2>2. \A i \in DOMAIN L : L[i].run <= run /\ L[i] \in Events
    BY <2>1 DEF Rows, Numbered
  <2> QED BY <2>1, <2>2, Constants DEF Events
<1>2. /\ Opening \in Nat /\ DOMAIN Script \subseteq Nat
      /\ \A i \in DOMAIN Script : Script[i].does = "emit" =>
           /\ Script[i].what = "milestone_started" => i = Opening
           /\ Script[i].what = "milestone_completed" => i > Opening
  BY <1>1, ScriptInOrder
<1>3. Opening' = Opening
  BY StepsMove DEF Opening
<1>4. /\ InOrder(L)
      /\ step = 1 => \A i \in DOMAIN L : L[i].run # run
      /\ Live /\ step <= Opening => \A i \in DOMAIN L : ~Ends(L[i])
  BY DEF Tale
<1>5. ASSUME Emit
      PROVE  /\ Now \in Events /\ Now.run = run /\ Live /\ Now.kind # "spec_lint_completed"
             /\ Now.kind = "run_started" => step = 1
             /\ Now.kind = "milestone_started" => step <= Opening
             /\ Now.kind = "milestone_completed" => step > Opening
             /\ step' = step + 1
  <2>1. /\ Now \in Events /\ Now.run = run /\ Now.kind \in Kinds
        /\ Now.kind = "run_started" => step = 1
    BY <1>5, NowIsAnEvent DEF Emit
  <2>2. step \in DOMAIN Script /\ Script[step].does = "emit" /\ Now.kind = Script[step].what
        /\ step' = step + 1
    BY <1>5 DEF Emit, Does, Now, Event
  <2>3. step # 0
    BY <1>1, <2>2, TheScript
  <2> QED BY <1>1, <1>2, <2>1, <2>2, <2>3 DEF Live, Kinds
<1>6. ASSUME NEW e \in Events, e = Garbage \/ (e = Now /\ Emit) \/ e = Linting
      PROVE  /\ InOrder(Append(L, e))
             /\ Live => e.run # run \/ (e = Now /\ Emit)
  <2>1. CASE e = Garbage \/ e = Linting
    <3>1. e.run = 0 /\ e.run \notin RunIds /\ (e.kind = "spec_lint_completed" => e.run = Standalone)
      BY <2>1, OfNoRun, Constants DEF RunIds, Standalone
    <3>2. InOrder(Append(L, e))
      BY <1>1, <1>4, <3>1, InOrderOn
    <3> QED BY <1>1, <3>1, <3>2
  <2>2. CASE e = Now /\ Emit
    <3>1. InOrder(Append(L, e))
      BY <1>1, <1>4, <1>5, <2>2, InOrderOn
    <3> QED BY <2>2, <3>1
  <2> QED BY <1>6, <2>1, <2>2
<1>7. PICK e \in Events :
        \/ telemetry'.lines = L
        \/ /\ e = Garbage \/ (e = Now /\ Emit) \/ e = Linting
           /\ telemetry'.lines = Append(L, e)
  BY LinesMove, OfNoRun
<1>8. InOrder(telemetry'.lines)
  BY <1>4, <1>6, <1>7
<1>9. ASSUME NEW i \in DOMAIN telemetry'.lines
      PROVE  \/ i \in DOMAIN L /\ telemetry'.lines[i] = L[i]
             \/ /\ telemetry'.lines[i] = e
                /\ e = Garbage \/ (e = Now /\ Emit) \/ e = Linting
  <2>1. CASE telemetry'.lines = L
    BY <2>1
  <2>2. CASE telemetry'.lines = Append(L, e)
    <3>1. i \in DOMAIN L \/ i = Len(L) + 1
      BY <1>1, <2>2
    <3>2. CASE i \in DOMAIN L
      BY <1>1, <2>2, <3>2
    <3>3. CASE i = Len(L) + 1
      <4>1. telemetry'.lines[i] = e
        BY <1>1, <2>2, <3>3
      <4>2. telemetry'.lines # L
        <5>1. Len(Append(L, e)) # Len(L)
          BY <1>1
        <5> QED BY <2>2, <5>1
      <4> QED BY <1>7, <4>1, <4>2
    <3> QED BY <3>1, <3>2, <3>3
  <2> QED BY <1>7, <2>1, <2>2
<1>10. CASE Start
  <2>1. run' = run + 1 /\ UNCHANGED telemetry
    BY <1>10 DEF Start
  <2>2. \A i \in DOMAIN telemetry'.lines : telemetry'.lines[i].run # run'
    BY <1>1, <2>1
  <2> QED BY <1>8, <2>2 DEF Tale
<1>11. CASE step' = 0
  BY <1>8, <1>11 DEF Tale, Live
<1>12. CASE UNCHANGED <<run, step>> /\ ~Emit
  <2>1. ASSUME Live, NEW i \in DOMAIN telemetry'.lines, telemetry'.lines[i].run = run
        PROVE  i \in DOMAIN L /\ telemetry'.lines[i] = L[i]
    BY <1>6, <1>9, <1>12, <2>1
  <2>2. step = 1 => Live
    BY DEF Live
  <2> QED BY <1>3, <1>4, <1>8, <1>12, <2>1, <2>2 DEF Tale, Live
<1>13. CASE run' = run /\ step' = step + 1 /\ step \in DOMAIN Script
  <2>1. step # 0 /\ step' # 1
    BY <1>1, <1>13, TheScript
  <2>2. ASSUME step + 1 <= Opening, NEW i \in DOMAIN telemetry'.lines
        PROVE  ~Ends(telemetry'.lines[i])
    <3>1. step <= Opening /\ ~(step > Opening) /\ Live
      BY <1>1, <1>2, <2>1, <2>2 DEF Live
    <3>2. CASE i \in DOMAIN L /\ telemetry'.lines[i] = L[i]
      BY <1>4, <3>1, <3>2
    <3>3. ASSUME telemetry'.lines[i] = e, e = Garbage \/ (e = Now /\ Emit) \/ e = Linting
          PROVE  ~Ends(telemetry'.lines[i])
      BY <1>5, <1>6, <3>1, <3>3
    <3> QED BY <1>9, <3>2, <3>3
  <2> QED BY <1>3, <1>8, <1>13, <2>1, <2>2 DEF Tale
<1> QED BY <1>10, <1>11, <1>12, <1>13, StepsMove

Has(lines, e) == \E i \in DOMAIN lines : lines[i] = e

(* SyncCompletes, of any lines and any tables.                             *)
Complete(lines, d, drop) ==
  \A r \in RunIds :
    Has(lines, Event(r, "run_started")) =>
      \E x \in d.runs :
        /\ x.run = r
        /\ Has(lines, Event(r, "run_completed")) => x.status = "done"
        /\ \A k \in Kinds :
             Has(lines, Event(r, k)) /\ Event(r, k) \notin drop =>
               [of |-> x.id, kind |-> k] \in d.events
        /\ Has(lines, Event(r, "milestone_started"))
              /\ Has(lines, Event(r, "milestone_completed")) =>
             \E m \in d.milestones : m.of = x.id /\ m.status = "done"

LEMMA CompleteOn ==
  ASSUME NEW lines, NEW d, NEW e, NEW drop, NEW more, Complete(lines, d, drop),
         Onward(d, e), drop \subseteq more
  PROVE  Complete(lines, e, more)
<1> SUFFICES ASSUME NEW r \in RunIds, Has(lines, Event(r, "run_started"))
             PROVE  \E y \in e.runs :
                      /\ y.run = r
                      /\ Has(lines, Event(r, "run_completed")) => y.status = "done"
                      /\ \A k \in Kinds :
                           Has(lines, Event(r, k)) /\ Event(r, k) \notin more =>
                             [of |-> y.id, kind |-> k] \in e.events
                      /\ Has(lines, Event(r, "milestone_started"))
                            /\ Has(lines, Event(r, "milestone_completed")) =>
                           \E m \in e.milestones : m.of = y.id /\ m.status = "done"
  BY DEF Complete
<1>1. PICK x \in d.runs :
        /\ x.run = r
        /\ Has(lines, Event(r, "run_completed")) => x.status = "done"
        /\ \A k \in Kinds :
             Has(lines, Event(r, k)) /\ Event(r, k) \notin drop =>
               [of |-> x.id, kind |-> k] \in d.events
        /\ Has(lines, Event(r, "milestone_started"))
              /\ Has(lines, Event(r, "milestone_completed")) =>
             \E m \in d.milestones : m.of = x.id /\ m.status = "done"
  BY DEF Complete
<1>2. PICK y \in e.runs :
        y.id = x.id /\ y.run = x.run /\ (x.status = "done" => y.status = "done")
  BY DEF Onward
<1>3. ASSUME Has(lines, Event(r, "milestone_started")),
             Has(lines, Event(r, "milestone_completed"))
      PROVE  \E m \in e.milestones : m.of = y.id /\ m.status = "done"
  <2>1. PICK m \in d.milestones : m.of = x.id /\ m.status = "done"
    BY <1>1, <1>3
  <2>2. PICK l \in e.milestones : l.of = m.of /\ l.status = "done"
    BY <2>1 DEF Onward
  <2> QED BY <1>2, <2>1, <2>2
<1>4. d.events \subseteq e.events
  BY DEF Onward
<1> QED BY <1>1, <1>2, <1>3, <1>4

LEMMA SameIsOnward ==
  ASSUME NEW d, NEW e, SameRows(d, e)
  PROVE  Onward(d, e) /\ (StartsFiled(d, NoRow) => StartsFiled(e, NoRow))
  BY DEF SameRows, Onward, StartsFiled

(* A commit takes nothing back of what is there, nor of what it adds.      *)
LEMMA MergeOnward ==
  ASSUME NEW d \in Tables, NEW f \in Tables, Tabled(d), Tabled(f), Agree(d, f)
  PROVE  LET e == Merge(d, f)
         IN  /\ Onward(d, e) /\ Onward(f, e)
             /\ StartsFiled(d, NoRow) /\ StartsFiled(f, NoRow) => StartsFiled(e, NoRow)
<1> DEFINE e == Merge(d, f)
<1>1. /\ e.runs = Latest(d.runs, f.runs) /\ e.events = d.events \cup f.events
      /\ e.milestones = Latest(d.milestones, f.milestones)
      /\ Distinct(d.runs) /\ Distinct(f.runs)
      /\ Distinct(d.milestones) /\ Distinct(f.milestones)
  BY Merged
<1> HIDE DEF e
<1>2. /\ e.runs \subseteq d.runs \cup f.runs
      /\ \A x \in d.runs \cup f.runs : \E z \in e.runs :
           z.id = x.id /\ (x.status = "done" => z.status = "done")
  BY <1>1, LatestOfBoth
<1>3. /\ e.milestones \subseteq d.milestones \cup f.milestones
      /\ \A x \in d.milestones \cup f.milestones : \E z \in e.milestones :
           z.id = x.id /\ (x.status = "done" => z.status = "done")
  BY <1>1, LatestOfBoth
<1>4. ASSUME NEW x \in d.runs \cup f.runs
      PROVE  \E z \in e.runs :
               z.id = x.id /\ z.run = x.run /\ (x.status = "done" => z.status = "done")
  <2>1. PICK z \in e.runs : z.id = x.id /\ (x.status = "done" => z.status = "done")
    BY <1>2
  <2>2. z.run = x.run
    BY <1>1, <1>2, <2>1 DEF Distinct, Agree
  <2> QED BY <2>1, <2>2
<1>5. ASSUME NEW x \in d.milestones \cup f.milestones
      PROVE  \E z \in e.milestones :
               z.id = x.id /\ z.of = x.of /\ (x.status = "done" => z.status = "done")
  <2>1. PICK z \in e.milestones : z.id = x.id /\ (x.status = "done" => z.status = "done")
    BY <1>3
  <2>2. z.of = x.of
    BY <1>1, <1>3, <2>1 DEF Distinct, Agree
  <2> QED BY <2>1, <2>2
<1>6. Onward(d, e) /\ Onward(f, e)
  BY <1>1, <1>4, <1>5 DEF Onward
<1>7. StartsFiled(d, NoRow) /\ StartsFiled(f, NoRow) => StartsFiled(e, NoRow)
  BY <1>1, <1>2 DEF StartsFiled
<1> QED BY <1>6, <1>7 DEF e

(* While fresh, no run is alive, and the rows say what the file says, or a *)
(* sync that has read all of it is at it.                                  *)
Catching(c) ==
  /\ sync[c] # NoSync /\ sync[c] = Readable(telemetry)
  /\ filed[c] # Unfiled => Complete(telemetry.lines, filed[c], refused)

Undisturbed ==
  /\ StartsFiled(db, NoRow)
  /\ \A c \in Commands :
       Linted(sync[c]) /\ (filed[c] # Unfiled => StartsFiled(filed[c], NoRow))
  /\ fresh => /\ ~Live
              /\ Complete(telemetry.lines, db, refused) \/ \E c \in Commands : Catching(c)

(* What a sync is about to commit.                                         *)
LEMMA SyncFilesAll ==
  ASSUME TypeOK, Rows, Tale, Undisturbed, NEW c \in Commands, SyncFile(c)
  PROVE  /\ StartsFiled(filed'[c], NoRow)
         /\ sync[c] = Readable(telemetry) =>
              Complete(telemetry.lines, filed'[c], refused')
<1> DEFINE lines == telemetry.lines
           q == sync[c]
           S == Begun(lines)
           M == Opened(lines)
<1>1. /\ db \in Tables /\ Tabled(db) /\ StartsFiled(db, NoRow) /\ q \in Seq(Events)
      /\ Linted(q) /\ lines \in Seq(Events) /\ filed \in [Commands -> Tables \cup {Unfiled}]
  BY DEF TypeOK, FilesTyped, Files, RowsTyped, Rows, Undisturbed
<1>2. PICK drop, pick :
        /\ drop \subseteq {e \in Range(sync[c]) : e.kind \in Refusable}
        /\ filed' = [filed EXCEPT ![c] = SyncAll(db, sync[c], pick, drop)]
        /\ refused' = refused \cup drop
  BY DEF SyncFile
<1> DEFINE f == SyncAll(db, q, pick, drop)
<1>3. filed'[c] = f
  BY <1>1, <1>2
<1>4. \A x \in drop : x.kind # "run_started"
  BY <1>2, RecordsAssumption
<1>5. StartsFiled(f, NoRow)
  <2>1. Ordered(q, {}, {}) /\ {} \in SUBSET RunIds
    BY DEF Ordered
  <2> QED BY <1>1, <1>4, <2>1, SyncAllTells
<1>6. Tabled(f)
  BY <1>1, SyncAllKeeps
<1>7. ASSUME q = Readable(telemetry) PROVE Complete(lines, f, refused')
  <2>1. Linted(lines) /\ Ordered(lines, S, M) /\ S \in SUBSET RunIds
    BY DEF Tale, InOrder, Begun
  <2>2. /\ Ordered(q, S, M)
        /\ \A i \in DOMAIN lines : lines[i] # Garbage => \E j \in DOMAIN q : q[j] = lines[i]
    <3> HIDE DEF S, M, lines, q
    <3>1. telemetry.lines = lines
      BY DEF lines
    <3> QED BY <1>1, <1>7, <2>1, <3>1, ReadableTells
  <2>3. ASSUME NEW r \in S, \E i \in DOMAIN q : q[i].run = r
        PROVE  \E x \in f.runs : x.run = r /\
                 \A i \in DOMAIN q : q[i].run = r => Tells(f, x.id, q[i], drop, M)
    <3> HIDE DEF S, M, q
    <3> QED BY <1>1, <1>4, <2>1, <2>2, <2>3, SyncAllTells
  <2> HIDE DEF f, q, lines
  <2>4. ASSUME NEW r \in RunIds, NEW kind, kind # "garbage", Has(lines, Event(r, kind))
        PROVE  \E j \in DOMAIN q : q[j] = Event(r, kind)
    <3>1. PICK i \in DOMAIN lines : lines[i] = Event(r, kind)
      BY <2>4 DEF Has
    <3>2. Event(r, kind).kind = kind /\ Garbage.kind = "garbage"
      BY DEF Event, Garbage
    <3>3. lines[i] # Garbage
      BY <2>4, <3>1, <3>2
    <3> QED BY <2>2, <3>1, <3>3
  <2>5. ASSUME NEW r \in RunIds, Has(lines, Event(r, "run_started"))
        PROVE  \E x \in f.runs :
                 /\ x.run = r
                 /\ Has(lines, Event(r, "run_completed")) => x.status = "done"
                 /\ \A k \in Kinds :
                      Has(lines, Event(r, k)) /\ Event(r, k) \notin refused' =>
                        [of |-> x.id, kind |-> k] \in f.events
                 /\ Has(lines, Event(r, "milestone_started"))
                       /\ Has(lines, Event(r, "milestone_completed")) =>
                      \E m \in f.milestones : m.of = x.id /\ m.status = "done"
    <3>1. r \in S
      BY <2>5 DEF Has, Begun
    <3>2. \A kind : Event(r, kind).run = r /\ Event(r, kind).kind = kind
      BY DEF Event
    <3>3. \E i \in DOMAIN q : q[i].run = r
      BY <2>4, <2>5, <3>2
    <3>4. PICK y \in f.runs : y.run = r /\
             \A i \in DOMAIN q : q[i].run = r => Tells(f, y.id, q[i], drop, M)
      BY <2>3, <3>1, <3>3
    <3>5. ASSUME NEW kind, kind # "garbage", Has(lines, Event(r, kind))
          PROVE  Tells(f, y.id, Event(r, kind), drop, M)
      BY <2>4, <3>2, <3>4, <3>5
    <3>6. ASSUME Has(lines, Event(r, "run_completed")) PROVE y.status = "done"
      <4>1. Tells(f, y.id, Event(r, "run_completed"), drop, M)
        BY <3>5, <3>6
      <4>2. PICK x \in f.runs : x.id = y.id /\ x.status = "done"
        BY <3>2, <4>1 DEF Tells
      <4> QED BY <1>6, <4>2 DEF Tabled, f
    <3>7. ASSUME NEW k \in Kinds, Has(lines, Event(r, k)), Event(r, k) \notin refused'
          PROVE  [of |-> y.id, kind |-> k] \in f.events
      <4>1. k # "garbage" /\ Event(r, k) \notin drop
        BY <1>2, <3>7 DEF Kinds
      <4>2. Tells(f, y.id, Event(r, k), drop, M)
        BY <3>5, <3>7, <4>1
      <4> QED BY <3>2, <4>1, <4>2 DEF Tells
    <3>8. ASSUME Has(lines, Event(r, "milestone_started")),
                 Has(lines, Event(r, "milestone_completed"))
          PROVE  \E m \in f.milestones : m.of = y.id /\ m.status = "done"
      <4>1. Tells(f, y.id, Event(r, "milestone_completed"), drop, M)
        BY <3>5, <3>8
      <4>2. r \in M
        BY <3>8 DEF Has, Opened
      <4> QED BY <3>2, <4>1, <4>2 DEF Tells
    <3> QED BY <3>4, <3>6, <3>7, <3>8
  <2> QED BY <2>5 DEF Complete
<1> HIDE DEF f, q, lines
<1> QED BY <1>3, <1>5, <1>7 DEF q, lines

LEMMA AuditKeepsSync ==
  Audited => /\ telemetry' = telemetry /\ step' = step /\ db' = db /\ sync' = sync
             /\ filed' = filed /\ refused' = refused /\ fresh' = fresh
  BY AuditLeaves

(* What may happen between a sync of a file and the next run.              *)
LEMMA StaysFresh ==
  ASSUME TypeOK, Undisturbed, [Next]_vars, fresh'
  PROVE  /\ UNCHANGED <<telemetry, step>> /\ ~Live
         /\ \/ \E c \in Commands : SyncRead(c)
            \/ \E c \in Commands : (SyncFile(c) \/ SyncCommit(c)) /\ fresh
            \/ UNCHANGED <<db, sync, filed, refused>> /\ fresh
<1>1. fresh => ~Live
  BY DEF Undisturbed
<1>2. DOMAIN Script = 1 .. Len(Script) /\ Len(Script) \in Nat /\ setup \in Setups
  BY TheScript DEF TypeOK, RunTyped
<1>3. Closing # 0
  BY <1>2 DEF Closing
<1>4. (\E what : Does(what)) => Live
  BY <1>2 DEF Does, Live
<1>5. ~Start /\ ~LintSpec /\ \A c \in Commands : ~SyncFails(c)
  BY DEF Start, LintSpec, SyncFails
<1>6. ~Emit /\ ~Load /\ ~AppendEntry
  BY <1>1, <1>4 DEF Emit, Load, AppendEntry, syncVars
<1>7. ~TakeBatch /\ ~CommitBatch /\ ~LoseBatch /\ ~Crash /\ ~CrashInLine
  BY <1>1 DEF TakeBatch, CommitBatch, LoseBatch, Crash, CrashInLine, syncVars
<1>8. ~Close
  BY <1>1, <1>3 DEF Close, Live, syncVars
<1>9. CASE Audited
  <2>1. /\ telemetry' = telemetry /\ step' = step /\ db' = db /\ sync' = sync
        /\ filed' = filed /\ refused' = refused /\ fresh' = fresh
    BY <1>9, AuditKeepsSync
  <2> QED BY <1>1, <2>1
<1>10. ASSUME NEW c \in Commands, SyncRead(c) PROVE UNCHANGED <<telemetry, step>> /\ ~Live
  BY <1>10 DEF SyncRead, runVars
<1>11. ASSUME NEW c \in Commands, SyncFile(c) \/ SyncCommit(c)
       PROVE  UNCHANGED <<telemetry, step>> /\ ~Live /\ fresh
  BY <1>1, <1>11 DEF SyncFile, SyncCommit, runVars
<1>12. CASE UNCHANGED vars
  BY <1>1, <1>12 DEF vars, runVars, syncVars
<1> QED
  BY <1>5, <1>6, <1>7, <1>8, <1>9, <1>10, <1>11, <1>12 DEF Next, Command, Audited

LEMMA UndisturbedStep == TypeOK /\ Rows /\ Tale /\ Undisturbed /\ [Next]_vars => Undisturbed'
<1> SUFFICES ASSUME TypeOK, Rows, Tale, Undisturbed, [Next]_vars PROVE Undisturbed'
  OBVIOUS
<1> DEFINE lines == telemetry.lines
<1>1. /\ StartsFiled(db, NoRow) /\ db \in Tables /\ Tabled(db) /\ batch \in Seq(Events)
      /\ \A c \in Commands :
           Linted(sync[c]) /\ (filed[c] # Unfiled => StartsFiled(filed[c], NoRow))
      /\ sync \in [Commands -> Seq(Events)]
      /\ filed \in [Commands -> Tables \cup {Unfiled}]
      /\ \A c \in Commands : filed[c] # Unfiled => sync[c] # NoSync
      /\ telemetry.lines \in Seq(Events) /\ InOrder(telemetry.lines)
  BY DEF Undisturbed, TypeOK, RowsTyped, RunTyped, FilesTyped, Files, Rows, Tale
<1>2. Readable(telemetry) # NoSync /\ Linted(Readable(telemetry))
  BY <1>1, ReadableTells DEF InOrder
<1>3. ASSUME NEW c \in Commands, SyncCommit(c)
      PROVE  /\ Onward(db, db') /\ Onward(filed[c], db')
             /\ StartsFiled(filed[c], NoRow) => StartsFiled(db', NoRow)
  <2>1. /\ filed[c] \in Tables /\ Tabled(filed[c]) /\ Agree(db, filed[c])
        /\ db' = Merge(db, filed[c])
    BY <1>3, SyncCommitted DEF Apart
  <2> QED BY <1>1, <2>1, MergeOnward
<1>4. StartsFiled(db', NoRow)
  <2>1. CASE UNCHANGED db
    BY <1>1, <2>1
  <2>2. CASE CommitBatch
    <3>1. Filed([db |-> db, known |-> known], run)
      BY <2>2, BatchFiled DEF CommitBatch
    <3>2. \A i \in DOMAIN batch : batch[i].run = run
      BY DEF Rows, Numbered
    <3>3. StartsFiled(WriteAll(db, known, batch).db, NoRow)
      BY <1>1, <3>1, <3>2, BatchFilesStarts
    <3>4. db' = WriteAll(db, known, batch).db
      BY <2>2 DEF CommitBatch
    <3> QED BY <3>3, <3>4
  <2>3. CASE SameRows(db, db')
    BY <1>1, <2>3, SameIsOnward
  <2>4. ASSUME NEW c \in Commands, SyncFile(c) PROVE SameRows(db, db')
    BY <2>4, SyncFiled
  <2>5. ASSUME NEW c \in Commands, SyncCommit(c) PROVE StartsFiled(db', NoRow)
    BY <1>1, <1>3, <2>5 DEF SyncCommit
  <2> QED BY <2>1, <2>2, <2>3, <2>4, <2>5, RowsMove
<1>5. ASSUME NEW c \in Commands PROVE Linted(sync'[c])
  <2>1. sync'[c] = sync[c] \/ sync'[c] = NoSync \/ sync'[c] = Readable(telemetry)
    BY <1>1, SyncsMove
  <2>2. Linted(NoSync)
    <3>1. \A i \in DOMAIN NoSync : NoSync[i] = Garbage
      BY DEF NoSync
    <3>2. Garbage.kind = "garbage"
      BY OfNoRun
    <3> QED BY <3>1, <3>2 DEF Linted
  <2> QED BY <1>1, <1>2, <2>1, <2>2
<1>6. ASSUME NEW c \in Commands, SyncFile(c)
      PROVE  /\ \A d \in Commands : d # c => filed'[d] = filed[d]
             /\ StartsFiled(filed'[c], NoRow) /\ UNCHANGED sync /\ filed[c] = Unfiled
             /\ SameRows(db, db') /\ refused \subseteq refused'
             /\ sync[c] = Readable(telemetry) => Complete(lines, filed'[c], refused')
  <2>1. filed' = [filed EXCEPT ![c] = filed'[c]]
    BY <1>6, SyncFiled
  <2> QED BY <1>1, <1>6, <2>1, SyncFiled, SyncFilesAll DEF SyncFile
<1>7. ASSUME NEW c \in Commands, filed'[c] # Unfiled PROVE StartsFiled(filed'[c], NoRow)
  <2>1. ASSUME NEW d \in Commands, SyncFile(d) PROVE StartsFiled(filed'[c], NoRow)
    BY <1>1, <1>6, <1>7, <2>1
  <2>2. ASSUME NEW d \in Commands, SyncCommit(d) \/ SyncFails(d)
        PROVE  filed'[c] = filed[c]
    <3>1. filed' = [filed EXCEPT ![d] = Unfiled]
      BY <2>2 DEF SyncCommit, SyncFails
    <3> QED BY <1>1, <1>7, <3>1
  <2> QED BY <1>1, <1>7, <2>1, <2>2, SyncsMove
<1>8. ASSUME fresh'
      PROVE  ~Live' /\ (Complete(lines, db', refused') \/ \E c \in Commands : Catching(c)')
  <2>1. ~Live /\ UNCHANGED <<telemetry, step>>
    BY <1>8, StaysFresh
  <2>2. ~Live'
    BY <2>1 DEF Live
  <2>3. ASSUME NEW c \in Commands, SyncRead(c) PROVE Catching(c)'
    <3>1. sync'[c] = Readable(telemetry) /\ filed' = filed /\ sync[c] = NoSync
      BY <1>1, <2>3 DEF SyncRead
    <3>2. filed'[c] = Unfiled
      BY <1>1, <3>1
    <3> QED BY <1>2, <2>1, <3>1, <3>2 DEF Catching
  <2>4. fresh => Complete(lines, db, refused) \/ \E c \in Commands : Catching(c)
    BY DEF Undisturbed
  <2>5. CASE UNCHANGED <<db, sync, filed, refused>> /\ fresh
    <3>1. ASSUME NEW c \in Commands, Catching(c) PROVE Catching(c)'
      BY <2>1, <2>5, <3>1 DEF Catching
    <3>2. Complete(lines, db, refused) => Complete(lines, db', refused')
      BY <2>5
    <3> QED BY <2>2, <2>4, <2>5, <3>1, <3>2
  <2>6. ASSUME NEW c \in Commands, SyncFile(c), fresh
        PROVE  Complete(lines, db', refused') \/ \E d \in Commands : Catching(d)'
    <3>1. CASE Complete(lines, db, refused)
      <4>1. Onward(db, db')
        BY <1>6, <2>6, SameIsOnward
      <4> QED BY <1>6, <2>6, <3>1, <4>1, CompleteOn
    <3>2. ASSUME NEW d \in Commands, Catching(d) PROVE Catching(d)'
      <4>1. sync'[d] # NoSync /\ sync'[d] = Readable(telemetry)
        BY <1>6, <2>6, <3>2 DEF Catching
      <4>2. CASE d = c
        BY <1>6, <2>1, <2>6, <4>1, <4>2 DEF Catching
      <4>3. CASE d # c
        <5>1. filed'[d] = filed[d] /\ refused \subseteq refused'
          BY <1>6, <2>6, <4>3
        <5>2. filed[d] # Unfiled => Complete(lines, filed[d], refused')
          BY <3>2, <5>1, OnwardSame, CompleteOn DEF Catching
        <5> QED BY <2>1, <4>1, <5>1, <5>2 DEF Catching
      <4> QED BY <4>2, <4>3
    <3> QED BY <2>4, <2>6, <3>1, <3>2
  <2>7. ASSUME NEW c \in Commands, SyncCommit(c), fresh
        PROVE  Complete(lines, db', refused') \/ \E d \in Commands : Catching(d)'
    <3>1. /\ filed[c] # Unfiled /\ sync' = [sync EXCEPT ![c] = NoSync]
          /\ filed' = [filed EXCEPT ![c] = Unfiled] /\ refused' = refused
      BY <2>7 DEF SyncCommit
    <3>2. CASE Complete(lines, db, refused)
      BY <1>3, <2>7, <3>1, <3>2, CompleteOn
    <3>3. CASE Catching(c)
      <4>1. Complete(lines, filed[c], refused)
        BY <3>1, <3>3 DEF Catching
      <4> QED BY <1>3, <2>7, <3>1, <4>1, CompleteOn
    <3>4. ASSUME NEW d \in Commands, d # c, Catching(d) PROVE Catching(d)'
      <4>1. sync'[d] = sync[d] /\ filed'[d] = filed[d]
        BY <1>1, <3>1, <3>4
      <4> QED BY <2>1, <3>1, <3>4, <4>1 DEF Catching
    <3> QED BY <2>4, <2>7, <3>2, <3>3, <3>4
  <2> HIDE DEF lines
  <2>8. Complete(lines, db', refused') \/ \E d \in Commands : Catching(d)'
    BY <1>8, <2>3, <2>5, <2>6, <2>7, StaysFresh
  <2> QED BY <2>2, <2>8
<1>9. fresh' => lines' = lines
  BY StaysFresh
<1> QED BY <1>4, <1>5, <1>7, <1>8, <1>9 DEF Undisturbed

(* However many runs and syncs there are, whatever the writers have dropped, *)
(* lost or left running, whichever lines are missing or cut in two and       *)
(* whichever rows of events are refused: once a sync that no run and no      *)
(* failure disturbs is over, the rows of every run whose start can be read   *)
(* say all that can be read of it, but for the events refused                *)
(* (db/sync_adapter.py:41-249, db/writer.py:88-113, telemetry.py:600-607).   *)
THEOREM SyncsAreComplete == Spec => []SyncCompletes
<1>1. Init => Tale /\ Undisturbed
  <2> SUFFICES ASSUME Init PROVE Tale /\ Undisturbed
    OBVIOUS
  <2>1. /\ telemetry.lines = <<>> /\ step = 0 /\ db = NoTables /\ fresh = FALSE
        /\ \A c \in Commands : sync[c] = NoSync /\ filed[c] = Unfiled
    BY DEF Init
  <2>2. InOrder(<<>>)
    BY DEF InOrder, Linted, Ordered
  <2>3. Tale
    BY <2>1, <2>2 DEF Tale, Live
  <2>4. StartsFiled(db, NoRow)
    BY <2>1 DEF StartsFiled, NoTables
  <2>5. \A i \in DOMAIN NoSync : NoSync[i] = Garbage
    BY DEF NoSync
  <2>6. Linted(NoSync)
    BY <2>5, OfNoRun DEF Linted
  <2> QED BY <2>1, <2>3, <2>4, <2>6 DEF Undisturbed
<1>2. TypeOK /\ Rows /\ Tale /\ Undisturbed /\ [Next]_vars => (Tale /\ Undisturbed)'
  BY TaleStep, UndisturbedStep
<1>3. Undisturbed => SyncCompletes
  <2> SUFFICES ASSUME Undisturbed, fresh, Syncing = {} PROVE SyncCompletes
    BY DEF SyncCompletes
  <2>1. \A c \in Commands : ~Catching(c)
    BY DEF Syncing, Catching
  <2>2. Complete(telemetry.lines, db, refused)
    BY <2>1 DEF Undisturbed
  <2> QED BY <2>2 DEF Complete, Has, SyncCompletes, Told
<1> QED BY <1>1, <1>2, <1>3, RowsAlways, PTL DEF Spec
=============================================================================
