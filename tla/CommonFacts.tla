---------------------------- MODULE CommonFacts ----------------------------
(***************************************************************************)
(* Facts the proofs of several components need, about numbers, finite      *)
(* sets, running sums, the queue threads flush their buffers to, the trees *)
(* of a parent array and connected components.  The induction theorems of  *)
(* the library take the property to be proved as an operator; here it is a *)
(* set of numbers, of which the least one outside is looked at.            *)
(***************************************************************************)
EXTENDS GraphView, Containers, Integers, Sequences, FiniteSets, Functions, FiniteSetTheorems,
        FunctionTheorems, WellFoundedInduction, TLAPS

LessThan == {p \in Nat \X Nat : p[1] < p[2]}

LEMMA LessThanWellFounded == IsWellFoundedOn(LessThan, Nat)
<1>1. LessThan = OpToRel(<, Nat)
  BY DEF LessThan, OpToRel
<1> QED BY <1>1, NatLessThanWellFounded

\* Every set of natural numbers that is not empty has a least element.
LEMMA LeastNumber ==
  ASSUME NEW S \in SUBSET Nat, S # {}
  PROVE  \E m \in S : \A n \in S : m <= n
<1>1. PICK m \in S : \A n \in S : ~ (<<n, m>> \in LessThan)
  BY LessThanWellFounded, WFMin
<1>2. ASSUME NEW n \in S  PROVE m <= n
  <2>1. <<n, m>> \in Nat \X Nat /\ <<n, m>>[1] = n /\ <<n, m>>[2] = m
    OBVIOUS
  <2>2. ~ (n < m)
    BY <1>1, <2>1 DEF LessThan
  <2> QED BY <2>2
<1> QED BY <1>2

\* Induction.
LEMMA AllNaturals ==
  ASSUME NEW S \in SUBSET Nat, 0 \in S, \A n \in S : n + 1 \in S
  PROVE  S = Nat
<1> SUFFICES ASSUME S # Nat  PROVE FALSE
  OBVIOUS
<1>1. Nat \ S # {} /\ Nat \ S \in SUBSET Nat
  OBVIOUS
<1>2. PICK m \in Nat \ S : \A n \in Nat \ S : m <= n
  BY <1>1, LeastNumber
<1>3. m # 0 /\ m - 1 \in Nat
  BY <1>2
<1>4. m - 1 \in S
  BY <1>2, <1>3
<1>5. m - 1 + 1 \in S
  BY <1>4
<1> QED BY <1>2, <1>5

\* Induction up to a bound.
LEMMA AllUpTo ==
  ASSUME NEW b \in Nat, NEW S, 0 \in S, \A n \in 0 .. (b - 1) : n \in S => n + 1 \in S
  PROVE  0 .. b \subseteq S
<1> DEFINE T == {n \in Nat : n <= b => n \in S}
<1>1. 0 \in T
  OBVIOUS
<1>2. \A n \in T : n + 1 \in T
  OBVIOUS
<1> HIDE DEF T
<1>3. T \in SUBSET Nat
  BY DEF T
<1>4. T = Nat
  BY <1>1, <1>2, <1>3, AllNaturals
<1> QED BY <1>4 DEF T

-----------------------------------------------------------------------------
(* Applying a function again and again: the recursive functions of the       *)
(* components are of this form.                                              *)

IsIteration(g, b, F, x) == g = [i \in 0 .. b |-> IF i = 0 THEN x ELSE F[g[i - 1]]]

LEMMA Iteration ==
  ASSUME NEW b \in Nat, NEW S, NEW F \in [S -> S], NEW x \in S
  PROVE  \E g \in [0 .. b -> S] :
           /\ g[0] = x
           /\ \A i \in 0 .. (b - 1) : g[i + 1] = F[g[i]]
           /\ IsIteration(g, b, F, x)
<1> DEFINE Paths(n) == {g \in [0 .. n -> S] :
                          g[0] = x /\ \A i \in 0 .. (n - 1) : g[i + 1] = F[g[i]]}
           T == {n \in 0 .. b : Paths(n) # {}}
<1>1. 0 \in T
  <2>1. [i \in 0 .. 0 |-> x] \in Paths(0)
    OBVIOUS
  <2> QED BY <2>1
<1>2. ASSUME NEW n \in 0 .. (b - 1), n \in T  PROVE n + 1 \in T
  <2>1. PICK g \in Paths(n) : TRUE
    BY <1>2
  <2> DEFINE h == [i \in 0 .. (n + 1) |-> IF i = n + 1 THEN F[g[n]] ELSE g[i]]
  <2>2. h \in [0 .. (n + 1) -> S] /\ h[0] = x
    BY <2>1
  <2>3. ASSUME NEW i \in 0 .. (n + 1 - 1)  PROVE h[i + 1] = F[h[i]]
    <3>1. i \in 0 .. n /\ (i # n => i \in 0 .. (n - 1))
      OBVIOUS
    <3>2. CASE i = n
      BY <3>2, <2>1
    <3>3. CASE i # n
      BY <3>1, <3>3, <2>1
    <3> QED BY <3>2, <3>3
  <2> HIDE DEF h
  <2>4. h \in Paths(n + 1)
    BY <2>2, <2>3
  <2>5. n + 1 \in 0 .. b
    OBVIOUS
  <2>6. Paths(n + 1) # {}
    BY <2>4
  <2> HIDE DEF Paths
  <2> QED BY <2>5, <2>6
<1>3. b \in T
  <2> HIDE DEF T
  <2> QED BY <1>1, <1>2, AllUpTo
<1>4. PICK g \in Paths(b) : TRUE
  BY <1>3
<1>5. ASSUME NEW i \in 0 .. b, i # 0  PROVE g[i] = F[g[i - 1]]
  <2>1. i - 1 \in 0 .. (b - 1) /\ i - 1 + 1 = i
    BY <1>5
  <2> QED BY <1>4, <2>1
<1>6. IsIteration(g, b, F, x)
  BY <1>4, <1>5 DEF IsIteration
<1> QED BY <1>4, <1>6

-----------------------------------------------------------------------------
(* Maps of a finite set to itself. *)

LEMMA InjectiveIsOnto ==
  ASSUME NEW S, IsFiniteSet(S), NEW f \in [S -> S],
         \A a, b \in S : f[a] = f[b] => a = b
  PROVE  {f[a] : a \in S} = S
<1>1. f \in Injection(S, S)
  BY Fun_IsInj
<1>2. f \in Surjection(S, S)
  BY <1>1, FS_Injection
<1> QED BY <1>2, Fun_SurjectionProperties

LEMMA OntoIsInjective ==
  ASSUME NEW S, IsFiniteSet(S), NEW f \in [S -> S], {f[a] : a \in S} = S
  PROVE  \A a, b \in S : f[a] = f[b] => a = b
<1>1. f \in Surjection(S, S)
  <2>1. \A t \in S : \E s \in S : f[s] = t
    OBVIOUS
  <2> QED BY <2>1, Fun_IsSurj
<1>2. f \in Injection(S, S)
  BY <1>1, FS_SurjSameCardinalityImpliesInj
<1> QED BY <1>2, Fun_InjectionProperties

\* A function has no more values than arguments.
LEMMA ImageIsSmaller ==
  ASSUME NEW S, IsFiniteSet(S), NEW T, NEW f \in [S -> T]
  PROVE  /\ IsFiniteSet({f[a] : a \in S})
         /\ Cardinality({f[a] : a \in S}) <= Cardinality(S)
<1> DEFINE image == {f[a] : a \in S}
<1>1. f \in [S -> image]
  OBVIOUS
<1>2. \A t \in image : \E s \in S : f[s] = t
  OBVIOUS
<1> HIDE DEF image
<1>3. f \in Surjection(S, image)
  BY <1>1, <1>2, Fun_IsSurj
<1> QED BY <1>3, FS_Surjection DEF image

\* What stands in a sequence is finite.
LEMMA FinitelyMany ==
  ASSUME NEW n \in Nat, NEW row  PROVE IsFiniteSet({row[k] : k \in 1 .. n})
<1>1. PICK D, T, f : D = 1 .. n /\ T = {row[k] : k \in 1 .. n} /\ f = [k \in 1 .. n |-> row[k]]
  OBVIOUS
<1>2. f \in [D -> T] /\ \A t \in T : \E k \in D : f[k] = t
  BY <1>1
<1>3. IsFiniteSet(D)
  BY <1>1, FS_Interval
<1>4. f \in Surjection(D, T)
  BY <1>2, Fun_IsSurj
<1> QED BY <1>1, <1>3, <1>4, FS_Surjection

\* Two finite sets between which there is a bijection have the same size.
LEMMA SameSize ==
  ASSUME NEW S, NEW T, IsFiniteSet(S), NEW f \in [S -> T],
         \A a, b \in S : f[a] = f[b] => a = b,
         \A t \in T : \E s \in S : f[s] = t
  PROVE  IsFiniteSet(T) /\ Cardinality(T) = Cardinality(S)
<1>1. f \in Bijection(S, T)
  BY Fun_IsBij
<1>2. ExistsBijection(S, T)
  BY <1>1, Fun_ExistsBij
<1> QED BY <1>2, FS_Bijection

-----------------------------------------------------------------------------
(* The running sums of counts[0], counts[1], ...                           *)

LEMMA RunningSteps ==
  ASSUME NEW n \in Nat, NEW counts, \A i \in 0 .. (n - 1) : counts[i] \in Int
  PROVE  \E s \in [0 .. n -> Int] :
           s[0] = 0 /\ \A i \in 0 .. (n - 1) : s[i + 1] = s[i] + counts[i]
<1> DEFINE Sums(m) == {s \in [0 .. m -> Int] :
                         s[0] = 0 /\ \A i \in 0 .. (m - 1) : s[i + 1] = s[i] + counts[i]}
           S == {m \in 0 .. n : Sums(m) # {}}
<1>1. 0 \in S
  <2>1. [i \in 0 .. 0 |-> 0] \in Sums(0)
    OBVIOUS
  <2> QED BY <2>1
<1>2. ASSUME NEW m \in 0 .. (n - 1), m \in S  PROVE m + 1 \in S
  <2>1. PICK s \in Sums(m) : TRUE
    BY <1>2
  <2> DEFINE t == [i \in 0 .. (m + 1) |-> IF i = m + 1 THEN s[m] + counts[m] ELSE s[i]]
  <2>2. t \in [0 .. (m + 1) -> Int] /\ t[0] = 0
    BY <2>1
  <2>3. ASSUME NEW i \in 0 .. m  PROVE t[i + 1] = t[i] + counts[i]
    BY <2>1
  <2>4. t \in Sums(m + 1)
    BY <2>2, <2>3
  <2>5. m + 1 \in 0 .. n
    OBVIOUS
  <2>6. Sums(m + 1) # {}
    BY <2>4
  <2> HIDE DEF Sums
  <2> QED BY <2>5, <2>6
<1>3. n \in S
  <2> HIDE DEF S
  <2> QED BY <1>1, <1>2, AllUpTo
<1> QED BY <1>3

LEMMA RunningSum ==
  ASSUME NEW n \in Nat, NEW counts, \A i \in 0 .. (n - 1) : counts[i] \in Int
  PROVE  \E s \in [0 .. n -> Int] :
           s = [i \in 0 .. n |-> IF i = 0 THEN 0 ELSE s[i - 1] + counts[i - 1]]
<1>1. PICK s \in [0 .. n -> Int] :
             s[0] = 0 /\ \A i \in 0 .. (n - 1) : s[i + 1] = s[i] + counts[i]
  BY RunningSteps
<1>2. ASSUME NEW i \in 0 .. n, i # 0  PROVE s[i] = s[i - 1] + counts[i - 1]
  <2>1. i - 1 \in 0 .. (n - 1) /\ i - 1 + 1 = i
    BY <1>2
  <2> QED BY <1>1, <2>1
<1>3. s = [i \in 0 .. n |-> IF i = 0 THEN 0 ELSE s[i - 1] + counts[i - 1]]
  BY <1>1, <1>2
<1> QED BY <1>3

-----------------------------------------------------------------------------
(* Sums of the cells of an array, and the offsets ParallelPrefixSum makes  *)
(* of them block by block.                                                 *)

\* SumOf is the last of the running sums, whatever way they are given.
LEMMA SumOfIs ==
  ASSUME NEW lo \in Nat, NEW hi \in Nat, lo <= hi, NEW a,
         \A i \in lo .. (hi - 1) : a[i] \in Int
  PROVE  \A s : s[lo] = 0 /\ (\A i \in lo .. (hi - 1) : s[i + 1] = s[i] + a[i])
                  => SumOf(a, lo, hi) = s[hi]
<1>0. PICK f \in [lo .. hi -> Int] :
             \A i \in lo .. hi : f[i] = IF i = lo THEN 0 ELSE f[i - 1] + a[i - 1]
  <2> DEFINE counts == [j \in 0 .. hi |-> IF j < lo \/ j = hi THEN 0 ELSE a[j]]
  <2>1. PICK r \in [0 .. hi -> Int] :
               r[0] = 0 /\ \A i \in 0 .. (hi - 1) : r[i + 1] = r[i] + counts[i]
    <3>1. \A j \in 0 .. (hi - 1) : counts[j] \in Int
      OBVIOUS
    <3> HIDE DEF counts
    <3> QED BY <3>1, RunningSteps
  <2> DEFINE g == [i \in lo .. hi |-> r[i] - r[lo]]
  <2>2. ASSUME NEW i \in lo .. hi  PROVE g[i] = IF i = lo THEN 0 ELSE g[i - 1] + a[i - 1]
    <3>1. r[lo] \in Int /\ r[i] \in Int
      BY <2>1
    <3>2. CASE i = lo
      BY <3>1, <3>2
    <3>3. CASE i # lo
      <4> HIDE DEF counts
      <4>1. i - 1 \in 0 .. (hi - 1) /\ i - 1 \in lo .. hi /\ (i - 1) + 1 = i /\ i - 1 \in lo .. (hi - 1)
        BY <3>3
      <4>2. r[i] = r[i - 1] + counts[i - 1] /\ r[i - 1] \in Int
        BY <2>1, <4>1
      <4>3. counts[i - 1] = a[i - 1] /\ a[i - 1] \in Int
        BY <4>1 DEF counts
      <4>4. g[i] = r[i] - r[lo] /\ g[i - 1] = r[i - 1] - r[lo]
        BY <4>1
      <4> HIDE DEF g
      <4> QED BY <3>1, <3>3, <4>2, <4>3, <4>4
    <3> QED BY <3>2, <3>3
  <2>3. g \in [lo .. hi -> Int]
    BY <2>1
  <2> QED BY <2>2, <2>3
<1> DEFINE body(g) == [i \in lo .. hi |-> IF i = lo THEN 0 ELSE g[i - 1] + a[i - 1]]
           sum == CHOOSE g : g = body(g)
<1>1. \E g : g = body(g)
  <2>1. f = body(f)
    BY <1>0
  <2> QED BY <2>1
<1>2. sum = body(sum)
  BY <1>1
<1>3. SumOf(a, lo, hi) = sum[hi]
  BY DEF SumOf
<1> HIDE DEF sum
<1> SUFFICES ASSUME NEW s, s[lo] = 0, \A i \in lo .. (hi - 1) : s[i + 1] = s[i] + a[i]
             PROVE  SumOf(a, lo, hi) = s[hi]
  OBVIOUS
<1> DEFINE T == {j \in 0 .. (hi - lo) : sum[lo + j] = s[lo + j]}
<1>4. 0 \in T
  BY <1>2
<1>5. ASSUME NEW j \in 0 .. (hi - lo - 1), j \in T  PROVE j + 1 \in T
  <2>1. lo + (j + 1) \in lo .. hi /\ lo + (j + 1) # lo /\ lo + (j + 1) - 1 = lo + j /\ lo + j \in lo .. (hi - 1)
    OBVIOUS
  <2>2. sum[lo + (j + 1)] = sum[lo + j] + a[lo + j]
    BY <1>2, <2>1
  <2>3. s[lo + (j + 1)] = s[lo + j] + a[lo + j]
    <3>1. lo + (j + 1) = (lo + j) + 1
      OBVIOUS
    <3> QED BY <2>1, <3>1
  <2> QED BY <1>5, <2>2, <2>3
<1>6. hi - lo \in T
  <2>1. hi - lo \in Nat /\ hi - lo \in 0 .. (hi - lo)
    OBVIOUS
  <2> HIDE DEF T
  <2>2. \A m \in 0 .. (hi - lo) : m \in T
    BY <1>4, <1>5, <2>1, AllUpTo
  <2> QED BY <2>1, <2>2
<1>7. sum[lo + (hi - lo)] = s[lo + (hi - lo)] /\ lo + (hi - lo) = hi
  BY <1>6
<1> QED BY <1>3, <1>7

\* Nothing, one cell more, and the cells from the middle on.
LEMMA SumOfFacts ==
  ASSUME NEW lo \in Nat, NEW hi \in Nat, lo <= hi, NEW a,
         \A i \in lo .. (hi - 1) : a[i] \in Int
  PROVE  /\ SumOf(a, lo, lo) = 0
         /\ \A i \in lo .. hi : SumOf(a, lo, i) \in Int
         /\ \A i \in lo .. (hi - 1) : SumOf(a, lo, i + 1) = SumOf(a, lo, i) + a[i]
         /\ \A i \in lo .. hi : SumOf(a, lo, hi) = SumOf(a, lo, i) + SumOf(a, i, hi)
<1> DEFINE counts == [j \in 0 .. hi |-> IF j < lo \/ j = hi THEN 0 ELSE a[j]]
<1>1. PICK r \in [0 .. hi -> Int] :
             r[0] = 0 /\ \A i \in 0 .. (hi - 1) : r[i + 1] = r[i] + counts[i]
  <2>1. \A j \in 0 .. (hi - 1) : counts[j] \in Int
    OBVIOUS
  <2> HIDE DEF counts
  <2> QED BY <2>1, RunningSteps
<1>2. ASSUME NEW i \in lo .. (hi - 1)  PROVE r[i + 1] = r[i] + a[i]
  <2>1. i \in 0 .. hi /\ ~ (i < lo \/ i = hi) /\ i \in 0 .. (hi - 1)
    OBVIOUS
  <2>2. counts[i] = a[i]
    BY <2>1
  <2> HIDE DEF counts
  <2> QED BY <1>1, <2>1, <2>2
<1>0. \A i \in lo .. hi : r[i] \in Int
  BY <1>1
<1> HIDE DEF counts
<1>3. ASSUME NEW i \in lo .. hi, NEW j \in i .. hi  PROVE SumOf(a, i, j) = r[j] - r[i]
  <2> DEFINE s == [k \in i .. j |-> r[k] - r[i]]
  <2>1. i \in Nat /\ j \in Nat /\ i <= j /\ i \in i .. j /\ j \in i .. j
    OBVIOUS
  <2>2. \A k \in i .. (j - 1) : /\ k \in lo .. (hi - 1) /\ k + 1 \in i .. j /\ k \in i .. j
                                /\ k \in lo .. hi /\ k + 1 \in lo .. hi /\ i \in lo .. hi
    OBVIOUS
  <2>3. s[i] = 0 /\ s[j] = r[j] - r[i] /\ \A k \in i .. j : s[k] = r[k] - r[i]
    BY <1>0, <2>1
  <2> HIDE DEF s
  <2>4. \A k \in i .. (j - 1) : a[k] \in Int
    BY <2>2
  <2>5. ASSUME NEW k \in i .. (j - 1)  PROVE s[k + 1] = s[k] + a[k]
    <3>1. r[k + 1] = r[k] + a[k] /\ r[k] \in Int /\ r[i] \in Int /\ a[k] \in Int
      BY <1>0, <1>2, <2>2
    <3>2. s[k + 1] = r[k + 1] - r[i] /\ s[k] = r[k] - r[i]
      BY <2>2, <2>3
    <3> QED BY <3>1, <3>2
  <2> QED BY <2>1, <2>3, <2>4, <2>5, SumOfIs
<1>4. ASSUME NEW i \in lo .. hi
      PROVE  SumOf(a, lo, i) = r[i] - r[lo] /\ SumOf(a, i, hi) = r[hi] - r[i]
  <2>1. lo \in lo .. hi /\ i \in lo .. hi /\ hi \in i .. hi
    OBVIOUS
  <2> QED BY <1>3, <2>1
<1>5. lo \in lo .. hi /\ hi \in lo .. hi /\ r[lo] \in Int /\ r[hi] \in Int
  BY <1>0
<1>6. ASSUME NEW i \in lo .. (hi - 1)  PROVE SumOf(a, lo, i + 1) = SumOf(a, lo, i) + a[i]
  <2>1. i \in lo .. hi /\ i + 1 \in lo .. hi /\ a[i] \in Int /\ r[i] \in Int
    BY <1>0
  <2>2. SumOf(a, lo, i + 1) = r[i + 1] - r[lo] /\ SumOf(a, lo, i) = r[i] - r[lo]
    BY <1>4, <2>1
  <2> QED BY <1>2, <1>5, <2>1, <2>2
<1>7. SumOf(a, lo, lo) = 0
  BY <1>4, <1>5
<1>8. ASSUME NEW i \in lo .. hi
      PROVE  SumOf(a, lo, i) \in Int /\ SumOf(a, lo, hi) = SumOf(a, lo, i) + SumOf(a, i, hi)
  <2>1. SumOf(a, lo, hi) = r[hi] - r[lo]
    BY <1>4, <1>5
  <2> QED BY <1>0, <1>4, <1>5, <2>1
<1> QED BY <1>6, <1>7, <1>8

\* The blocks in front of block b hold what lies in front of its first cell.
LEMMA BulkIsSum ==
  ASSUME NEW n \in Nat, NEW a, \A i \in 0 .. (n - 1) : a[i] \in Int,
         NEW size \in Nat \ {0}, NEW b \in Nat, b = 0 \/ (b - 1) * size <= n
  PROVE  Bulk(a, n, size, b) = SumOf(a, 0, IF b * size < n THEN b * size ELSE n)
<1> DEFINE upto(c) == IF c * size < n THEN c * size ELSE n
           blocks == [c \in 0 .. (b - 1) |-> SumOf(a, c * size, upto(c + 1))]
           s == [c \in 0 .. b |-> SumOf(a, 0, upto(c))]
<1>1. ASSUME NEW c \in 0 .. b  PROVE upto(c) \in 0 .. n /\ c * size \in Nat
  OBVIOUS
<1>2. ASSUME NEW c \in 0 .. (b - 1)
      PROVE  c * size <= n /\ upto(c) = c * size /\ upto(c) <= upto(c + 1) /\ upto(c + 1) \in 0 .. n
  <2>1. (c + 1) * size = c * size + size /\ c * size \in Nat
    OBVIOUS
  <2>2. c * size <= (b - 1) * size
    <3>1. PICK d \in Nat : b - 1 = c + d
      <4>1. b - 1 - c \in Nat /\ b - 1 = c + (b - 1 - c)
        OBVIOUS
      <4> QED BY <4>1
    <3>2. (c + d) * size = c * size + d * size /\ d * size \in Nat
      OBVIOUS
    <3> QED BY <3>1, <3>2, <2>1
  <2>3. c * size <= n
    <3>1. (b - 1) * size \in Int
      OBVIOUS
    <3> QED BY <2>1, <2>2, <3>1
  <2> QED BY <2>1, <2>3
<1>3. ASSUME NEW c \in 0 .. (b - 1)
      PROVE  blocks[c] \in Int /\ s[c + 1] = s[c] + blocks[c]
  <2> DEFINE x == upto(c)
             y == upto(c + 1)
  <2>1. x \in Nat /\ y \in Nat /\ x <= y /\ y <= n /\ x = c * size
    BY <1>2
  <2>2. blocks[c] = SumOf(a, x, y) /\ s[c] = SumOf(a, 0, x) /\ s[c + 1] = SumOf(a, 0, y)
    <3>1. c \in 0 .. b /\ c + 1 \in 0 .. b
      OBVIOUS
    <3>2. blocks[c] = SumOf(a, c * size, y)
      OBVIOUS
    <3>3. s[c] = SumOf(a, 0, x) /\ s[c + 1] = SumOf(a, 0, y)
      BY <3>1
    <3> HIDE DEF s, blocks, y
    <3> QED BY <3>2, <3>3, <2>1
  <2> HIDE DEF x, y
  <2>3. /\ \A i \in 0 .. (y - 1) : a[i] \in Int
        /\ \A i \in x .. (y - 1) : a[i] \in Int
        /\ x \in 0 .. y /\ y \in x .. y
    BY <2>1
  <2>4. SumOf(a, 0, y) = SumOf(a, 0, x) + SumOf(a, x, y)
    BY <2>1, <2>3, SumOfFacts
  <2>5. SumOf(a, x, y) \in Int
    BY <2>1, <2>3, SumOfFacts
  <2> QED BY <2>2, <2>4, <2>5
<1>4. s[0] = 0
  <2>1. s[0] = SumOf(a, 0, 0)
    OBVIOUS
  <2> QED BY <2>1, SumOfFacts
<1>5. s[b] = SumOf(a, 0, upto(b)) /\ SumOf(blocks, 0, b) = Bulk(a, n, size, b)
  BY DEF Bulk
<1> HIDE DEF s, blocks, upto
<1>6. SumOf(blocks, 0, b) = s[b]
  BY <1>3, <1>4, SumOfIs
<1> QED BY <1>5, <1>6 DEF upto

\* The offsets found in parallel are the prefix sums.
LEMMA ParallelPrefixSumExact ==
  ASSUME NEW n \in Nat, NEW a, \A i \in 0 .. (n - 1) : a[i] \in Int,
         NEW size \in Nat \ {0}
  PROVE  ParallelPrefixSum(a, n, size) = PrefixSum(a, n)
<1> DEFINE num_blocks == (n + size - 1) \div size
<1>1. /\ num_blocks \in Nat
      /\ n <= num_blocks * size
      /\ num_blocks = 0 \/ (num_blocks - 1) * size <= n
  <2>1. PICK m \in Nat : m = n + size - 1
    OBVIOUS
  <2>2. m \div size \in Nat /\ m % size \in 0 .. (size - 1) /\ m = size * (m \div size) + (m % size)
    OBVIOUS
  <2> DEFINE q == m \div size
  <2> HIDE DEF q
  <2>3. q \in Nat /\ size * q = q * size /\ (q - 1) * size = q * size - size /\ q * size \in Nat
    BY <2>2 DEF q
  <2>4. n <= q * size /\ (q - 1) * size <= n
    BY <2>1, <2>2, <2>3 DEF q
  <2> QED BY <2>1, <2>3, <2>4 DEF q
<1>2. Bulk(a, n, size, num_blocks) = SumOf(a, 0, n)
  <2> HIDE DEF num_blocks
  <2>1. (IF num_blocks * size < n THEN num_blocks * size ELSE n) = n
    BY <1>1
  <2> QED BY <1>1, <2>1, BulkIsSum
<1>3. ASSUME NEW i \in 0 .. n, i # n
      PROVE  Bulk(a, n, size, i \div size) + SumOf(a, (i \div size) * size, i) = SumOf(a, 0, i)
  <2> DEFINE b == i \div size
  <2>1. b \in Nat /\ i % size \in 0 .. (size - 1) /\ i = size * b + (i % size)
    OBVIOUS
  <2>2. b * size = size * b /\ (b - 1) * size = b * size - size
    BY <2>1
  <2> HIDE DEF b
  <2>3. b * size \in Nat /\ b * size <= i /\ (b - 1) * size <= n
    BY <2>1, <2>2
  <2>4. Bulk(a, n, size, b) = SumOf(a, 0, b * size)
    <3>1. (IF b * size < n THEN b * size ELSE n) = b * size
      BY <1>3, <2>3
    <3> QED BY <2>1, <2>3, <3>1, BulkIsSum
  <2> DEFINE x == b * size
  <2>5. x \in 0 .. i /\ \A j \in 0 .. (i - 1) : a[j] \in Int
    BY <1>3, <2>3
  <2> HIDE DEF x
  <2>6. SumOf(a, 0, i) = SumOf(a, 0, x) + SumOf(a, x, i)
    BY <2>5, SumOfFacts
  <2> QED BY <2>4, <2>6 DEF b, x
<1>4. ASSUME NEW i \in 0 .. n  PROVE ParallelPrefixSum(a, n, size)[i] = SumOf(a, 0, i)
  BY <1>2, <1>3 DEF ParallelPrefixSum
<1> QED BY <1>4 DEF ParallelPrefixSum, PrefixSum

\* Offsets start at 0, grow by the degrees, and are therefore in order.
LEMMA PrefixSumFacts ==
  ASSUME NEW n \in Nat, NEW a, \A i \in 0 .. (n - 1) : a[i] \in Nat
  PROVE  /\ PrefixSum(a, n) \in [0 .. n -> Nat]
         /\ PrefixSum(a, n)[0] = 0
         /\ \A i \in 0 .. (n - 1) : PrefixSum(a, n)[i + 1] = PrefixSum(a, n)[i] + a[i]
         /\ \A i, j \in 0 .. n : i <= j => PrefixSum(a, n)[i] <= PrefixSum(a, n)[j]
<1> DEFINE p == PrefixSum(a, n)
<1>1. /\ DOMAIN p = 0 .. n /\ \A i \in 0 .. n : p[i] \in Int
      /\ p[0] = 0 /\ \A i \in 0 .. (n - 1) : p[i + 1] = p[i] + a[i]
  <2>1. \A i \in 0 .. n : p[i] = SumOf(a, 0, i)
    BY DEF PrefixSum
  <2>2. 0 \in 0 .. n /\ \A i \in 0 .. (n - 1) : i + 1 \in 0 .. n /\ i \in 0 .. n /\ a[i] \in Int
    OBVIOUS
  <2>4. n \in Nat /\ 0 \in Nat /\ 0 <= n
    OBVIOUS
  <2>5. \A i \in 0 .. (n - 1) : a[i] \in Int
    OBVIOUS
  <2> HIDE DEF p
  <2>3. /\ SumOf(a, 0, 0) = 0 /\ \A i \in 0 .. n : SumOf(a, 0, i) \in Int
        /\ \A i \in 0 .. (n - 1) : SumOf(a, 0, i + 1) = SumOf(a, 0, i) + a[i]
    BY <2>4, <2>5, SumOfFacts
  <2> QED BY <2>1, <2>2, <2>3 DEF p, PrefixSum
<1> HIDE DEF p
<1>2. ASSUME NEW i \in 0 .. n  PROVE \A j \in i .. n : p[i] <= p[j]
  <2> DEFINE T == {d \in 0 .. (n - i) : p[i] <= p[i + d]}
  <2>1. 0 \in T
    BY <1>1
  <2>2. ASSUME NEW d \in 0 .. (n - i - 1), d \in T  PROVE d + 1 \in T
    <3>1. i + d \in 0 .. (n - 1) /\ i + (d + 1) = (i + d) + 1 /\ i + (d + 1) \in 0 .. n /\ i + d \in 0 .. n
      OBVIOUS
    <3>2. p[i + (d + 1)] = p[i + d] + a[i + d]
      BY <1>1, <3>1
    <3> QED BY <1>1, <2>2, <3>1, <3>2
  <2> HIDE DEF T
  <2>3. 0 .. (n - i) \subseteq T
    BY <2>1, <2>2, AllUpTo
  <2>4. ASSUME NEW j \in i .. n  PROVE p[i] <= p[j]
    <3>1. j - i \in 0 .. (n - i) /\ i + (j - i) = j
      OBVIOUS
    <3> QED BY <2>3, <3>1 DEF T
  <2> QED BY <2>4
<1>3. \A i \in 0 .. n : p[i] \in Nat
  BY <1>1, <1>2
<1>4. p = [i \in 0 .. n |-> p[i]]
  BY DEF p, PrefixSum
<1>5. p \in [0 .. n -> Nat]
  BY <1>3, <1>4
<1>6. \A i, j \in 0 .. n : i <= j => p[i] <= p[j]
  BY <1>2
<1> QED BY <1>1, <1>5, <1>6 DEF p

-----------------------------------------------------------------------------
(* A flush to a queue that has room.                                       *)

Queues(max_size, T) ==
  [shared : [0 .. (max_size - 1) -> T], start : Nat, end : Nat, in : Nat]

LEMMA SmallQuotient ==
  ASSUME NEW m \in Nat \ {0}, NEW a \in 0 .. (m - 1)
  PROVE  a \div m = 0 /\ a % m = a /\ m % m = 0
  OBVIOUS

\* Buffered elements go to the cells claimed, one after the other.
LEMMA FlushTargets ==
  ASSUME NEW m \in Nat \ {0}, NEW copy_start \in Nat, NEW size \in Nat,
         copy_start + size <= m, NEW i \in 1 .. size
  PROVE  CopyTarget(copy_start, size, i, m) = copy_start + i - 1
<1>1. copy_start \in 0 .. (m - 1) /\ copy_start % m = copy_start /\ copy_start \div m = 0
  BY SmallQuotient
<1>2. CASE copy_start + size = m
  <2>1. (copy_start + size) % m = 0
    BY <1>2, SmallQuotient
  <2> QED BY <1>1, <2>1 DEF CopyTarget
<1>3. CASE copy_start + size # m
  <2>1. (copy_start + size) \div m = 0
    <3>1. copy_start + size \in 0 .. (m - 1)
      BY <1>3
    <3> QED BY <3>1, SmallQuotient
  <2> QED BY <1>1, <2>1 DEF CopyTarget
<1> QED BY <1>2, <1>3

Copied(q, copy_start, buffer, m) ==
  [q EXCEPT !.shared =
     [c \in 0 .. (m - 1) |-> IF c \in copy_start .. (copy_start + Len(buffer) - 1)
                             THEN buffer[c - copy_start + 1]
                             ELSE q.shared[c]]]

LEMMA FlushCopies ==
  ASSUME NEW m \in Nat \ {0}, NEW T, NEW q \in Queues(m, T), NEW buffer \in Seq(T),
         NEW copy_start \in Nat, copy_start + Len(buffer) <= m
  PROVE  FlushCopy(q, copy_start, buffer, m) = Copied(q, copy_start, buffer, m)
<1> DEFINE target(i) == CopyTarget(copy_start, Len(buffer), i, m)
           hit(c) == {i \in 1 .. Len(buffer) : target(i) = c}
           cells == DOMAIN q.shared \union {target(i) : i \in 1 .. Len(buffer)}
           old == [c \in cells |-> IF hit(c) # {} THEN buffer[CHOOSE i \in hit(c) : TRUE]
                                   ELSE q.shared[c]]
           new == [c \in 0 .. (m - 1) |-> IF c \in copy_start .. (copy_start + Len(buffer) - 1)
                                          THEN buffer[c - copy_start + 1]
                                          ELSE q.shared[c]]
<1>1. Len(buffer) \in Nat
  OBVIOUS
<1>2. \A i \in 1 .. Len(buffer) : target(i) = copy_start + i - 1
  BY <1>1, FlushTargets
<1> HIDE DEF target
<1>3. cells = 0 .. (m - 1)
  BY <1>1, <1>2 DEF Queues
<1>4. ASSUME NEW c \in 0 .. (m - 1)
      PROVE  (IF hit(c) # {} THEN buffer[CHOOSE i \in hit(c) : TRUE] ELSE q.shared[c]) =
             (IF c \in copy_start .. (copy_start + Len(buffer) - 1)
              THEN buffer[c - copy_start + 1] ELSE q.shared[c])
  <2>1. CASE c \in copy_start .. (copy_start + Len(buffer) - 1)
    <3>1. c - copy_start + 1 \in 1 .. Len(buffer)
      BY <1>1, <2>1
    <3>2. hit(c) = {c - copy_start + 1}
      BY <1>1, <1>2, <3>1
    <3>3. (CHOOSE i \in hit(c) : TRUE) = c - copy_start + 1
      BY <3>2
    <3> QED BY <2>1, <3>2, <3>3
  <2>2. CASE c \notin copy_start .. (copy_start + Len(buffer) - 1)
    <3>1. hit(c) = {}
      BY <1>1, <1>2, <2>2
    <3> QED BY <2>2, <3>1
  <2> QED BY <2>1, <2>2
<1>5. old = new
  <2> HIDE DEF cells, hit
  <2> QED BY <1>3, <1>4
<1>6. FlushCopy(q, copy_start, buffer, m) = [q EXCEPT !.shared = old]
  BY DEF FlushCopy, target
<1> HIDE DEF old, new
<1>7. FlushCopy(q, copy_start, buffer, m) = [q EXCEPT !.shared = new]
  BY <1>5, <1>6
<1> QED BY <1>7 DEF new, Copied

-----------------------------------------------------------------------------
(* The trees of a parent array, and connected components.                  *)

\* Being in one tree is an equivalence.
LEMMA SameTreeReflexive ==
  ASSUME NEW f, NEW x  PROVE SameTree(f, x, x)
  BY DEF SameTree

LEMMA SameTreeSymmetric ==
  ASSUME NEW f, NEW x, NEW y, SameTree(f, x, y)  PROVE SameTree(f, y, x)
  BY DEF SameTree

LEMMA SameTreeTransitive ==
  ASSUME NEW f, NEW x, NEW y, NEW z, SameTree(f, x, y), SameTree(f, y, z)
  PROVE  SameTree(f, x, z)
  BY DEF SameTree

\* A vertex is in the tree of its parent.
LEMMA SameTreeParent ==
  ASSUME NEW f, NEW x \in NodeID  PROVE SameTree(f, x, f[x])
  BY NAssumption DEF SameTree, Respects, RespectsBelow, NodeID

\* If every set that respects g respects f, then g's trees contain f's.
LEMMA SameTreeGrows ==
  ASSUME NEW f, NEW g, NEW x, NEW y,
         \A S \in SUBSET NodeID : Respects(g, S) => Respects(f, S),
         SameTree(f, x, y)
  PROVE  SameTree(g, x, y)
  BY DEF SameTree

\* Hooking a root changes no parent that counts.
LEMMA HookRespects ==
  ASSUME NEW f \in [NodeID -> NodeID], NEW h \in NodeID, NEW low \in NodeID,
         f[h] = h
  PROVE  \A S \in SUBSET NodeID, m \in Nat :
           RespectsBelow([f EXCEPT ![h] = low], S, m) => RespectsBelow(f, S, m)
  BY DEF RespectsBelow, NodeID

\* Replacing the parent of n by a vertex joined to it by parents below n
\* separates nothing.
LEMMA ShortcutRespects ==
  ASSUME NEW f \in [NodeID -> NodeID], NEW n \in NodeID, NEW d \in NodeID,
         \A S \in SUBSET NodeID : RespectsBelow(f, S, n) => (f[n] \in S <=> d \in S)
  PROVE  \A S \in SUBSET NodeID, m \in Nat :
           RespectsBelow([f EXCEPT ![n] = d], S, m) => RespectsBelow(f, S, m)
<1> DEFINE g == [f EXCEPT ![n] = d]
<1> SUFFICES ASSUME NEW S \in SUBSET NodeID, NEW m \in Nat, RespectsBelow(g, S, m),
                    NEW x \in NodeID, x < m
             PROVE  x \in S <=> f[x] \in S
  BY DEF RespectsBelow
<1>1. CASE x # n
  BY <1>1 DEF RespectsBelow
<1>2. CASE x = n
  <2>1. RespectsBelow(f, S, n)
    BY <1>2 DEF RespectsBelow, NodeID
  <2>2. f[n] \in S <=> d \in S
    BY <2>1
  <2>3. n \in S <=> d \in S
    BY <1>2 DEF RespectsBelow
  <2> QED BY <1>2, <2>2, <2>3
<1> QED BY <1>1, <1>2

\* Being connected is an equivalence too, and contains every edge.
LEMMA SameComponentEquivalence ==
  ASSUME NEW g, NEW x, NEW y, NEW z
  PROVE  /\ SameComponent(g, x, x)
         /\ SameComponent(g, x, y) => SameComponent(g, y, x)
         /\ SameComponent(g, x, y) /\ SameComponent(g, y, z)
              => SameComponent(g, x, z)
  BY DEF SameComponent

LEMMA EdgeConnects ==
  ASSUME NEW g, NEW x \in NodeID, NEW y \in NodeID, Adjacent(g, x, y)
  PROVE  SameComponent(g, x, y)
  BY DEF Adjacent, SameComponent, Closed

\* If every parent is connected to its child, so is every tree.
LEMMA TreeConnects ==
  ASSUME NEW g, NEW f, NEW x, NEW y,
         \A n \in NodeID : SameComponent(g, n, f[n]),
         SameTree(f, x, y)
  PROVE  SameComponent(g, x, y)
  BY DEF SameComponent, SameTree, Respects, RespectsBelow

\* In flat trees, two vertices of one tree have the same parent.
LEMMA FlatTree ==
  ASSUME NEW f \in [NodeID -> NodeID], \A n \in NodeID : f[f[n]] = f[n],
         NEW x \in NodeID, NEW y \in NodeID, SameTree(f, x, y)
  PROVE  f[x] = f[y]
<1> DEFINE S == {n \in NodeID : f[n] = f[x]}
<1>1. Respects(f, S)
  BY DEF Respects, RespectsBelow
<1>2. x \in S <=> y \in S
  BY <1>1 DEF SameTree
<1> QED BY <1>2

\* If the vertices with one label are connected, and the ends of every edge
\* have the same label, then the labels are exactly the components.
LEMMA LabelsAreComponents ==
  ASSUME NEW g, NEW f \in [NodeID -> NodeID],
         \A n \in NodeID : SameComponent(g, n, f[n]),
         \A x, y \in NodeID : Adjacent(g, x, y) => f[x] = f[y],
         NEW x \in NodeID, NEW y \in NodeID
  PROVE  f[x] = f[y] <=> SameComponent(g, x, y)
<1>1. ASSUME f[x] = f[y]  PROVE SameComponent(g, x, y)
  BY <1>1, SameComponentEquivalence
<1>2. ASSUME SameComponent(g, x, y)  PROVE f[x] = f[y]
  <2> DEFINE S == {n \in NodeID : f[n] = f[x]}
  <2>1. Closed(g, S)
    BY DEF Closed, Adjacent
  <2>2. x \in S <=> y \in S
    BY <1>2, <2>1 DEF SameComponent
  <2> QED BY <2>2
<1> QED BY <1>1, <1>2

-----------------------------------------------------------------------------
(* CCVerifier. *)

\* A label that occurs has a last vertex.
LEMMA LabelSourceDef ==
  ASSUME NEW comp, NEW label \in {comp[n] : n \in NodeID}
  PROVE  /\ LabelSource(comp, label) \in NodeID
         /\ comp[LabelSource(comp, label)] = label
<1> DEFINE S == {k \in Nat : k < N /\ comp[N - 1 - k] = label}
<1>1. \A n \in NodeID : N - 1 - n \in Nat /\ N - 1 - n < N /\ N - 1 - (N - 1 - n) = n
  BY NAssumption DEF NodeID
<1>2. PICK a \in NodeID : comp[a] = label
  OBVIOUS
<1>3. N - 1 - a \in S
  BY <1>1, <1>2
<1>4. PICK k \in S : \A j \in S : k <= j
  <2> HIDE DEF S
  <2>1. S \in SUBSET Nat
    BY DEF S
  <2> QED BY <2>1, <1>3, LeastNumber
<1>5. N - 1 - k \in NodeID /\ comp[N - 1 - k] = label
  BY <1>4, NAssumption DEF NodeID
<1>6. ASSUME NEW x \in NodeID, comp[x] = label  PROVE x <= N - 1 - k
  <2>1. N - 1 - x \in S
    BY <1>1, <1>6
  <2>2. k <= N - 1 - x
    BY <2>1, <1>4
  <2> QED BY <2>2, <1>4, NAssumption DEF NodeID
<1>7. \E n \in NodeID : comp[n] = label /\ \A x \in NodeID : comp[x] = label => x <= n
  BY <1>5, <1>6
<1> QED BY <1>7 DEF LabelSource

\* The verifier accepts a labelling exactly if its classes are the components.
LEMMA VerifierExact ==
  ASSUME NEW g, NEW comp
  PROVE  CCVerifier(g, comp) <=>
           \A x, y \in NodeID : comp[x] = comp[y] <=> SameComponent(g, x, y)
<1> DEFINE Labels == {comp[n] : n \in NodeID}
           Source(label) == LabelSource(comp, label)
<1>1. \A label \in Labels : Source(label) \in NodeID /\ comp[Source(label)] = label
  BY LabelSourceDef
<1> HIDE DEF Source
<1>2. ASSUME CCVerifier(g, comp), NEW x \in NodeID, NEW label \in Labels,
             SameComponent(g, Source(label), x)
      PROVE  comp[x] = label
  <2> DEFINE S == {n \in NodeID : SameComponent(g, Source(label), n) /\ comp[n] = label}
  <2>1. ASSUME NEW u \in S, NEW v \in NodeID, Adjacent(g, u, v)  PROVE v \in S
    <3>1. comp[v] = label
      BY <1>2, <2>1 DEF CCVerifier, Source
    <3>2. SameComponent(g, u, v)
      BY <2>1, EdgeConnects
    <3> QED BY <3>1, <3>2, <2>1, SameComponentEquivalence
  <2>2. Closed(g, S)
    <3> SUFFICES ASSUME NEW u \in NodeID, NEW v \in NodeID, Occurs(v, OutNeigh(g, u))
                 PROVE  u \in S <=> v \in S
      BY DEF Closed
    <3>1. Adjacent(g, u, v) /\ Adjacent(g, v, u)
      BY DEF Adjacent
    <3> QED BY <3>1, <2>1
  <2>3. Source(label) \in S
    BY <1>1, SameComponentEquivalence
  <2>4. S \in SUBSET NodeID
    OBVIOUS
  <2>5. x \in S
    <3> HIDE DEF S
    <3> QED BY <2>2, <2>3, <2>4, <1>2 DEF SameComponent
  <2> QED BY <2>5
<1>3. ASSUME CCVerifier(g, comp), NEW x \in NodeID, NEW y \in NodeID
      PROVE  comp[x] = comp[y] <=> SameComponent(g, x, y)
  <2>1. PICK label \in Labels : SameComponent(g, Source(label), x)
    BY <1>3 DEF CCVerifier, Source
  <2>2. PICK other \in Labels : SameComponent(g, Source(other), y)
    BY <1>3 DEF CCVerifier, Source
  <2>3. comp[x] = label /\ comp[y] = other
    BY <1>2, <1>3, <2>1, <2>2
  <2>4. ASSUME comp[x] = comp[y]  PROVE SameComponent(g, x, y)
    <3>1. SameComponent(g, Source(label), y)
      BY <2>2, <2>3, <2>4
    <3> QED BY <3>1, <2>1, SameComponentEquivalence
  <2>5. ASSUME SameComponent(g, x, y)  PROVE comp[x] = comp[y]
    <3>1. SameComponent(g, Source(label), y)
      BY <2>1, <2>5, SameComponentEquivalence
    <3> QED BY <3>1, <2>3, <1>2, <1>3
  <2> QED BY <2>4, <2>5
<1>4. ASSUME \A x, y \in NodeID : comp[x] = comp[y] <=> SameComponent(g, x, y)
      PROVE  CCVerifier(g, comp)
  <2>1. ASSUME NEW label \in Labels, NEW u \in NodeID, NEW v \in NodeID,
               SameComponent(g, Source(label), u), Adjacent(g, u, v)
        PROVE  comp[v] = label
    <3>1. SameComponent(g, Source(label), v)
      BY <2>1, EdgeConnects, SameComponentEquivalence
    <3> QED BY <3>1, <1>1, <1>4
  <2>2. ASSUME NEW n \in NodeID
        PROVE  comp[n] \in Labels /\ SameComponent(g, Source(comp[n]), n)
    BY <1>1, <1>4
  <2> QED BY <2>1, <2>2 DEF CCVerifier, Source
<1>5. (CCVerifier(g, comp)) \in BOOLEAN
  BY DEF CCVerifier
<1> QED BY <1>3, <1>4, <1>5

-----------------------------------------------------------------------------
(* Climbing to the root. *)

\* The definition of Climb is sound: there is such a function.
LEMMA ClimbDef ==
  ASSUME NEW f \in [NodeID -> NodeID], NEW x \in NodeID
  PROVE  /\ Climb(f, x) \in [0 .. N -> NodeID]
         /\ Climb(f, x)[0] = x
         /\ \A i \in 0 .. (N - 1) : Climb(f, x)[i + 1] = f[Climb(f, x)[i]]
<1> DEFINE body(h) == [i \in 0 .. N |-> IF i = 0 THEN x ELSE f[h[i - 1]]]
<1>4. N \in Nat
  BY NAssumption
<1>5. \E g : g = body(g)
  <2>1. PICK g : IsIteration(g, N, f, x)
    BY <1>4, Iteration
  <2> QED BY <2>1 DEF IsIteration
<1>6. Climb(f, x) = body(Climb(f, x))
  BY <1>5 DEF Climb
<1>7. Climb(f, x)[0] = x /\ DOMAIN Climb(f, x) = 0 .. N
  BY <1>6, NAssumption
<1>8. ASSUME NEW i \in 0 .. (N - 1)  PROVE Climb(f, x)[i + 1] = f[Climb(f, x)[i]]
  BY <1>6, NAssumption
<1>9. 0 .. N \subseteq {i \in 0 .. N : Climb(f, x)[i] \in NodeID}
  <2> DEFINE T == {i \in 0 .. N : Climb(f, x)[i] \in NodeID}
  <2>1. 0 \in T
    BY <1>7, NAssumption
  <2>2. \A n \in 0 .. (N - 1) : n \in T => n + 1 \in T
    BY <1>8, NAssumption
  <2> HIDE DEF T
  <2>3. 0 .. N \subseteq T
    BY <2>1, <2>2, AllUpTo, NAssumption
  <2> QED BY <2>3 DEF T
<1> QED BY <1>6, <1>7, <1>8, <1>9

\* Climbing stays in the tree.
LEMMA RootInTree ==
  ASSUME NEW f \in [NodeID -> NodeID], NEW x \in NodeID
  PROVE  Root(f, x) \in NodeID /\ SameTree(f, x, Root(f, x))
<1> DEFINE c == Climb(f, x)
           T == {i \in 0 .. N : SameTree(f, x, c[i])}
<1>0. c \in [0 .. N -> NodeID] /\ c[0] = x /\ \A i \in 0 .. (N - 1) : c[i + 1] = f[c[i]]
  BY ClimbDef
<1> HIDE DEF c
<1>1. 0 \in T
  BY <1>0, SameTreeReflexive, NAssumption
<1>2. ASSUME NEW n \in 0 .. (N - 1), n \in T  PROVE n + 1 \in T
  <2>1. c[n] \in NodeID /\ n + 1 \in 0 .. N /\ c[n + 1] = f[c[n]]
    BY <1>0, NAssumption
  <2> QED BY <1>2, <2>1, SameTreeParent, SameTreeTransitive
<1>3. 0 .. N \subseteq T
  <2> HIDE DEF T
  <2> QED BY <1>1, <1>2, AllUpTo, NAssumption
<1> QED BY <1>0, <1>3, NAssumption DEF Root, c

\* Where parents are not above their children, N steps reach a root.
LEMMA RootIsRoot ==
  ASSUME NEW f \in [NodeID -> NodeID], NEW x \in NodeID, \A n \in NodeID : f[n] <= n
  PROVE  f[Root(f, x)] = Root(f, x) /\ Root(f, x) <= x
<1> DEFINE c == Climb(f, x)
           T == {i \in 0 .. N : c[i] <= x /\ (f[c[i]] = c[i] \/ c[i] < N - i)}
<1>0. c \in [0 .. N -> NodeID] /\ c[0] = x /\ \A i \in 0 .. (N - 1) : c[i + 1] = f[c[i]]
  BY ClimbDef
<1> HIDE DEF c
<1>1. 0 \in T
  <2>1. 0 \in 0 .. N /\ x <= x /\ x < N - 0
    BY NAssumption DEF NodeID
  <2> QED BY <1>0, <2>1
<1>2. ASSUME NEW n \in 0 .. (N - 1), n \in T  PROVE n + 1 \in T
  <2>1. c[n] \in NodeID /\ n + 1 \in 0 .. N /\ c[n + 1] = f[c[n]] /\ c[n + 1] \in NodeID
    BY <1>0, NAssumption
  <2>2. f[c[n]] <= c[n]
    BY <2>1
  <2>3. CASE f[c[n]] = c[n]
    BY <1>2, <2>1, <2>3
  <2>4. CASE f[c[n]] # c[n]
    <3>1. c[n] < N - n /\ c[n] <= x
      BY <1>2, <2>4
    <3>2. c[n] \in Int /\ c[n + 1] \in Int /\ N \in Int /\ n \in Int /\ x \in Int
      BY <2>1, NAssumption DEF NodeID
    <3>3. c[n + 1] <= c[n] /\ c[n + 1] # c[n]
      BY <2>1, <2>2, <2>4
    <3>4. c[n + 1] < N - (n + 1) /\ c[n + 1] <= x
      BY <3>1, <3>2, <3>3
    <3> QED BY <2>1, <3>4
  <2> QED BY <2>3, <2>4
<1>3. 0 .. N \subseteq T
  <2> HIDE DEF T
  <2> QED BY <1>1, <1>2, AllUpTo, NAssumption
<1>4. c[N] \in NodeID /\ N \in T
  BY <1>0, <1>3, NAssumption
<1> QED BY <1>4, NAssumption DEF Root, c, NodeID

\* So a tree is what has one root.
LEMMA TreeOfIsTree ==
  ASSUME NEW f \in [NodeID -> NodeID], NEW x \in NodeID, \A n \in NodeID : f[n] <= n
  PROVE  TreeOf(f, x) = {y \in NodeID : SameTree(f, x, y)}
<1>1. ASSUME NEW y \in NodeID, Root(f, x) = Root(f, y)  PROVE SameTree(f, x, y)
  BY <1>1, RootInTree, SameTreeSymmetric, SameTreeTransitive
<1>2. ASSUME NEW y \in NodeID, SameTree(f, x, y)  PROVE Root(f, x) = Root(f, y)
  <2> DEFINE S == {n \in NodeID : Root(f, n) = Root(f, x)}
  <2>1. ASSUME NEW n \in NodeID  PROVE Root(f, n) = Root(f, f[n])
    <3> DEFINE c == Climb(f, n)  d == Climb(f, f[n])
               T == {i \in 0 .. N : d[i] = f[c[i]]}
    <3>0. /\ c \in [0 .. N -> NodeID] /\ c[0] = n /\ \A i \in 0 .. (N - 1) : c[i + 1] = f[c[i]]
          /\ d \in [0 .. N -> NodeID] /\ d[0] = f[n] /\ \A i \in 0 .. (N - 1) : d[i + 1] = f[d[i]]
      BY ClimbDef
    <3> HIDE DEF c, d
    <3>1. 0 \in T
      BY <3>0, NAssumption
    <3>2. \A i \in 0 .. (N - 1) : i \in T => i + 1 \in T
      BY <3>0, NAssumption
    <3>3. 0 .. N \subseteq T
      <4> HIDE DEF T
      <4> QED BY <3>1, <3>2, AllUpTo, NAssumption
    <3>4. d[N] = f[c[N]]
      BY <3>3, NAssumption
    <3> QED BY <3>4, RootIsRoot DEF Root, c, d
  <2>2. Respects(f, S)
    BY <2>1 DEF Respects, RespectsBelow
  <2>3. x \in S <=> y \in S
    BY <1>2, <2>2 DEF SameTree
  <2> QED BY <2>3
<1> QED BY <1>1, <1>2 DEF TreeOf

\* Hooking a root joins its tree with that of the new parent, and no others.
LEMMA HookUnites ==
  ASSUME NEW f \in [NodeID -> NodeID], NEW h \in NodeID, NEW low \in NodeID,
         f[h] = h, NEW x \in NodeID, NEW y \in NodeID
  PROVE  SameTree([f EXCEPT ![h] = low], x, y) <=>
           \/ SameTree(f, x, y)
           \/ /\ SameTree(f, h, x) \/ SameTree(f, low, x)
              /\ SameTree(f, h, y) \/ SameTree(f, low, y)
<1> DEFINE g == [f EXCEPT ![h] = low]
           Joined == {z \in NodeID : SameTree(f, h, z) \/ SameTree(f, low, z)}
<1>1. \A a, b : SameTree(f, a, b) => SameTree(g, a, b)
  <2>1. \A S \in SUBSET NodeID : Respects(g, S) => Respects(f, S)
    BY HookRespects, NAssumption DEF Respects
  <2> HIDE DEF g
  <2> QED BY <2>1, SameTreeGrows
<1>2. SameTree(g, h, low)
  <2>1. g[h] = low
    OBVIOUS
  <2> HIDE DEF g
  <2> QED BY <2>1, SameTreeParent
<1>3. ASSUME NEW z \in Joined  PROVE SameTree(g, h, z)
  <2> HIDE DEF g
  <2> QED BY <1>1, <1>2, SameTreeTransitive
<1>4. ASSUME x \in Joined, y \in Joined  PROVE SameTree(g, x, y)
  <2> HIDE DEF g, Joined
  <2> QED BY <1>3, <1>4, SameTreeSymmetric, SameTreeTransitive
<1>5. ASSUME SameTree(g, x, y), ~ SameTree(f, x, y)  PROVE x \in Joined /\ y \in Joined
  <2> DEFINE S == {z \in NodeID : SameTree(f, x, z) \/ (x \in Joined /\ z \in Joined)}
  <2>1. ASSUME NEW n \in NodeID, n # h  PROVE n \in S <=> g[n] \in S
    <3>1. g[n] = f[n] /\ f[n] \in NodeID /\ SameTree(f, n, f[n])
      BY <2>1, SameTreeParent
    <3>2. \A a : SameTree(f, a, n) <=> SameTree(f, a, f[n])
      BY <3>1, SameTreeSymmetric, SameTreeTransitive
    <3> QED BY <3>1, <3>2
  <2>2. h \in S <=> low \in S
    <3>1. h \in Joined /\ low \in Joined
      BY SameTreeReflexive
    <3>2. SameTree(f, x, h) \/ SameTree(f, x, low) => x \in Joined
      BY SameTreeSymmetric
    <3> QED BY <3>1, <3>2
  <2>3. g[h] = low
    OBVIOUS
  <2>4. Respects(g, S)
    <3> HIDE DEF g, S
    <3> QED BY <2>1, <2>2, <2>3 DEF Respects, RespectsBelow
  <2>5. x \in S
    BY SameTreeReflexive
  <2>6. y \in S
    <3> HIDE DEF g
    <3>1. S \in SUBSET NodeID
      OBVIOUS
    <3> HIDE DEF S
    <3> QED BY <1>5, <2>4, <2>5, <3>1 DEF SameTree
  <2> QED BY <1>5, <2>6
<1> QED BY <1>1, <1>4, <1>5

\* A shortcut within a tree changes no tree.
LEMMA ShortcutKeepsTrees ==
  ASSUME NEW f \in [NodeID -> NodeID], NEW n \in NodeID, NEW d \in NodeID,
         \A S \in SUBSET NodeID : RespectsBelow(f, S, n) => (f[n] \in S <=> d \in S),
         NEW x, NEW y
  PROVE  SameTree([f EXCEPT ![n] = d], x, y) <=> SameTree(f, x, y)
<1> DEFINE g == [f EXCEPT ![n] = d]
<1>1. \A S \in SUBSET NodeID : Respects(g, S) => Respects(f, S)
  BY ShortcutRespects, NAssumption DEF Respects
<1>2. ASSUME NEW S \in SUBSET NodeID, Respects(f, S)  PROVE Respects(g, S)
  <2>1. \A m \in NodeID : m \in S <=> f[m] \in S
    <3>1. \A m \in NodeID : m < N
      BY NAssumption DEF NodeID
    <3> QED BY <1>2, <3>1 DEF Respects, RespectsBelow
  <2>2. f[n] \in S <=> d \in S
    BY <2>1 DEF RespectsBelow
  <2> QED BY <2>1, <2>2 DEF Respects, RespectsBelow
<1> HIDE DEF g
<1>3. SameTree(f, x, y) => SameTree(g, x, y)
  BY <1>1, SameTreeGrows
<1>4. SameTree(g, x, y) => SameTree(f, x, y)
  BY <1>2, SameTreeGrows
<1> QED BY <1>3, <1>4 DEF g

-----------------------------------------------------------------------------
(* Sums over finite sets. *)

OneOf(s) == CHOOSE x \in s : TRUE

\* Sums over finite sets, as the fold of FiniteSetsExt computes them.
SetSum(f, S) ==
  LET iter[s \in SUBSET S] ==
        IF s = {} THEN 0 ELSE f[OneOf(s)] + iter[s \ {OneOf(s)}]
  IN  iter[S]

\* What holds of the empty set, and of a set when it holds of the set without one
\* of its elements, whichever it is, holds of every subset of a finite set.
LEMMA SubsetsInduct ==
  ASSUME NEW S, IsFiniteSet(S), NEW G, {} \in G,
         \A T \in SUBSET S : T # {} /\ (\A x \in T : T \ {x} \in G) => T \in G
  PROVE  SUBSET S \subseteq G
<1> DEFINE P == {n \in Nat : \A T \in SUBSET S : Cardinality(T) = n => T \in G}
<1>1. \A T \in SUBSET S : IsFiniteSet(T) /\ Cardinality(T) \in Nat
  BY FS_Subset, FS_CardinalityType
<1>2. 0 \in P
  BY <1>1, FS_EmptySet
<1>3. ASSUME NEW n \in Nat, n \in P  PROVE n + 1 \in P
  <2> SUFFICES ASSUME NEW T \in SUBSET S, Cardinality(T) = n + 1  PROVE T \in G
    OBVIOUS
  <2>1. T # {}
    <3>1. Cardinality({}) = 0
      BY FS_EmptySet
    <3> QED BY <3>1
  <2>2. ASSUME NEW x \in T  PROVE T \ {x} \in G
    <3>1. Cardinality(T \ {x}) = n
      BY <1>1, FS_RemoveElement
    <3> QED BY <1>3, <3>1
  <2> QED BY <2>1, <2>2
<1>4. P = Nat
  <2> HIDE DEF P
  <2>1. P \in SUBSET Nat
    BY DEF P
  <2> QED BY <1>2, <1>3, <2>1, AllNaturals
<1> QED BY <1>1, <1>4

\* The sums of the subsets of S, by the equation of the fold.
AreSums(h, f, S) ==
  /\ h \in [SUBSET S -> Int]
  /\ \A s \in SUBSET S : h[s] = IF s = {} THEN 0 ELSE f[OneOf(s)] + h[s \ {OneOf(s)}]

LEMMA SumFunctionExists ==
  ASSUME NEW S, IsFiniteSet(S), NEW f, \A x \in S : f[x] \in Int
  PROVE  \E h : AreSums(h, f, S)
<1> DEFINE Small(n) == {s \in SUBSET S : Cardinality(s) <= n}
           Sums(h, n) == \A s \in Small(n) :
                           h[s] = IF s = {} THEN 0 ELSE f[OneOf(s)] + h[s \ {OneOf(s)}]
           P == {n \in Nat : \E h \in [Small(n) -> Int] : Sums(h, n)}
<1>1. \A T \in SUBSET S : IsFiniteSet(T) /\ Cardinality(T) \in Nat
  BY FS_Subset, FS_CardinalityType
<1>2. ASSUME NEW s \in SUBSET S, s # {}
      PROVE  OneOf(s) \in s /\ Cardinality(s \ {OneOf(s)}) = Cardinality(s) - 1
  <2>1. OneOf(s) \in s
    BY <1>2 DEF OneOf
  <2> QED BY <1>1, <2>1, FS_RemoveElement
<1>3. 0 \in P
  <2>1. \A s \in Small(0) : s = {}
    BY <1>1, FS_EmptySet
  <2>2. [s \in Small(0) |-> 0] \in [Small(0) -> Int] /\ Sums([s \in Small(0) |-> 0], 0)
    BY <2>1
  <2> QED BY <2>2
<1>4. ASSUME NEW n \in Nat, n \in P  PROVE n + 1 \in P
  <2>1. PICK h \in [Small(n) -> Int] : Sums(h, n)
    BY <1>4
  <2> DEFINE g == [s \in Small(n + 1) |-> IF s \in Small(n) THEN h[s]
                                          ELSE f[OneOf(s)] + h[s \ {OneOf(s)}]]
  <2>2. \A s \in Small(n + 1) : s \in SUBSET S
    OBVIOUS
  <2>3. ASSUME NEW s \in Small(n + 1), s # {}
        PROVE  s \ {OneOf(s)} \in Small(n) /\ f[OneOf(s)] \in Int
    <3> QED BY <1>1, <1>2, <2>3
  <2>4. {} \in Small(n) /\ Small(n) \subseteq Small(n + 1)
    <3>1. Cardinality({}) = 0
      BY FS_EmptySet
    <3> QED BY <1>1, <3>1
  <2> HIDE DEF Small
  <2>5. g \in [Small(n + 1) -> Int]
    <3>1. \A s \in Small(n + 1) : s \in Small(n) => h[s] \in Int
      BY <2>1
    <3>2. \A s \in Small(n + 1) : s \notin Small(n) => f[OneOf(s)] + h[s \ {OneOf(s)}] \in Int
      <4> SUFFICES ASSUME NEW s \in Small(n + 1), s \notin Small(n)
                   PROVE  f[OneOf(s)] + h[s \ {OneOf(s)}] \in Int
        OBVIOUS
      <4>1. s # {}
        BY <2>4
      <4>2. s \ {OneOf(s)} \in Small(n) /\ f[OneOf(s)] \in Int
        BY <2>3, <4>1
      <4> QED BY <2>1, <4>2
    <3> QED BY <3>1, <3>2
  <2>6. Sums(g, n + 1)
    <3> SUFFICES ASSUME NEW s \in Small(n + 1)
                 PROVE  g[s] = IF s = {} THEN 0 ELSE f[OneOf(s)] + g[s \ {OneOf(s)}]
      OBVIOUS
    <3>1. CASE s = {}
      BY <2>1, <2>4, <3>1
    <3>2. CASE s # {}
      <4>1. s \ {OneOf(s)} \in Small(n) /\ s \ {OneOf(s)} \in Small(n + 1)
        BY <2>3, <2>4, <3>2
      <4>2. g[s \ {OneOf(s)}] = h[s \ {OneOf(s)}]
        BY <4>1
      <4>3. g[s] = f[OneOf(s)] + h[s \ {OneOf(s)}]
        BY <2>1, <3>2
      <4> QED BY <3>2, <4>2, <4>3
    <3> QED BY <3>1, <3>2
  <2> HIDE DEF g, Sums
  <2>7. \E k \in [Small(n + 1) -> Int] : Sums(k, n + 1)
    BY <2>5, <2>6
  <2> QED BY <2>7
<1>5. P = Nat
  <2> HIDE DEF P
  <2>1. P \in SUBSET Nat
    BY DEF P
  <2> QED BY <1>3, <1>4, <2>1, AllNaturals
<1>6. Cardinality(S) \in P
  BY <1>1, <1>5
<1>7. Small(Cardinality(S)) = SUBSET S
  BY <1>1, FS_Subset
<1>8. PICK h \in [Small(Cardinality(S)) -> Int] : Sums(h, Cardinality(S))
  BY <1>6
<1> HIDE DEF Small
<1>9. AreSums(h, f, S)
  BY <1>7, <1>8 DEF AreSums
<1> QED BY <1>9

TakesOut(h, f, S) == \A T \in SUBSET S : \A x \in T : h[T] = f[x] + h[T \ {x}]

\* An element can be taken out of a sum wherever the fold meets it.
LEMMA SumRemoves ==
  ASSUME NEW S, IsFiniteSet(S), NEW f, \A x \in S : f[x] \in Int, NEW h, AreSums(h, f, S)
  PROVE  TakesOut(h, f, S)
<1> DEFINE G == {T \in SUBSET S : \A x \in T : h[T] = f[x] + h[T \ {x}]}
<1>0. h \in [SUBSET S -> Int] /\ \A s \in SUBSET S : h[s] = IF s = {} THEN 0 ELSE f[OneOf(s)] + h[s \ {OneOf(s)}]
  BY DEF AreSums
<1>1. {} \in G
  OBVIOUS
<1>2. ASSUME NEW T \in SUBSET S, T # {}, \A x \in T : T \ {x} \in G  PROVE T \in G
  <2> SUFFICES ASSUME NEW x \in T  PROVE h[T] = f[x] + h[T \ {x}]
    OBVIOUS
  <2> DEFINE y == OneOf(T)
  <2>1. y \in T /\ h[T] = f[y] + h[T \ {y}]
    <3>1. y \in T
      BY <1>2 DEF OneOf
    <3> QED BY <1>0, <1>2, <3>1
  <2> HIDE DEF y
  <2>2. CASE x = y
    BY <2>1, <2>2
  <2>3. CASE x # y
    <3>1. h[T \ {y}] = f[x] + h[(T \ {y}) \ {x}]
      BY <1>2, <2>1, <2>3
    <3>2. h[T \ {x}] = f[y] + h[(T \ {x}) \ {y}]
      BY <1>2, <2>1, <2>3
    <3>3. (T \ {y}) \ {x} = (T \ {x}) \ {y}
      OBVIOUS
    <3> DEFINE rest == h[(T \ {x}) \ {y}]
    <3>4. f[x] \in Int /\ f[y] \in Int /\ rest \in Int
      BY <1>0, <2>1
    <3>5. h[T \ {y}] = f[x] + rest /\ h[T \ {x}] = f[y] + rest
      BY <3>1, <3>2, <3>3
    <3> HIDE DEF rest
    <3> QED BY <2>1, <3>4, <3>5
  <2> QED BY <2>2, <2>3
<1>3. SUBSET S \subseteq G
  <2> HIDE DEF G
  <2> QED BY <1>1, <1>2, SubsetsInduct
<1> QED BY <1>3 DEF TakesOut

LEMMA SetSumFacts ==
  ASSUME NEW S, IsFiniteSet(S), NEW f, \A x \in S : f[x] \in Int
  PROVE  /\ SetSum(f, {}) = 0
         /\ SetSum(f, S) \in Int
         /\ \A x \in S : SetSum(f, S) = f[x] + SetSum(f, S \ {x})
<1> DEFINE body(g, s) == IF s = {} THEN 0 ELSE f[OneOf(s)] + g[s \ {OneOf(s)}]
<1>1. PICK h : AreSums(h, f, S)
  BY SumFunctionExists
<1>3. h \in [SUBSET S -> Int] /\ \A s \in SUBSET S : h[s] = body(h, s)
  BY <1>1 DEF AreSums
<1>2. ASSUME NEW T \in SUBSET S, NEW x \in T
      PROVE  h[T] = f[x] + h[T \ {x}]
  <2>1. TakesOut(h, f, S)
    BY <1>1, SumRemoves
  <2> QED BY <2>1 DEF TakesOut
<1>4. h[{}] = 0
  BY <1>3
<1>5. ASSUME NEW T \in SUBSET S  PROVE SetSum(f, T) = h[T]
  <2> DEFINE iter == CHOOSE g : g = [s \in SUBSET T |-> body(g, s)]
             k == [s \in SUBSET T |-> h[s]]
  <2>0. IsFiniteSet(T)
    BY FS_Subset
  <2>1. SetSum(f, T) = iter[T]
    BY DEF SetSum
  <2>2. \A s \in SUBSET T : s \in SUBSET S /\ s \ {OneOf(s)} \in SUBSET T
    OBVIOUS
  <2>3. \A s \in SUBSET T : s # {} => OneOf(s) \in s
    BY DEF OneOf
  <2>4. k = [s \in SUBSET T |-> body(k, s)]
    <3>1. ASSUME NEW s \in SUBSET T  PROVE k[s] = body(k, s)
      BY <1>3, <2>2
    <3> HIDE DEF body
    <3> QED BY <3>1
  <2>5. iter = [s \in SUBSET T |-> body(iter, s)]
    <3> HIDE DEF k, body
    <3> QED BY <2>4
  <2>6. \A s \in SUBSET T : iter[s] = body(iter, s)
    <3> HIDE DEF iter, body
    <3> QED BY <2>5
  <2> HIDE DEF iter
  <2> DEFINE G == {s \in SUBSET T : iter[s] = h[s]}
  <2>7. {} \in G
    BY <1>4, <2>6
  <2>8. ASSUME NEW s \in SUBSET T, s # {}, \A x \in s : s \ {x} \in G  PROVE s \in G
    <3>1. iter[s \ {OneOf(s)}] = h[s \ {OneOf(s)}]
      BY <2>3, <2>8
    <3>2. iter[s] = body(iter, s) /\ h[s] = body(h, s)
      BY <1>3, <2>2, <2>6
    <3> QED BY <2>8, <3>1, <3>2
  <2>9. SUBSET T \subseteq G
    <3> HIDE DEF G
    <3> QED BY <2>0, <2>7, <2>8, SubsetsInduct
  <2> QED BY <2>1, <2>9
<1>6. SetSum(f, {}) = 0 /\ SetSum(f, S) \in Int
  BY <1>3, <1>4, <1>5
<1>7. ASSUME NEW x \in S  PROVE SetSum(f, S) = f[x] + SetSum(f, S \ {x})
  <2>1. h[S] = f[x] + h[S \ {x}]
    BY <1>2
  <2>2. SetSum(f, S) = h[S] /\ SetSum(f, S \ {x}) = h[S \ {x}]
    BY <1>5
  <2> QED BY <2>1, <2>2, Zenon
<1> QED BY <1>6, <1>7

LEMMA SetSumNat ==
  ASSUME NEW S, IsFiniteSet(S), NEW f, \A x \in S : f[x] \in Nat
  PROVE  SetSum(f, S) \in Nat
<1> DEFINE G == {T \in SUBSET S : SetSum(f, T) \in Nat}
<1>1. {} \in G
  BY SetSumFacts
<1>2. ASSUME NEW T \in SUBSET S, T # {}, \A x \in T : T \ {x} \in G  PROVE T \in G
  <2>1. PICK x \in T : TRUE
    BY <1>2
  <2>2. IsFiniteSet(T)
    BY FS_Subset
  <2>3. SetSum(f, T) = f[x] + SetSum(f, T \ {x}) /\ SetSum(f, T \ {x}) \in Nat
    BY <1>2, <2>2, SetSumFacts
  <2> QED BY <2>3
<1>3. SUBSET S \subseteq G
  <2> HIDE DEF G
  <2> QED BY <1>1, <1>2, SubsetsInduct
<1> QED BY <1>3

\* A sum with one element more.
LEMMA SetSumAdd ==
  ASSUME NEW S, IsFiniteSet(S), NEW f, NEW x, x \notin S, \A y \in S \union {x} : f[y] \in Int
  PROVE  SetSum(f, S \union {x}) = f[x] + SetSum(f, S)
<1>1. IsFiniteSet(S \union {x})
  BY FS_AddElement
<1>2. SetSum(f, S \union {x}) = f[x] + SetSum(f, (S \union {x}) \ {x})
  BY <1>1, SetSumFacts
<1>3. (S \union {x}) \ {x} = S
  OBVIOUS
<1> QED BY <1>2, <1>3

\* Only the values in the set count.
LEMMA SetSumSame ==
  ASSUME NEW S, IsFiniteSet(S), NEW f, NEW g, \A x \in S : f[x] \in Int /\ g[x] = f[x]
  PROVE  SetSum(g, S) = SetSum(f, S)
<1> DEFINE G == {T \in SUBSET S : SetSum(g, T) = SetSum(f, T)}
<1>1. {} \in G
  <2>1. SetSum(g, {}) = 0 /\ SetSum(f, {}) = 0
    BY SetSumFacts
  <2> QED BY <2>1
<1>2. ASSUME NEW T \in SUBSET S, T # {}, \A x \in T : T \ {x} \in G  PROVE T \in G
  <2>1. PICK x \in T : TRUE
    BY <1>2
  <2>2. IsFiniteSet(T) /\ \A y \in T : f[y] \in Int /\ g[y] \in Int
    BY FS_Subset
  <2>3. SetSum(f, T) = f[x] + SetSum(f, T \ {x}) /\ SetSum(g, T) = g[x] + SetSum(g, T \ {x})
    BY <2>2, SetSumFacts
  <2> QED BY <1>2, <2>3
<1>3. SUBSET S \subseteq G
  <2> HIDE DEF G
  <2> QED BY <1>1, <1>2, SubsetsInduct
<1> QED BY <1>3

\* The sum over two sets without a common element.
LEMMA SetSumSplit ==
  ASSUME NEW S, IsFiniteSet(S), NEW R, IsFiniteSet(R), S \intersect R = {},
         NEW f, \A x \in S \union R : f[x] \in Int
  PROVE  SetSum(f, S \union R) = SetSum(f, S) + SetSum(f, R)
<1> DEFINE G == {T \in SUBSET S : SetSum(f, T \union R) = SetSum(f, T) + SetSum(f, R)}
<1>1. {} \in G
  <2>1. SetSum(f, {}) = 0 /\ SetSum(f, R) \in Int /\ {} \union R = R
    BY SetSumFacts
  <2> QED BY <2>1
<1>2. ASSUME NEW T \in SUBSET S, T # {}, \A x \in T : T \ {x} \in G  PROVE T \in G
  <2>1. PICK x \in T : TRUE
    BY <1>2
  <2>2. IsFiniteSet(T) /\ IsFiniteSet(T \ {x}) /\ IsFiniteSet(T \union R)
    BY FS_Subset, FS_Union
  <2>3. (T \union R) \ {x} = (T \ {x}) \union R /\ x \in T \union R
    OBVIOUS
  <2>4. SetSum(f, T) = f[x] + SetSum(f, T \ {x})
    BY <2>2, SetSumFacts
  <2>5. SetSum(f, T \union R) = f[x] + SetSum(f, (T \ {x}) \union R)
    <3>1. \A y \in T \union R : f[y] \in Int
      OBVIOUS
    <3>2. SetSum(f, T \union R) = f[x] + SetSum(f, (T \union R) \ {x})
      BY <2>2, <2>3, <3>1, SetSumFacts
    <3> QED BY <2>3, <3>2, Zenon
  <2>6. SetSum(f, T \ {x}) \in Int /\ SetSum(f, R) \in Int /\ f[x] \in Int
    BY <2>2, SetSumFacts
  <2>7. SetSum(f, (T \ {x}) \union R) = SetSum(f, T \ {x}) + SetSum(f, R)
    BY <1>2
  <2>8. SetSum(f, T \union R) = SetSum(f, T) + SetSum(f, R)
    BY <2>4, <2>5, <2>6, <2>7
  <2> QED BY <2>8
<1>3. SUBSET S \subseteq G
  <2> HIDE DEF G
  <2> QED BY <1>1, <1>2, SubsetsInduct
<1> QED BY <1>3

\* The elements of S that h maps into M.
Into(h, S, M) == {x \in S : h[x] \in M}
FiberSums(F, f, h, S, M) == \A a \in M : F[a] = SetSum(f, Into(h, S, {a}))

\* The sums over the elements that h maps to each member of M, added up.
LEMMA SumOfFibers ==
  ASSUME NEW M, IsFiniteSet(M), NEW S, IsFiniteSet(S), NEW f, \A x \in S : f[x] \in Int,
         NEW h, NEW F, FiberSums(F, f, h, S, M)
  PROVE  SetSum(F, M) = SetSum(f, Into(h, S, M))
<1> DEFINE of(T) == Into(h, S, T)
           G == {T \in SUBSET M : SetSum(F, T) = SetSum(f, of(T))}
<1>0. \A P : P \subseteq S => IsFiniteSet(P) /\ SetSum(f, P) \in Int
  <2> SUFFICES ASSUME NEW P, P \subseteq S  PROVE IsFiniteSet(P) /\ SetSum(f, P) \in Int
    OBVIOUS
  <2>1. IsFiniteSet(P) /\ \A x \in P : f[x] \in Int
    BY FS_Subset
  <2> QED BY <2>1, SetSumFacts
<1>4. \A a \in M : F[a] \in Int
  BY <1>0 DEF Into, FiberSums
<1>1. {} \in G
  <2>1. of({}) = {}
    BY DEF Into
  <2>2. SetSum(F, {}) = 0 /\ SetSum(f, {}) = 0
    BY <1>4, SetSumFacts
  <2> QED BY <2>1, <2>2
<1>2. ASSUME NEW T \in SUBSET M, T # {}, \A x \in T : T \ {x} \in G  PROVE T \in G
  <2>1. PICK a \in T : TRUE
    BY <1>2
  <2> DEFINE fiber == Into(h, S, {a})
  <2>2. fiber \intersect of(T \ {a}) = {} /\ fiber \union of(T \ {a}) = of(T)
    BY DEF Into
  <2>3. IsFiniteSet(T) /\ IsFiniteSet(fiber) /\ IsFiniteSet(of(T \ {a}))
    BY <1>0, FS_Subset DEF Into
  <2>4. \A x \in fiber \union of(T \ {a}) : f[x] \in Int
    BY DEF Into
  <2>5. SetSum(F, T) = F[a] + SetSum(F, T \ {a}) /\ F[a] = SetSum(f, fiber)
    BY <1>4, <2>3, SetSumFacts DEF FiberSums
  <2>6. SetSum(F, T \ {a}) = SetSum(f, of(T \ {a}))
    BY <1>2
  <2> HIDE DEF fiber, of
  <2>7. SetSum(f, of(T)) = SetSum(f, fiber) + SetSum(f, of(T \ {a}))
    <3>1. SetSum(f, fiber \union of(T \ {a})) = SetSum(f, fiber) + SetSum(f, of(T \ {a}))
      BY <2>2, <2>3, <2>4, SetSumSplit
    <3> QED BY <2>2, <3>1, Zenon
  <2>8. SetSum(F, T) = SetSum(f, of(T))
    BY <2>5, <2>6, <2>7
  <2> QED BY <2>8
<1>3. SUBSET M \subseteq G
  <2> HIDE DEF G
  <2> QED BY <1>1, <1>2, SubsetsInduct
<1> QED BY <1>3

\* Two sums over a set, added up element by element.
LEMMA SetSumPlus ==
  ASSUME NEW S, IsFiniteSet(S), NEW f, NEW g, NEW k,
         \A x \in S : f[x] \in Int /\ g[x] \in Int /\ k[x] = f[x] + g[x]
  PROVE  SetSum(k, S) = SetSum(f, S) + SetSum(g, S)
<1> DEFINE G == {T \in SUBSET S : SetSum(k, T) = SetSum(f, T) + SetSum(g, T)}
<1>1. {} \in G
  <2>1. SetSum(k, {}) = 0 /\ SetSum(f, {}) = 0 /\ SetSum(g, {}) = 0
    BY SetSumFacts
  <2> QED BY <2>1
<1>2. ASSUME NEW T \in SUBSET S, T # {}, \A x \in T : T \ {x} \in G  PROVE T \in G
  <2>1. PICK x \in T : TRUE
    BY <1>2
  <2>2. /\ IsFiniteSet(T) /\ IsFiniteSet(T \ {x})
        /\ \A y \in T : f[y] \in Int /\ g[y] \in Int /\ k[y] \in Int
    BY FS_Subset
  <2>3. /\ SetSum(f, T) = f[x] + SetSum(f, T \ {x}) /\ SetSum(g, T) = g[x] + SetSum(g, T \ {x})
        /\ SetSum(k, T) = k[x] + SetSum(k, T \ {x})
    BY <2>2, SetSumFacts
  <2>4. SetSum(f, T \ {x}) \in Int /\ SetSum(g, T \ {x}) \in Int
    BY <2>2, SetSumFacts
  <2>5. SetSum(k, T \ {x}) = SetSum(f, T \ {x}) + SetSum(g, T \ {x})
    BY <1>2
  <2>6. f[x] \in Int /\ g[x] \in Int /\ k[x] = f[x] + g[x]
    OBVIOUS
  <2>7. SetSum(k, T) = SetSum(f, T) + SetSum(g, T)
    BY <2>3, <2>4, <2>5, <2>6
  <2> QED BY <2>7
<1>3. SUBSET S \subseteq G
  <2> HIDE DEF G
  <2> QED BY <1>1, <1>2, SubsetsInduct
<1> QED BY <1>3

\* A table of numbers, its transpose, and the sums of its rows.
IsTable(f, S, R) == \A a \in S : \A b \in R : f[a][b] \in Int
Transposed(g, f, S, R) == \A b \in R : \A a \in S : g[b][a] = f[a][b]
RowSums(F, f, S, R) == \A a \in S : F[a] = SetSum(f[a], R)

\* The rows of a table added up are its columns added up.
LEMMA SwapSums ==
  ASSUME NEW S, IsFiniteSet(S), NEW R, IsFiniteSet(R),
         NEW f, IsTable(f, S, R), NEW g, Transposed(g, f, S, R),
         NEW F, RowSums(F, f, S, R), NEW K, RowSums(K, g, R, S)
  PROVE  SetSum(F, S) = SetSum(K, R)
<1> DEFINE rows(T) == [a \in S |-> SetSum(f[a], T)]
           column(b) == [a \in S |-> f[a][b]]
           columns == [b \in R |-> SetSum(column(b), S)]
           G == {T \in SUBSET R : SetSum(rows(T), S) = SetSum(columns, T)}
<1>0. \A a \in S : \A b \in R : f[a][b] \in Int
  BY DEF IsTable
<1>1. \A T \in SUBSET R : IsFiniteSet(T) /\ \A a \in S : SetSum(f[a], T) \in Int
  <2> SUFFICES ASSUME NEW T \in SUBSET R
               PROVE  IsFiniteSet(T) /\ \A a \in S : SetSum(f[a], T) \in Int
    OBVIOUS
  <2>1. IsFiniteSet(T)
    BY FS_Subset
  <2>2. \A a \in S : \A b \in T : f[a][b] \in Int
    BY <1>0
  <2> QED BY <2>1, <2>2, SetSumFacts
<1>2. \A b \in R : columns[b] \in Int
  <2> SUFFICES ASSUME NEW b \in R  PROVE SetSum(column(b), S) \in Int
    OBVIOUS
  <2>1. \A a \in S : column(b)[a] \in Int
    BY <1>0
  <2> HIDE DEF column
  <2> QED BY <2>1, SetSumFacts
<1>3. {} \in G
  <2>1. \A a \in S : SetSum(f[a], {}) = 0
    <3> SUFFICES ASSUME NEW a \in S  PROVE SetSum(f[a], {}) = 0
      OBVIOUS
    <3>1. \A b \in {} : f[a][b] \in Int
      OBVIOUS
    <3> QED BY <3>1, FS_EmptySet, SetSumFacts
  <2>2. SetSum(columns, {}) = 0
    <3>1. \A b \in {} : columns[b] \in Int
      OBVIOUS
    <3> HIDE DEF columns
    <3> QED BY <3>1, FS_EmptySet, SetSumFacts
  <2>3. SetSum(rows({}), S) = 0
    <3> DEFINE zero == [a \in S |-> 0]
    <3>1. \A a \in S : zero[a] \in Int /\ rows({})[a] = zero[a] /\ zero[a] = zero[a] + zero[a]
      BY <2>1
    <3> HIDE DEF zero, rows
    <3>2. SetSum(rows({}), S) = SetSum(zero, S) /\ SetSum(zero, S) \in Int
      BY <3>1, SetSumSame, SetSumFacts
    <3>3. SetSum(zero, S) = SetSum(zero, S) + SetSum(zero, S)
      BY <3>1, SetSumPlus
    <3> DEFINE z == SetSum(zero, S)
    <3>4. SetSum(rows({}), S) = z /\ z \in Int /\ z + z = z
      BY <3>2, <3>3
    <3> HIDE DEF z
    <3>5. z = 0
      <4>1. \A w \in Int : w + w = w => w = 0
        OBVIOUS
      <4> QED BY <3>4, <4>1
    <3> QED BY <3>4, <3>5
  <2> QED BY <2>2, <2>3
<1>4. ASSUME NEW T \in SUBSET R, T # {}, \A x \in T : T \ {x} \in G  PROVE T \in G
  <2>1. PICK b \in T : TRUE
    BY <1>4
  <2>2. IsFiniteSet(T) /\ T \ {b} \in SUBSET R
    BY <1>1
  <2>3. \A a \in S : SetSum(f[a], T) = f[a][b] + SetSum(f[a], T \ {b})
    <3> SUFFICES ASSUME NEW a \in S  PROVE SetSum(f[a], T) = f[a][b] + SetSum(f[a], T \ {b})
      OBVIOUS
    <3>1. \A c \in T : f[a][c] \in Int
      BY <1>0
    <3> QED BY <2>2, <3>1, SetSumFacts
  <2>4. \A a \in S : /\ column(b)[a] \in Int /\ rows(T \ {b})[a] \in Int
                     /\ rows(T)[a] = column(b)[a] + rows(T \ {b})[a]
    BY <1>0, <1>1, <2>2, <2>3
  <2>5. SetSum(columns, T) = columns[b] + SetSum(columns, T \ {b}) /\ columns[b] = SetSum(column(b), S)
    <3>1. \A c \in T : columns[c] \in Int
      BY <1>2
    <3>2. columns[b] = SetSum(column(b), S)
      OBVIOUS
    <3> HIDE DEF columns
    <3> QED BY <2>2, <3>1, <3>2, SetSumFacts
  <2>6. SetSum(rows(T \ {b}), S) = SetSum(columns, T \ {b})
    BY <1>4
  <2> HIDE DEF rows, column, columns
  <2>7. SetSum(rows(T), S) = SetSum(column(b), S) + SetSum(rows(T \ {b}), S)
    BY <2>4, SetSumPlus
  <2>8. SetSum(rows(T), S) = SetSum(columns, T)
    BY <2>5, <2>6, <2>7
  <2> QED BY <2>8
<1>5. SUBSET R \subseteq G
  <2> HIDE DEF G
  <2> QED BY <1>3, <1>4, SubsetsInduct
<1>6. SetSum(rows(R), S) = SetSum(columns, R)
  BY <1>5
<1>7. \A a \in S : rows(R)[a] = F[a] /\ F[a] \in Int
  BY <1>1 DEF RowSums
<1>8. \A b \in R : columns[b] = K[b] /\ K[b] \in Int
  <2> SUFFICES ASSUME NEW b \in R  PROVE SetSum(column(b), S) = SetSum(g[b], S)
    BY <1>2 DEF RowSums
  <2>1. \A a \in S : column(b)[a] \in Int /\ g[b][a] = column(b)[a]
    BY <1>0 DEF Transposed
  <2> HIDE DEF column
  <2> QED BY <2>1, SetSumSame
<1> HIDE DEF rows, columns
<1>9. SetSum(rows(R), S) = SetSum(F, S) /\ SetSum(columns, R) = SetSum(K, R)
  BY <1>7, <1>8, SetSumSame
<1> QED BY <1>6, <1>9

LEMMA SetSumOne ==
  ASSUME NEW f, NEW x, f[x] \in Int
  PROVE  SetSum(f, {x}) = f[x]
<1>1. IsFiniteSet({x}) /\ {x} \ {x} = {}
  BY FS_Singleton
<1>2. SetSum(f, {x}) = f[x] + SetSum(f, {x} \ {x}) /\ SetSum(f, {}) = 0
  BY <1>1, SetSumFacts
<1> QED BY <1>1, <1>2

\* y[a][b] is the sum over the rows of group a and the columns of group b, by way
\* of part[b], the sums of the rows over the columns of group b.
Grouped(y, part, x, g, V, groups) ==
  \A b \in groups : /\ RowSums(part[b], x, V, Into(g, V, {b}))
                    /\ \A a \in groups : y[a][b] = SetSum(part[b], Into(g, V, {a}))

\* The entries of a table, summed in the groups g makes of the rows and of the
\* columns: groups of groups give the sums over all of their members.
LEMMA GroupsOfGroups ==
  ASSUME NEW V, IsFiniteSet(V), NEW x, IsTable(x, V, V),
         NEW g, NEW groups, groups \subseteq V,
         NEW part, NEW y, Grouped(y, part, x, g, V, groups),
         NEW C \in SUBSET groups, NEW D \in SUBSET groups,
         NEW rows, RowSums(rows, y, C, D),
         NEW total, RowSums(total, x, V, Into(g, V, D))
  PROVE  SetSum(rows, C) = SetSum(total, Into(g, V, C))
<1>1. IsFiniteSet(C) /\ IsFiniteSet(D) /\ \A P : IsFiniteSet(Into(g, V, P)) /\ Into(g, V, P) \subseteq V
  BY FS_Subset DEF Into
<1>2. \A u \in V : \A P : SetSum(x[u], Into(g, V, P)) \in Int
  <2> SUFFICES ASSUME NEW u \in V, NEW P  PROVE SetSum(x[u], Into(g, V, P)) \in Int
    OBVIOUS
  <2>1. \A v \in Into(g, V, P) : x[u][v] \in Int
    BY <1>1 DEF IsTable
  <2> QED BY <1>1, <2>1, SetSumFacts
<1>3. ASSUME NEW a \in C  PROVE rows[a] = SetSum(total, Into(g, V, {a}))
  <2> DEFINE of == Into(g, V, {a})
             into == [u \in of |-> [b \in D |-> part[b][u]]]
  <2>1. ASSUME NEW u \in of, NEW b \in D
        PROVE  /\ into[u][b] = SetSum(x[u], Into(g, V, {b})) /\ part[b][u] = into[u][b]
               /\ into[u][b] \in Int
    <3>1. u \in V /\ part[b][u] = into[u][b] /\ RowSums(part[b], x, V, Into(g, V, {b}))
      BY <1>1 DEF Grouped
    <3>2. part[b][u] = SetSum(x[u], Into(g, V, {b}))
      BY <3>1 DEF RowSums
    <3> QED BY <1>2, <3>1, <3>2
  <2> HIDE DEF into
  <2>2. IsTable(into, of, D) /\ Transposed(part, into, of, D)
    BY <2>1 DEF IsTable, Transposed
  <2>3. RowSums(total, into, of, D)
    <3> SUFFICES ASSUME NEW u \in of  PROVE total[u] = SetSum(into[u], D)
      BY DEF RowSums
    <3>1. u \in V /\ total[u] = SetSum(x[u], Into(g, V, D))
      BY <1>1 DEF RowSums
    <3>2. \A v \in V : x[u][v] \in Int
      BY <3>1 DEF IsTable
    <3>3. FiberSums(into[u], x[u], g, V, D)
      BY <2>1 DEF FiberSums
    <3>4. SetSum(into[u], D) = SetSum(x[u], Into(g, V, D))
      BY <1>1, <3>2, <3>3, SumOfFibers
    <3> QED BY <3>1, <3>4
  <2>4. RowSums(y[a], part, D, of)
    BY DEF RowSums, Grouped
  <2>5. SetSum(total, of) = SetSum(y[a], D)
    <3>1. IsFiniteSet(of)
      BY <1>1
    <3> HIDE DEF of
    <3> QED BY <1>1, <2>2, <2>3, <2>4, <3>1, SwapSums
  <2> QED BY <2>5 DEF RowSums
<1>4. \A u \in V : total[u] \in Int
  BY <1>2 DEF RowSums
<1>5. FiberSums(rows, total, g, V, C)
  BY <1>3 DEF FiberSums
<1> QED BY <1>1, <1>4, <1>5, SumOfFibers

\* A function that respects an order in which any two elements are comparable
\* takes its values once each, and in that order.
KeepsOrder(rank, key, S) ==
  \A u, v \in S : key[u] < key[v] \/ (key[u] = key[v] /\ u < v) => rank[u] < rank[v]

\* Ids that enumerate a set of ids: each is taken, and they never go against the keys.
Enumerates(rank, key, S) ==
  /\ rank \in [S -> S] /\ \A s \in S : \E v \in S : rank[v] = s
  /\ \A u, v \in S : rank[u] < rank[v] => key[u] <= key[v]

LEMMA RespectsOrder ==
  ASSUME NEW S, S \subseteq Int, IsFiniteSet(S), NEW key \in [S -> Int],
         NEW rank \in [S -> S], KeepsOrder(rank, key, S)
  PROVE  Enumerates(rank, key, S)
<1>1. ASSUME NEW u \in S, NEW v \in S
      PROVE  (rank[u] = rank[v] => u = v) /\ (rank[u] < rank[v] => key[u] <= key[v])
  <2>1. u \in Int /\ v \in Int /\ rank[u] \in Int /\ rank[v] \in Int /\ key[u] \in Int /\ key[v] \in Int
    OBVIOUS
  <2>2. key[u] < key[v] \/ (key[u] = key[v] /\ u < v) => rank[u] < rank[v]
    BY DEF KeepsOrder
  <2>3. key[v] < key[u] \/ (key[v] = key[u] /\ v < u) => rank[v] < rank[u]
    BY DEF KeepsOrder
  <2> QED BY <2>1, <2>2, <2>3
<1>2. {rank[v] : v \in S} = S
  BY <1>1, InjectiveIsOnto
<1>3. \A s \in S : \E v \in S : rank[v] = s
  BY <1>2
<1> QED BY <1>1, <1>3 DEF Enumerates

\* The place that the order <<key, id>> gives an id is the number of those before it.
RankedByKey(rank, before, key, S) ==
  \A v \in S : /\ before[v] = {u \in S : key[u] < key[v] \/ (key[u] = key[v] /\ u < v)}
               /\ rank[v] = Cardinality(before[v])

LEMMA RankingEnumerates ==
  ASSUME NEW n \in Nat, NEW S, S \subseteq Int, IsFiniteSet(S), Cardinality(S) = n,
         \A k \in Nat : k < n => k \in S,
         NEW key \in [S -> Int],
         NEW before, NEW rank \in [S -> Nat], RankedByKey(rank, before, key, S)
  PROVE  Enumerates(rank, key, S)
<1>1. IsFiniteSet(S) /\ Cardinality(S) = n /\ S \subseteq Int
  OBVIOUS
<1>2. \A v \in S : before[v] \subseteq S /\ v \notin before[v] /\ rank[v] = Cardinality(before[v])
  BY DEF RankedByKey
<1>3. \A v \in S : IsFiniteSet(before[v]) /\ rank[v] \in Nat
  BY <1>1, <1>2, FS_Subset, FS_CardinalityType
<1>4. ASSUME NEW u \in S, NEW v \in S, key[u] < key[v] \/ (key[u] = key[v] /\ u < v)
      PROVE  rank[u] < rank[v]
  <2>1. ASSUME NEW w \in before[u]  PROVE w \in before[v]
    <3>1. w \in S /\ (key[w] < key[u] \/ (key[w] = key[u] /\ w < u))
      BY DEF RankedByKey
    <3>2. u \in Int /\ v \in Int /\ w \in Int /\ key[u] \in Int /\ key[v] \in Int /\ key[w] \in Int
      BY <1>1, <3>1
    <3>3. key[w] < key[v] \/ (key[w] = key[v] /\ w < v)
      BY <1>4, <3>1, <3>2
    <3> QED BY <3>1, <3>3 DEF RankedByKey
  <2>2. u \in before[v] /\ u \notin before[u]
    BY <1>4 DEF RankedByKey
  <2>3. Cardinality(before[u]) <= Cardinality(before[v]) /\ Cardinality(before[u]) # Cardinality(before[v])
    BY <1>3, <2>1, <2>2, FS_Subset
  <2> QED BY <1>2, <1>3, <2>3
<1>5. \A v \in S : rank[v] \in S
  <2> SUFFICES ASSUME NEW v \in S  PROVE rank[v] \in S
    OBVIOUS
  <2>1. Cardinality(before[v]) <= n /\ Cardinality(before[v]) # n
    BY <1>1, <1>2, FS_Subset
  <2> QED BY <1>2, <1>3, <2>1
<1>6. rank \in [S -> S]
  BY <1>5
<1>7. KeepsOrder(rank, key, S)
  BY <1>4 DEF KeepsOrder
<1> QED BY <1>1, <1>6, <1>7, RespectsOrder

-----------------------------------------------------------------------------
(* Sorting.  before[v] is the set of those that come before v.             *)

IsOrder(before, S) ==
  /\ \A v \in S : before[v] \in SUBSET S /\ v \notin before[v]
  /\ \A u, v \in S : u # v => u \in before[v] \/ v \in before[u]
  /\ \A u, v \in S : u \in before[v] => before[u] \subseteq before[v]

Places(before, S) == [v \in S |-> Cardinality(before[v])]

\* Every one of n elements has as many before it as its place says.
HasPlaces(size, before, S, n) ==
  /\ size \in [S -> 0 .. (n - 1)]
  /\ \A v \in S : size[v] = Cardinality(before[v])
  /\ \A u, v \in S : /\ u \in before[v] <=> size[u] < size[v]
                     /\ size[u] = size[v] => u = v
  /\ \A k \in 0 .. (n - 1) : \E v \in S : size[v] = k

\* In an order of n elements there is one that has k others before it, for each k below n.
LEMMA OnePerPlace ==
  ASSUME NEW S, IsFiniteSet(S), NEW n \in Nat, Cardinality(S) = n, NEW before, IsOrder(before, S)
  PROVE  HasPlaces(Places(before, S), before, S, n)
<1> DEFINE size == Places(before, S)
<1>1. \A v \in S : before[v] \in SUBSET S /\ v \notin before[v]
  BY DEF IsOrder
<1>2. \A v \in S : IsFiniteSet(before[v]) /\ size[v] = Cardinality(before[v]) /\ size[v] \in 0 .. (n - 1)
  <2> SUFFICES ASSUME NEW v \in S
               PROVE  IsFiniteSet(before[v]) /\ size[v] = Cardinality(before[v]) /\ size[v] \in 0 .. (n - 1)
    OBVIOUS
  <2>1. IsFiniteSet(before[v]) /\ Cardinality(before[v]) <= n /\ Cardinality(before[v]) # n
    BY <1>1, FS_Subset
  <2>2. Cardinality(before[v]) \in Nat
    BY <2>1, FS_CardinalityType
  <2> QED BY <2>1, <2>2 DEF Places
<1>3. size \in [S -> 0 .. (n - 1)]
  BY <1>2 DEF Places
<1>4. ASSUME NEW u \in S, NEW v \in S, u \in before[v]  PROVE size[u] < size[v]
  <2>1. before[u] \subseteq before[v] /\ u \notin before[u]
    BY <1>4 DEF IsOrder
  <2>2. Cardinality(before[u]) <= Cardinality(before[v]) /\ Cardinality(before[u]) # Cardinality(before[v])
    BY <1>2, <1>4, <2>1, FS_Subset
  <2> QED BY <1>2, <2>2
<1>5. \A u, v \in S : u # v => u \in before[v] \/ v \in before[u]
  BY DEF IsOrder
<1> HIDE DEF size
<1>6. \A u, v \in S : (u \in before[v] <=> size[u] < size[v]) /\ (size[u] = size[v] => u = v)
  <2> SUFFICES ASSUME NEW u \in S, NEW v \in S
               PROVE  (u \in before[v] <=> size[u] < size[v]) /\ (size[u] = size[v] => u = v)
    OBVIOUS
  <2>1. size[u] \in Int /\ size[v] \in Int
    BY <1>3
  <2>2. u \in before[v] => size[u] < size[v]
    BY <1>4
  <2>3. v \in before[u] => size[v] < size[u]
    BY <1>4
  <2> QED BY <1>5, <2>1, <2>2, <2>3
<1>7. IsFiniteSet(0 .. (n - 1)) /\ Cardinality(0 .. (n - 1)) = n
  BY FS_Interval
<1>8. size \in Injection(S, 0 .. (n - 1))
  BY <1>3, <1>6, Fun_IsInj
<1>9. size \in Surjection(S, 0 .. (n - 1))
  BY <1>7, <1>8, FS_Injection
<1>10. \A k \in 0 .. (n - 1) : \E v \in S : size[v] = k
  <2>1. PICK T : T = 0 .. (n - 1)
    OBVIOUS
  <2>2. size \in Surjection(S, T)
    BY <1>9, <2>1
  <2>3. \A k \in T : \E v \in S : size[v] = k
    BY <2>2, Fun_SurjectionProperties
  <2> QED BY <2>1, <2>3
<1>11. \A v \in S : size[v] = Cardinality(before[v])
  BY <1>2
<1>12. HasPlaces(size, before, S, n)
  BY <1>3, <1>6, <1>10, <1>11 DEF HasPlaces
<1> QED BY <1>12 DEF size

\* q takes each of 1 .. n once, and no element before one that comes before it.
Sorts(q, before, n) ==
  /\ q \in [1 .. n -> 1 .. n]
  /\ \A k, l \in 1 .. n : q[k] = q[l] => k = l
  /\ \A i \in 1 .. n : \E k \in 1 .. n : q[k] = i
  /\ \A k, l \in 1 .. n : k < l => q[k] \in before[q[l]]

LEMMA PlacesSort ==
  ASSUME NEW n \in Nat, NEW before, IsOrder(before, 1 .. n),
         NEW q, q = [k \in 1 .. n |-> q[k]],
         \A k \in 1 .. n : (\E i \in 1 .. n : Cardinality(before[i]) = k - 1)
                            => q[k] \in 1 .. n /\ Cardinality(before[q[k]]) = k - 1
  PROVE  Sorts(q, before, n)
<1>0. PICK S : S = 1 .. n
  OBVIOUS
<1>9. PICK size : size = Places(before, S)
  OBVIOUS
<1>1. IsFiniteSet(S) /\ Cardinality(S) = n
  BY <1>0, FS_Interval
<1>2. HasPlaces(size, before, S, n)
  <2>1. IsOrder(before, S)
    BY <1>0
  <2> QED BY <1>1, <1>9, <2>1, OnePerPlace
<1>3. \A i \in S : size[i] = Cardinality(before[i]) /\ size[i] \in 0 .. (n - 1)
  BY <1>2 DEF HasPlaces
<1>10. \A u, v \in S : size[u] = size[v] => u = v
  BY <1>2 DEF HasPlaces
<1>11. \A u, v \in S : size[u] < size[v] => u \in before[v]
  BY <1>2 DEF HasPlaces
<1>4. \A k \in S : q[k] \in S /\ size[q[k]] = k - 1
  <2> SUFFICES ASSUME NEW k \in S  PROVE q[k] \in S /\ size[q[k]] = k - 1
    OBVIOUS
  <2>1. k - 1 \in 0 .. (n - 1)
    BY <1>0
  <2>2. \E i \in S : Cardinality(before[i]) = k - 1
    BY <1>2, <1>3, <2>1 DEF HasPlaces
  <2>3. q[k] \in S /\ Cardinality(before[q[k]]) = k - 1
    BY <1>0, <2>2
  <2> QED BY <1>3, <2>2, <2>3
<1>5. q \in [S -> S]
  BY <1>0, <1>4
<1>6. \A k, l \in S : q[k] = q[l] => k = l
  BY <1>0, <1>4
<1>7. ASSUME NEW i \in S  PROVE \E k \in S : q[k] = i
  <2>1. PICK k : k = size[i] + 1
    OBVIOUS
  <2>2. size[i] \in 0 .. (n - 1)
    BY <1>3
  <2>3. k \in S /\ k - 1 = size[i]
    <3>1. size[i] \in Int /\ 0 <= size[i] /\ size[i] <= n - 1
      BY <2>2
    <3>2. k \in 1 .. n /\ k - 1 = size[i]
      BY <2>1, <3>1
    <3> QED BY <1>0, <3>2
  <2>4. q[k] \in S /\ size[q[k]] = size[i]
    BY <1>4, <2>3
  <2> QED BY <1>10, <2>3, <2>4
<1>8. \A k, l \in S : k < l => q[k] \in before[q[l]]
  BY <1>0, <1>11, <1>4
<1> QED BY <1>0, <1>5, <1>6, <1>7, <1>8 DEF Sorts

\* The elements of row, in another order.
Permuted(new, row) ==
  \E q \in [1 .. Len(row) -> 1 .. Len(row)] :
    /\ \A k, l \in 1 .. Len(row) : q[k] = q[l] => k = l
    /\ \A i \in 1 .. Len(row) : \E k \in 1 .. Len(row) : q[k] = i
    /\ new = [k \in 1 .. Len(row) |-> row[q[k]]]

\* The places of elements of P.
PlacesOf(P, row, n) == {k \in 1 .. n : row[k] \in P}

\* Whatever is counted is counted as often in the other order.
LEMMA PermutedCount ==
  ASSUME NEW X, NEW row \in Seq(X), NEW new, Permuted(new, row), NEW P
  PROVE  Cardinality(PlacesOf(P, new, Len(row))) = Cardinality(PlacesOf(P, row, Len(row)))
<1>1. PICK n \in Nat : n = Len(row)
  OBVIOUS
<1>2. PICK q \in [1 .. Len(row) -> 1 .. Len(row)] :
        /\ \A k, l \in 1 .. Len(row) : q[k] = q[l] => k = l
        /\ \A i \in 1 .. Len(row) : \E k \in 1 .. Len(row) : q[k] = i
        /\ new = [k \in 1 .. Len(row) |-> row[q[k]]]
  BY DEF Permuted
<1>3. PICK A : A = {k \in 1 .. n : new[k] \in P}
  OBVIOUS
<1>4. PICK B : B = {i \in 1 .. n : row[i] \in P}
  OBVIOUS
<1>5. IsFiniteSet(A)
  <2>1. IsFiniteSet(1 .. n) /\ A \subseteq 1 .. n
    BY <1>1, <1>3, FS_Interval
  <2> QED BY <2>1, FS_Subset
<1>6. PICK f : f = [k \in A |-> q[k]]
  OBVIOUS
<1>7. f \in [A -> B] /\ \A a, b \in A : f[a] = f[b] => a = b
  BY <1>1, <1>2, <1>3, <1>4, <1>6
<1>8. \A t \in B : \E s \in A : f[s] = t
  <2> SUFFICES ASSUME NEW t \in B  PROVE \E s \in A : f[s] = t
    OBVIOUS
  <2>1. t \in 1 .. n /\ row[t] \in P
    BY <1>4
  <2>2. PICK k \in 1 .. n : q[k] = t
    BY <1>1, <1>2, <2>1
  <2>3. new[k] = row[t]
    BY <1>1, <1>2, <2>2
  <2> QED BY <1>3, <1>6, <2>1, <2>2, <2>3
<1>9. Cardinality(B) = Cardinality(A)
  BY <1>5, <1>7, <1>8, SameSize
<1> QED BY <1>1, <1>3, <1>4, <1>9 DEF PlacesOf

\* The places Listed gives the elements of 1 .. n.
Along(q, row) == [k \in 1 .. Len(row) |-> row[q[k]]]

LEMMA SortsPermute ==
  ASSUME NEW X, NEW row \in Seq(X), NEW before, NEW q, Sorts(q, before, Len(row))
  PROVE  Permuted(Along(q, row), row) /\ Along(q, row) \in Seq(X) /\ Len(Along(q, row)) = Len(row)
<1>0. PICK new : new = Along(q, row) /\ new = [k \in 1 .. Len(row) |-> row[q[k]]]
  BY DEF Along
<1>1. PICK n \in Nat : n = Len(row)
  OBVIOUS
<1>2. q \in [1 .. n -> 1 .. n] /\ row \in [1 .. n -> X]
  BY <1>1 DEF Sorts
<1>3. new \in [1 .. n -> X]
  BY <1>0, <1>1, <1>2
<1>4. new \in Seq(X) /\ Len(new) = n
  BY <1>3
<1>5. Permuted(new, row)
  BY <1>0 DEF Permuted, Sorts
<1> QED BY <1>0, <1>1, <1>4, <1>5

\* std::sort of neighbours leaves them in the order of their ids.
LEMMA SortedFacts ==
  ASSUME NEW row \in Seq(Int \X Int)
  PROVE  /\ Permuted(Sorted(row), row) /\ Sorted(row) \in Seq(Int \X Int)
         /\ Len(Sorted(row)) = Len(row)
         /\ \A k \in 1 .. (Len(row) - 1) : Sorted(row)[k][1] <= Sorted(row)[k + 1][1]
<1>1. PICK n \in Nat : n = Len(row)
  OBVIOUS
<1>0. PICK x, y : x = [i \in 1 .. n |-> row[i][1]] /\ y = [i \in 1 .. n |-> row[i][2]]
  OBVIOUS
<1>2. \A i \in 1 .. n :
        x[i] \in Int /\ y[i] \in Int /\ row[i] = <<x[i], y[i]>> /\ row[i][1] = x[i] /\ row[i][2] = y[i]
  BY <1>0, <1>1
<1>3. PICK before :
        before = [i \in 1 .. n |->
                    {j \in 1 .. n : Less(row[j], row[i]) \/ (row[j] = row[i] /\ j < i)}]
  OBVIOUS
<1>4. \A i, j \in 1 .. n :
        j \in before[i] <=> (x[j] < x[i] \/ (x[j] = x[i] /\ y[j] < y[i])
                               \/ (x[j] = x[i] /\ y[j] = y[i] /\ j < i))
  <2> SUFFICES ASSUME NEW i \in 1 .. n, NEW j \in 1 .. n
               PROVE  j \in before[i] <=> (x[j] < x[i] \/ (x[j] = x[i] /\ y[j] < y[i])
                                             \/ (x[j] = x[i] /\ y[j] = y[i] /\ j < i))
    OBVIOUS
  <2>1. Less(row[j], row[i]) <=> x[j] < x[i] \/ (x[j] = x[i] /\ y[j] < y[i])
    BY <1>2 DEF Less
  <2>2. row[j] = row[i] <=> x[j] = x[i] /\ y[j] = y[i]
    BY <1>2
  <2>3. j \in before[i] <=> Less(row[j], row[i]) \/ (row[j] = row[i] /\ j < i)
    BY <1>3
  <2> QED BY <2>1, <2>2, <2>3
<1>5. IsOrder(before, 1 .. n)
  <2>1. \A v \in 1 .. n : before[v] \in SUBSET (1 .. n)
    BY <1>3
  <2>2. ASSUME NEW v \in 1 .. n, v \in before[v]  PROVE FALSE
    <3>1. x[v] \in Int /\ y[v] \in Int
      BY <1>2
    <3>2. x[v] < x[v] \/ y[v] < y[v] \/ v < v
      BY <1>4, <2>2
    <3> QED BY <3>1, <3>2
  <2>3. ASSUME NEW u \in 1 .. n, NEW v \in 1 .. n, u # v
        PROVE  u \in before[v] \/ v \in before[u]
    <3>1. x[u] \in Int /\ x[v] \in Int /\ y[u] \in Int /\ y[v] \in Int
      BY <1>2
    <3> QED BY <1>4, <2>3, <3>1
  <2>4. ASSUME NEW u \in 1 .. n, NEW v \in 1 .. n, NEW w \in 1 .. n,
               u \in before[v], w \in before[u]
        PROVE  w \in before[v]
    <3>1. x[u] \in Int /\ x[v] \in Int /\ x[w] \in Int /\ y[u] \in Int /\ y[v] \in Int /\ y[w] \in Int
      BY <1>2
    <3>2. \/ x[u] < x[v]
          \/ x[u] = x[v] /\ y[u] < y[v]
          \/ x[u] = x[v] /\ y[u] = y[v] /\ u < v
      BY <1>4, <2>4
    <3>3. \/ x[w] < x[u]
          \/ x[w] = x[u] /\ y[w] < y[u]
          \/ x[w] = x[u] /\ y[w] = y[u] /\ w < u
      BY <1>4, <2>4
    <3>4. \/ x[w] < x[v]
          \/ x[w] = x[v] /\ y[w] < y[v]
          \/ x[w] = x[v] /\ y[w] = y[v] /\ w < v
      BY <3>1, <3>2, <3>3
    <3> QED BY <1>4, <3>4
  <2> QED BY <2>1, <2>2, <2>3, <2>4 DEF IsOrder
<1>6. PICK q : q = Listed(1 .. n, LAMBDA i, j : Less(row[i], row[j]) \/ (row[i] = row[j] /\ i < j))
  OBVIOUS
<1>7. Sorts(q, before, n)
  <2>1. q = [k \in 1 .. n |-> CHOOSE i \in 1 .. n :
                Cardinality({j \in 1 .. n : Less(row[j], row[i]) \/ (row[j] = row[i] /\ j < i)}) = k - 1]
    BY <1>6, FS_Interval DEF Listed
  <2>2. \A i \in 1 .. n : {j \in 1 .. n : Less(row[j], row[i]) \/ (row[j] = row[i] /\ j < i)} = before[i]
    BY <1>3
  <2>3. ASSUME NEW k \in 1 .. n, \E i \in 1 .. n : Cardinality(before[i]) = k - 1
        PROVE  q[k] \in 1 .. n /\ Cardinality(before[q[k]]) = k - 1
    <3>1. \E i \in 1 .. n :
            Cardinality({j \in 1 .. n : Less(row[j], row[i]) \/ (row[j] = row[i] /\ j < i)}) = k - 1
      BY <2>2, <2>3
    <3>2. q[k] \in 1 .. n /\
            Cardinality({j \in 1 .. n : Less(row[j], row[q[k]]) \/ (row[j] = row[q[k]] /\ j < q[k])}) = k - 1
      BY <2>1, <3>1
    <3> QED BY <2>2, <3>2
  <2>4. q = [k \in 1 .. n |-> q[k]]
    <3> DEFINE place(k) == CHOOSE i \in 1 .. n :
                  Cardinality({j \in 1 .. n : Less(row[j], row[i]) \/ (row[j] = row[i] /\ j < i)}) = k - 1
    <3>1. q = [k \in 1 .. n |-> place(k)]
      BY <2>1
    <3> HIDE DEF place
    <3> QED BY <3>1
  <2> QED BY <1>5, <2>3, <2>4, PlacesSort
<1>8. Sorted(row) = [k \in 1 .. Len(row) |-> row[q[k]]]
  BY <1>1, <1>6 DEF Sorted, Arranged
<1>9. ASSUME NEW k \in 1 .. (n - 1)  PROVE row[q[k]][1] <= row[q[k + 1]][1]
  <2>1. k \in 1 .. n /\ k + 1 \in 1 .. n /\ k < k + 1
    OBVIOUS
  <2>2. q[k] \in before[q[k + 1]] /\ q[k] \in 1 .. n /\ q[k + 1] \in 1 .. n
    BY <1>7, <2>1 DEF Sorts
  <2>3. x[q[k]] <= x[q[k + 1]]
    <3>1. x[q[k]] < x[q[k + 1]] \/ x[q[k]] = x[q[k + 1]]
      BY <1>4, <2>2
    <3>2. x[q[k]] \in Int /\ x[q[k + 1]] \in Int
      BY <1>2, <2>2
    <3> QED BY <3>1, <3>2
  <2> QED BY <1>2, <2>2, <2>3
<1>10. \A k \in 1 .. (Len(row) - 1) : Sorted(row)[k][1] <= Sorted(row)[k + 1][1]
  <2> SUFFICES ASSUME NEW k \in 1 .. (n - 1)  PROVE Sorted(row)[k][1] <= Sorted(row)[k + 1][1]
    BY <1>1
  <2>1. k \in 1 .. Len(row) /\ k + 1 \in 1 .. Len(row)
    BY <1>1
  <2>2. Sorted(row)[k] = row[q[k]] /\ Sorted(row)[k + 1] = row[q[k + 1]]
    BY <1>8, <2>1
  <2> QED BY <1>9, <2>2
<1>11. Permuted(Sorted(row), row) /\ Sorted(row) \in Seq(Int \X Int) /\ Len(Sorted(row)) = Len(row)
  <2>1. Sorts(q, before, Len(row))
    BY <1>1, <1>7
  <2>2. PICK X : X = Int \X Int
    OBVIOUS
  <2>3. row \in Seq(X)
    BY <2>2
  <2>4. Permuted(Along(q, row), row) /\ Along(q, row) \in Seq(X) /\ Len(Along(q, row)) = Len(row)
    BY <2>1, <2>3, SortsPermute
  <2>5. Sorted(row) = Along(q, row)
    BY <1>8 DEF Along
  <2> QED BY <2>2, <2>4, <2>5
<1> QED BY <1>10, <1>11

\* Numbers are sorted by their size.
LEMMA SortedIdsFacts ==
  ASSUME NEW row \in Seq(Int)
  PROVE  /\ Permuted(SortedIds(row), row) /\ SortedIds(row) \in Seq(Int)
         /\ Len(SortedIds(row)) = Len(row)
         /\ \A k \in 1 .. (Len(row) - 1) : SortedIds(row)[k] <= SortedIds(row)[k + 1]
<1>1. PICK n \in Nat : n = Len(row)
  OBVIOUS
<1>2. \A i \in 1 .. n : row[i] \in Int
  BY <1>1
<1>3. PICK before :
        before = [i \in 1 .. n |-> {j \in 1 .. n : row[j] < row[i] \/ (row[j] = row[i] /\ j < i)}]
  OBVIOUS
<1>4. \A i, j \in 1 .. n : j \in before[i] <=> row[j] < row[i] \/ (row[j] = row[i] /\ j < i)
  BY <1>3
<1>5. IsOrder(before, 1 .. n)
  <2>1. \A v \in 1 .. n : before[v] \in SUBSET (1 .. n)
    BY <1>3
  <2>2. \A v \in 1 .. n : v \notin before[v]
    BY <1>2, <1>4
  <2>3. \A u, v \in 1 .. n : u # v => u \in before[v] \/ v \in before[u]
    BY <1>2, <1>4
  <2>4. \A u, v, w \in 1 .. n : u \in before[v] /\ w \in before[u] => w \in before[v]
    BY <1>2, <1>4
  <2> QED BY <2>1, <2>2, <2>3, <2>4 DEF IsOrder
<1>6. PICK q : q = Listed(1 .. n, LAMBDA i, j : row[i] < row[j] \/ (row[i] = row[j] /\ i < j))
  OBVIOUS
<1>7. Sorts(q, before, n)
  <2>1. q = [k \in 1 .. n |-> CHOOSE i \in 1 .. n :
                Cardinality({j \in 1 .. n : row[j] < row[i] \/ (row[j] = row[i] /\ j < i)}) = k - 1]
    BY <1>6, FS_Interval DEF Listed
  <2>2. \A i \in 1 .. n : {j \in 1 .. n : row[j] < row[i] \/ (row[j] = row[i] /\ j < i)} = before[i]
    BY <1>3
  <2>3. ASSUME NEW k \in 1 .. n, \E i \in 1 .. n : Cardinality(before[i]) = k - 1
        PROVE  q[k] \in 1 .. n /\ Cardinality(before[q[k]]) = k - 1
    <3>1. \E i \in 1 .. n :
            Cardinality({j \in 1 .. n : row[j] < row[i] \/ (row[j] = row[i] /\ j < i)}) = k - 1
      BY <2>2, <2>3
    <3>2. q[k] \in 1 .. n /\
            Cardinality({j \in 1 .. n : row[j] < row[q[k]] \/ (row[j] = row[q[k]] /\ j < q[k])}) = k - 1
      BY <2>1, <3>1
    <3> QED BY <2>2, <3>2
  <2>4. q = [k \in 1 .. n |-> q[k]]
    <3> DEFINE place(k) == CHOOSE i \in 1 .. n :
                  Cardinality({j \in 1 .. n : row[j] < row[i] \/ (row[j] = row[i] /\ j < i)}) = k - 1
    <3>1. q = [k \in 1 .. n |-> place(k)]
      BY <2>1
    <3> HIDE DEF place
    <3> QED BY <3>1
  <2> QED BY <1>5, <2>3, <2>4, PlacesSort
<1>8. SortedIds(row) = [k \in 1 .. Len(row) |-> row[q[k]]]
  BY <1>1, <1>6 DEF SortedIds, Arranged
<1>9. ASSUME NEW k \in 1 .. (n - 1)  PROVE row[q[k]] <= row[q[k + 1]]
  <2>1. k \in 1 .. n /\ k + 1 \in 1 .. n /\ k < k + 1
    OBVIOUS
  <2>2. q[k] \in before[q[k + 1]] /\ q[k] \in 1 .. n /\ q[k + 1] \in 1 .. n
    BY <1>7, <2>1 DEF Sorts
  <2> QED BY <1>2, <1>4, <2>2
<1>10. \A k \in 1 .. (Len(row) - 1) : SortedIds(row)[k] <= SortedIds(row)[k + 1]
  <2> SUFFICES ASSUME NEW k \in 1 .. (n - 1)
               PROVE  SortedIds(row)[k] <= SortedIds(row)[k + 1]
    BY <1>1
  <2>1. k \in 1 .. Len(row) /\ k + 1 \in 1 .. Len(row)
    BY <1>1
  <2>2. SortedIds(row)[k] = row[q[k]] /\ SortedIds(row)[k + 1] = row[q[k + 1]]
    BY <1>8, <2>1
  <2> QED BY <1>9, <2>2
<1>11. Permuted(SortedIds(row), row) /\ SortedIds(row) \in Seq(Int) /\ Len(SortedIds(row)) = Len(row)
  <2>1. Sorts(q, before, Len(row))
    BY <1>1, <1>7
  <2>2. Permuted(Along(q, row), row) /\ Along(q, row) \in Seq(Int) /\ Len(Along(q, row)) = Len(row)
    BY <2>1, SortsPermute
  <2>3. SortedIds(row) = Along(q, row)
    BY <1>8 DEF Along
  <2> QED BY <2>2, <2>3
<1> QED BY <1>10, <1>11

-----------------------------------------------------------------------------
(* A list under new names.                                                 *)

\* How often the vertex w is in a list of neighbours.
Often(list, w) == Cardinality({i \in 1 .. Len(list) : list[i][1] = w})

InIdOrder(list) == \A i \in 1 .. (Len(list) - 1) : list[i][1] <= list[i + 1][1]

LEMMA PermutedIn ==
  ASSUME NEW X, NEW row \in Seq(X), NEW new, Permuted(new, row)
  PROVE  new \in Seq(X) /\ Len(new) = Len(row)
<1>1. PICK q \in [1 .. Len(row) -> 1 .. Len(row)] : new = [k \in 1 .. Len(row) |-> row[q[k]]]
  BY DEF Permuted
<1>2. PICK n \in Nat : n = Len(row)
  OBVIOUS
<1>3. row \in [1 .. n -> X]
  BY <1>2
<1>4. new \in [1 .. n -> X]
  BY <1>1, <1>2, <1>3
<1> QED BY <1>2, <1>4

\* The neighbours of a list under the names ids, as plain ids have them.
UnderNames(ids, list) == [i \in 1 .. Len(list) |-> <<ids[list[i][1]], 1>>]

\* new is the list under the names ids, in their order.
IsRenamed(new, list, V, ids) ==
  /\ new \in Seq(V \X Int) /\ Len(new) = Len(list) /\ InIdOrder(new)
  /\ \A w \in V : Often(new, ids[w]) = Often(list, w)

LEMMA RenamedList ==
  ASSUME NEW V, V \subseteq Int, NEW ids \in [V -> V], \A u, v \in V : ids[u] = ids[v] => u = v,
         NEW list \in Seq(V \X Int),
         NEW new, new = Sorted(UnderNames(ids, list))
  PROVE  IsRenamed(new, list, V, ids)
<1>1. PICK n \in Nat : n = Len(list)
  OBVIOUS
<1>2. \A i \in 1 .. n : list[i][1] \in V
  BY <1>1
<1>3. PICK row : row = [i \in 1 .. n |-> <<ids[list[i][1]], 1>>]
  OBVIOUS
<1>4. row \in [1 .. n -> V \X Int] /\ row \in Seq(V \X Int) /\ row \in Seq(Int \X Int) /\ Len(row) = n
  <2>1. ASSUME NEW i \in 1 .. n
        PROVE  <<ids[list[i][1]], 1>> \in V \X Int /\ <<ids[list[i][1]], 1>> \in Int \X Int
    <3>1. ids[list[i][1]] \in V
      BY <1>2
    <3>2. PICK x \in V : x = ids[list[i][1]]
      BY <3>1
    <3>3. <<x, 1>> \in V \X Int /\ <<x, 1>> \in Int \X Int
      OBVIOUS
    <3> QED BY <3>2, <3>3
  <2>2. row \in [1 .. n -> V \X Int]
    BY <1>3, <2>1
  <2>3. row \in [1 .. n -> Int \X Int]
    BY <1>3, <2>1
  <2> QED BY <2>2, <2>3
<1>5. new = Sorted(row)
  BY <1>1, <1>3 DEF UnderNames
<1>6. Permuted(new, row) /\ Len(new) = n /\ InIdOrder(new)
  BY <1>4, <1>5, SortedFacts DEF InIdOrder
<1>7. new \in Seq(V \X Int)
  BY <1>4, <1>6, PermutedIn
<1>8. ASSUME NEW w \in V  PROVE Often(new, ids[w]) = Often(list, w)
  <2>1. PICK P : P = {ids[w]} \X Int
    OBVIOUS
  <2>2. PICK X : X = V \X Int
    OBVIOUS
  <2>6. row \in Seq(X)
    BY <1>4, <2>2
  <2>3. Cardinality(PlacesOf(P, new, n)) = Cardinality(PlacesOf(P, row, n))
    BY <1>4, <1>6, <2>6, PermutedCount
  <2>4. {k \in 1 .. n : new[k] \in P} = {k \in 1 .. n : new[k][1] = ids[w]}
    <3>1. \A k \in 1 .. n : new[k] \in V \X Int
      BY <1>6, <1>7
    <3>2. \A k \in 1 .. n : new[k] \in P <=> new[k][1] = ids[w]
      BY <2>1, <3>1
    <3> QED BY <3>2
  <2>5. {i \in 1 .. n : row[i] \in P} = {i \in 1 .. n : list[i][1] = w}
    <3>1. ASSUME NEW i \in 1 .. n  PROVE row[i] \in P <=> list[i][1] = w
      <4>1. PICK x \in V : x = list[i][1] /\ row[i] = <<ids[x], 1>>
        BY <1>2, <1>3
      <4>2. <<ids[x], 1>> \in P <=> ids[x] = ids[w]
        BY <2>1
      <4> QED BY <4>1, <4>2
    <3> QED BY <3>1
  <2> QED BY <1>1, <1>6, <2>3, <2>4, <2>5 DEF Often, PlacesOf
<1> QED BY <1>1, <1>6, <1>7, <1>8 DEF IsRenamed

IdsUnder(ids, list) == [i \in 1 .. Len(list) |-> ids[list[i]]]

IsRenamedIds(new, list, V, ids) ==
  /\ new \in Seq(V) /\ Len(new) = Len(list)
  /\ \A i \in 1 .. (Len(list) - 1) : new[i] <= new[i + 1]
  /\ \A w \in V : Count(new, ids[w]) = Count(list, w)

LEMMA RenamedIds ==
  ASSUME NEW V, V \subseteq Int, NEW ids \in [V -> V], \A u, v \in V : ids[u] = ids[v] => u = v,
         NEW list \in Seq(V), NEW new, new = SortedIds(IdsUnder(ids, list))
  PROVE  IsRenamedIds(new, list, V, ids)
<1>1. PICK n \in Nat : n = Len(list)
  OBVIOUS
<1>2. \A i \in 1 .. n : list[i] \in V
  BY <1>1
<1>3. PICK row : row = [i \in 1 .. n |-> ids[list[i]]]
  OBVIOUS
<1>4. row \in Seq(V) /\ row \in Seq(Int) /\ Len(row) = n
  <2>1. row \in [1 .. n -> V] /\ row \in [1 .. n -> Int]
    BY <1>2, <1>3
  <2> QED BY <2>1
<1>5. new = SortedIds(row)
  BY <1>1, <1>3 DEF IdsUnder
<1>6. Permuted(new, row) /\ Len(new) = n /\ \A i \in 1 .. (n - 1) : new[i] <= new[i + 1]
  BY <1>4, <1>5, SortedIdsFacts
<1>7. new \in Seq(V)
  BY <1>4, <1>6, PermutedIn
<1>8. ASSUME NEW w \in V  PROVE Count(new, ids[w]) = Count(list, w)
  <2>1. PICK P : P = {ids[w]}
    OBVIOUS
  <2>2. Cardinality(PlacesOf(P, new, n)) = Cardinality(PlacesOf(P, row, n))
    BY <1>4, <1>6, PermutedCount
  <2>3. {k \in 1 .. n : new[k] \in P} = {k \in 1 .. n : new[k] = ids[w]}
    BY <2>1
  <2>4. {i \in 1 .. n : row[i] \in P} = {i \in 1 .. n : list[i] = w}
    BY <1>2, <1>3, <2>1
  <2> QED BY <1>1, <1>6, <2>2, <2>3, <2>4 DEF Count, PlacesOf
<1> QED BY <1>1, <1>6, <1>7, <1>8 DEF IsRenamedIds

-----------------------------------------------------------------------------
(* Ids given one after the other.                                          *)

\* The vertices of S have the ids 0 .. k - 1, each one.
Numbers(S, ids, k) ==
  /\ \A n \in S : ids[n] \in 0 .. (k - 1)
  /\ \A u, v \in S : ids[u] = ids[v] => u = v
  /\ \A i \in 0 .. (k - 1) : \E n \in S : ids[n] = i

LEMMA NumbersSize ==
  ASSUME NEW S, IsFiniteSet(S), NEW ids, NEW k \in Nat, Numbers(S, ids, k)
  PROVE  Cardinality(S) = k
<1>1. PICK f : f = [n \in S |-> ids[n]]
  OBVIOUS
<1>2. f \in [S -> 0 .. (k - 1)] /\ (\A a, b \in S : f[a] = f[b] => a = b)
        /\ \A t \in 0 .. (k - 1) : \E s \in S : f[s] = t
  BY <1>1 DEF Numbers
<1>3. Cardinality(0 .. (k - 1)) = k
  BY FS_Interval
<1> QED BY <1>2, <1>3, SameSize

LEMMA NumbersGrow ==
  ASSUME NEW S, NEW ids, NEW k \in Nat, Numbers(S, ids, k), NEW v, v \notin S,
         NEW new, new[v] = k, \A n \in S : new[n] = ids[n]
  PROVE  Numbers(S \union {v}, new, k + 1)
<1>1. \A n \in S \union {v} : new[n] \in 0 .. (k + 1 - 1)
  BY DEF Numbers
<1>2. \A x, y \in S \union {v} : new[x] = new[y] => x = y
  <2>1. \A n \in S : new[n] # k
    BY DEF Numbers
  <2> QED BY <2>1 DEF Numbers
<1>3. ASSUME NEW i \in 0 .. (k + 1 - 1)  PROVE \E n \in S \union {v} : new[n] = i
  <2>1. CASE i = k
    BY <2>1
  <2>2. CASE i # k
    <3>1. i \in 0 .. (k - 1)
      BY <2>2
    <3> QED BY <3>1 DEF Numbers
  <2> QED BY <2>1, <2>2
<1> QED BY <1>1, <1>2, <1>3 DEF Numbers

\* Division leaves one remainder.
LEMMA Remainder ==
  ASSUME NEW m \in Nat \ {0}, NEW q \in Int, NEW r \in 0 .. (m - 1)
  PROVE  (m * q + r) % m = r
<1>1. PICK a \in Int : a = m * q + r
  OBVIOUS
<1>2. PICK d \in Int : d = a \div m
  OBVIOUS
<1>3. PICK s \in 0 .. (m - 1) : s = a % m /\ a = m * d + s
  BY <1>2
<1>4. m * (q - d) = s - r
  <2>1. m * (q - d) = m * q - m * d
    OBVIOUS
  <2> QED BY <1>1, <1>3, <2>1
<1>5. ASSUME q - d >= 1  PROVE FALSE
  <2>1. PICK x \in Int : x = q - d /\ x >= 1
    BY <1>5
  <2>2. m * x >= m
    BY <2>1
  <2> QED BY <1>4, <2>1, <2>2
<1>6. ASSUME q - d <= -1  PROVE FALSE
  <2>1. PICK x \in Int : x = q - d /\ x <= -1
    BY <1>6
  <2>2. m * x <= - m
    BY <2>1
  <2> QED BY <1>4, <2>1, <2>2
<1>7. q - d = 0
  BY <1>5, <1>6
<1> QED BY <1>1, <1>3, <1>4, <1>7

-----------------------------------------------------------------------------
(* Rows laid out by offsets that start at 0 and grow.                      *)

Growing(offsets, n) ==
  /\ offsets \in [0 .. n -> Nat] /\ offsets[0] = 0
  /\ \A i, j \in 0 .. n : i <= j => offsets[i] <= offsets[j]

LEMMA CellOfRow ==
  ASSUME NEW first \in Nat, NEW end \in Nat, NEW i \in 1 .. (end - first)
  PROVE  /\ first + i - 1 \in Int /\ first <= first + i - 1 /\ first + i - 1 < end
         /\ (first + i - 1) - first + 1 = i
  OBVIOUS

LEMMA CellsApart ==
  ASSUME NEW p \in Nat, NEW q \in Nat, NEW top \in Nat, p <= q, q <= top, NEW c \in Int
  PROVE  /\ p <= c /\ c < q => c \in 0 .. (top - 1) /\ c \in p .. (q - 1)
         /\ \A s, t \in Nat : s <= c /\ c < t /\ t <= top /\ (t <= p \/ q <= s)
                             => c \in 0 .. (top - 1) /\ c \notin p .. (q - 1)
  OBVIOUS

\* The rows of b are those of a, but for one.
DiffersInRow(b, a, id, row, n) ==
  /\ b.offsets = a.offsets /\ DOMAIN b.neighs = 0 .. (a.offsets[n] - 1)
  /\ Row(b, id) = row
  /\ \A k \in 0 .. (n - 1) : k # id => Row(b, k) = Row(a, k)

\* A row written to its own cells is there, and no other row is touched.
LEMMA RowWritten ==
  ASSUME NEW n \in Nat, NEW a, Growing(a.offsets, n), DOMAIN a.neighs = 0 .. (a.offsets[n] - 1),
         NEW id \in 0 .. (n - 1), NEW X, NEW row \in Seq(X),
         Len(row) = a.offsets[id + 1] - a.offsets[id],
         NEW b, b.offsets = a.offsets, b.neighs = Written(a.neighs, a.offsets[id], row)
  PROVE  DiffersInRow(b, a, id, row, n)
<1>0. PICK offsets, neighs, new : /\ offsets = a.offsets /\ offsets = b.offsets
                                  /\ neighs = a.neighs /\ new = b.neighs
  OBVIOUS
<1>8. /\ Growing(offsets, n) /\ DOMAIN neighs = 0 .. (offsets[n] - 1)
      /\ Len(row) = offsets[id + 1] - offsets[id]
      /\ new = Written(neighs, offsets[id], row)
  BY <1>0
<1>1. /\ offsets \in [0 .. n -> Nat]
      /\ \A i, j \in 0 .. n : i <= j => offsets[i] <= offsets[j]
  BY <1>8 DEF Growing
<1>2. PICK p \in Nat, q \in Nat, top \in Nat :
        /\ p = offsets[id] /\ q = offsets[id + 1] /\ top = offsets[n]
        /\ p <= q /\ q <= top
  <2>1. id \in 0 .. n /\ id + 1 \in 0 .. n /\ n \in 0 .. n /\ id <= id + 1 /\ id + 1 <= n
    OBVIOUS
  <2> QED BY <1>1, <2>1
<1>7. p <= q /\ q <= top
  BY <1>2
<1>3. DOMAIN new = DOMAIN neighs
  BY <1>8 DEF Written
<1>4. \A c \in 0 .. (top - 1) :
        new[c] = IF c \in p .. (q - 1) THEN row[c - p + 1] ELSE neighs[c]
  <2>3. Len(row) = q - p
    BY <1>2, <1>8
  <2>1. p + Len(row) - 1 = q - 1
    BY <2>3
  <2>2. new = [i \in 0 .. (top - 1) |-> IF i \in p .. (q - 1) THEN row[i - p + 1] ELSE neighs[i]]
    BY <1>2, <1>8, <2>1 DEF Written
  <2> QED BY <2>2
<1>5. Row(b, id) = row
  <2>1. Row(b, id) = [i \in 1 .. (q - p) |-> new[p + i - 1]]
    BY <1>0, <1>2 DEF Row
  <2>2. ASSUME NEW i \in 1 .. (q - p)  PROVE new[p + i - 1] = row[i]
    <3>1. PICK c \in Int : c = p + i - 1 /\ p <= c /\ c < q /\ c - p + 1 = i
      BY CellOfRow
    <3>2. c \in 0 .. (top - 1) /\ c \in p .. (q - 1)
      BY <1>7, <3>1, CellsApart
    <3> QED BY <1>4, <3>1, <3>2
  <2>3. row = [i \in 1 .. (q - p) |-> row[i]]
    BY <1>2, <1>8
  <2> QED BY <2>1, <2>2, <2>3
<1>6. ASSUME NEW k \in 0 .. (n - 1), k # id  PROVE Row(b, k) = Row(a, k)
  <2>1. PICK s \in Nat, t \in Nat :
          s = offsets[k] /\ t = offsets[k + 1] /\ s <= t /\ t <= top /\ (t <= p \/ q <= s)
    <3>1. k \in 0 .. n /\ k + 1 \in 0 .. n /\ id \in 0 .. n /\ id + 1 \in 0 .. n /\ n \in 0 .. n
      OBVIOUS
    <3>2. k + 1 <= id \/ id + 1 <= k
      BY <1>6
    <3>3. k <= k + 1 /\ k + 1 <= n
      OBVIOUS
    <3>4. offsets[k + 1] <= p \/ q <= offsets[k]
      BY <1>1, <1>2, <3>1, <3>2
    <3>5. offsets[k] <= offsets[k + 1] /\ offsets[k + 1] <= top
      BY <1>1, <1>2, <3>1, <3>3
    <3>6. offsets[k] \in Nat /\ offsets[k + 1] \in Nat
      BY <1>1, <3>1
    <3> QED BY <3>4, <3>5, <3>6
  <2>5. s <= t /\ t <= top /\ (t <= p \/ q <= s)
    BY <2>1
  <2>2. Row(b, k) = [i \in 1 .. (t - s) |-> new[s + i - 1]]
    BY <1>0, <2>1 DEF Row
  <2>3. Row(a, k) = [i \in 1 .. (t - s) |-> neighs[s + i - 1]]
    BY <1>0, <2>1 DEF Row
  <2>4. ASSUME NEW i \in 1 .. (t - s)  PROVE new[s + i - 1] = neighs[s + i - 1]
    <3>1. PICK c \in Int : c = s + i - 1 /\ s <= c /\ c < t
      BY CellOfRow
    <3>3. c \in 0 .. (top - 1) /\ c \notin p .. (q - 1)
      BY <1>7, <2>5, <3>1, CellsApart
    <3> QED BY <1>4, <3>1, <3>3
  <2> QED BY <2>2, <2>3, <2>4
<1> QED BY <1>0, <1>3, <1>5, <1>6, <1>8 DEF DiffersInRow
=============================================================================
