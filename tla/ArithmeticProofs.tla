-------------------------- MODULE ArithmeticProofs --------------------------
(***************************************************************************)
(* What the proofs about the models need of numbers: powers, sums over     *)
(* finite sets, and remainders.                                            *)
(***************************************************************************)
EXTENDS Arithmetic, FiniteSetTheorems, TLAPS

(* A set of natural numbers has a least element, which is what inductions  *)
(* below are made of.                                                      *)
LEMMA NatMin ==
  ASSUME NEW T, T \subseteq Nat, T # {}
  PROVE  \E m \in T : \A n \in T : m <= n
<1>1. PICK m \in T : \A n \in T : ~ (<<n, m>> \in OpToRel(<, Nat))
  BY NatLessThanWellFounded, WFMin
<1>2. \A n \in T : ~(n < m)
  BY <1>1 DEF OpToRel
<1> QED
  BY <1>2

-----------------------------------------------------------------------------
(* Powers.                                                                 *)

(* g gives the powers of b up to the n-th.                                 *)
PowersTo(g, b, n) == g = [k \in 0..n |-> IF k = 0 THEN 1 ELSE b * g[k - 1]]

Powers(g, b) == g = [k \in Nat |-> IF k = 0 THEN 1 ELSE b * g[k - 1]]

LEMMA PowersAgree ==
  ASSUME NEW b, NEW n \in Nat, NEW m \in Nat, NEW g, NEW h, PowersTo(g, b, n), PowersTo(h, b, m),
         n <= m
  PROVE  \A k \in 0..n : g[k] = h[k]
<1> DEFINE Bad == {k \in 0..n : g[k] # h[k]}
<1>1. SUFFICES ASSUME Bad # {} PROVE FALSE
  OBVIOUS
<1>2. PICK k \in Bad : \A l \in Bad : k <= l
  <2>1. Bad \subseteq Nat
    OBVIOUS
  <2> HIDE DEF Bad
  <2> QED
    BY <1>1, <2>1, NatMin
<1>3. /\ g[k] = IF k = 0 THEN 1 ELSE b * g[k - 1]
      /\ h[k] = IF k = 0 THEN 1 ELSE b * h[k - 1]
  BY DEF PowersTo
<1>4. k # 0
  BY <1>3
<1>5. k - 1 \in 0..n /\ k - 1 \notin Bad
  BY <1>2, <1>4
<1> QED
  BY <1>3, <1>4, <1>5

LEMMA PowersExist ==
  ASSUME NEW b
  PROVE  \E g : Powers(g, b)
<1> DEFINE Bad == {n \in Nat : ~ \E g : PowersTo(g, b, n)}
<1>1. Bad = {}
  <2>1. SUFFICES ASSUME Bad # {} PROVE FALSE
    OBVIOUS
  <2>2. PICK n \in Bad : \A l \in Bad : n <= l
    BY <2>1, NatMin
  <2>3. CASE n = 0
    <3> DEFINE g == [k \in 0..0 |-> 1]
    <3>1. PowersTo(g, b, 0)
      BY DEF PowersTo
    <3> QED
      BY <2>3, <3>1
  <2>4. CASE n # 0
    <3>1. PICK h : PowersTo(h, b, n - 1)
      BY <2>2, <2>4
    <3> DEFINE g == [k \in 0..n |-> IF k = 0 THEN 1 ELSE b * h[k - 1]]
    <3>2. \A k \in 0..(n - 1) : h[k] = IF k = 0 THEN 1 ELSE b * h[k - 1]
      BY <3>1 DEF PowersTo
    <3>3. \A k \in 0..(n - 1) : g[k] = h[k]
      BY <3>2
    <3>4. ASSUME NEW k \in 0..n
          PROVE  g[k] = IF k = 0 THEN 1 ELSE b * g[k - 1]
      <4>1. k # 0 => k - 1 \in 0..(n - 1)
        BY <2>2
      <4> QED
        BY <3>3, <4>1
    <3>5. PowersTo(g, b, n)
      BY <3>4 DEF PowersTo
    <3> QED
      BY <3>5
  <2> QED
    BY <2>3, <2>4
<1> DEFINE UpTo(n) == CHOOSE g : PowersTo(g, b, n)
           all == [n \in Nat |-> UpTo(n)[n]]
<1>2. \A n \in Nat : PowersTo(UpTo(n), b, n)
  BY <1>1
<1> HIDE DEF UpTo
<1>3. ASSUME NEW n \in Nat
      PROVE  all[n] = IF n = 0 THEN 1 ELSE b * all[n - 1]
  <2>1. UpTo(n)[n] = IF n = 0 THEN 1 ELSE b * UpTo(n)[n - 1]
    <3>1. PICK g : g = UpTo(n)
      OBVIOUS
    <3>2. g = [k \in 0..n |-> IF k = 0 THEN 1 ELSE b * g[k - 1]]
      BY <1>2, <3>1 DEF PowersTo
    <3>3. g[n] = IF n = 0 THEN 1 ELSE b * g[n - 1]
      BY <3>2
    <3> QED
      BY <3>1, <3>3
  <2>2. ASSUME n # 0
        PROVE  UpTo(n)[n - 1] = UpTo(n - 1)[n - 1]
    <3>1. n - 1 \in Nat /\ n - 1 <= n
      BY <2>2
    <3> QED
      BY <1>2, <3>1, PowersAgree
  <2> QED
    BY <2>1, <2>2
<1>4. Powers(all, b)
  BY <1>3 DEF Powers
<1> QED
  BY <1>4

(* The recursion that Power stands for.                                    *)
LEMMA PowerSteps ==
  ASSUME NEW b
  PROVE  /\ Power(b, 0) = 1
         /\ \A n \in Nat : Power(b, n + 1) = b * Power(b, n)
<1> DEFINE power == CHOOSE g : Powers(g, b)
<1>1. Powers(power, b)
  BY PowersExist
<1>2. \A n : Power(b, n) = power[n]
  BY DEF Power, Powers
<1> HIDE DEF power
<1>3. \A n \in Nat : power[n] = IF n = 0 THEN 1 ELSE b * power[n - 1]
  BY <1>1 DEF Powers
<1> QED
  BY <1>2, <1>3

LEMMA PowerPositive ==
  ASSUME NEW b \in Nat \ {0}
  PROVE  \A n \in Nat : Power(b, n) \in Nat \ {0}
<1> DEFINE Bad == {n \in Nat : Power(b, n) \notin Nat \ {0}}
<1>1. SUFFICES ASSUME Bad # {} PROVE FALSE
  OBVIOUS
<1>2. PICK n \in Bad : \A l \in Bad : n <= l
  BY <1>1, NatMin
<1>3. n # 0
  BY PowerSteps
<1>4. Power(b, n - 1) \in Nat \ {0}
  BY <1>2, <1>3
<1>5. Power(b, n) = b * Power(b, n - 1)
  <2>1. n - 1 \in Nat /\ (n - 1) + 1 = n
    BY <1>3
  <2> QED
    BY <2>1, PowerSteps
<1>6. b * Power(b, n - 1) \in Nat \ {0}
  <2>1. \A p \in Nat \ {0} : b * p \in Nat \ {0}
    OBVIOUS
  <2> QED
    BY <1>4, <2>1
<1> QED
  BY <1>5, <1>6

-----------------------------------------------------------------------------
(* Sums over finite sets.                                                  *)

(* The element that a fold takes next.                                     *)
Pick(s) == CHOOSE x \in s : TRUE

(* g gives the sums of f over the subsets of S, up to n elements.          *)
SumsUpTo(g, f, S, n) ==
  g = [s \in {s \in SUBSET S : Cardinality(s) <= n} |->
         IF s = {} THEN 0 ELSE f[Pick(s)] + g[s \ {Pick(s)}]]

Sums(g, f, S) ==
  g = [s \in SUBSET S |-> IF s = {} THEN 0 ELSE f[Pick(s)] + g[s \ {Pick(s)}]]

LEMMA PickIn == \A s : s # {} => Pick(s) \in s
BY DEF Pick

LEMMA SumsGrow ==
  ASSUME NEW f, NEW S, IsFiniteSet(S), NEW n \in Nat, NEW h, SumsUpTo(h, f, S, n)
  PROVE  \E g : SumsUpTo(g, f, S, n + 1)
<1> DEFINE Small(k) == {s \in SUBSET S : Cardinality(s) <= k}
           g == [s \in Small(n + 1) |-> IF s = {} THEN 0 ELSE f[Pick(s)] + h[s \ {Pick(s)}]]
<1>1. ASSUME NEW s \in Small(n + 1), s # {}
      PROVE  s \ {Pick(s)} \in Small(n) /\ s \ {Pick(s)} \in Small(n + 1)
  <2>1. IsFiniteSet(s) /\ Pick(s) \in s
    BY <1>1, FS_Subset, PickIn
  <2>2. Cardinality(s \ {Pick(s)}) = Cardinality(s) - 1 /\ Cardinality(s) \in Nat
    BY <2>1, FS_RemoveElement, FS_CardinalityType
  <2> QED
    BY <1>1, <2>2
<1>2. h = [s \in Small(n) |-> IF s = {} THEN 0 ELSE f[Pick(s)] + h[s \ {Pick(s)}]]
  BY DEF SumsUpTo
<1>3. ASSUME NEW s \in Small(n)
      PROVE  g[s] = h[s]
  <2>1. s \in Small(n + 1)
    <3>1. Cardinality(s) \in Nat
      BY <1>3, FS_Subset, FS_CardinalityType
    <3> QED
      BY <1>3, <3>1
  <2>2. h[s] = IF s = {} THEN 0 ELSE f[Pick(s)] + h[s \ {Pick(s)}]
    BY <1>2, <1>3
  <2>3. g[s] = IF s = {} THEN 0 ELSE f[Pick(s)] + h[s \ {Pick(s)}]
    BY <2>1
  <2> QED
    BY <2>2, <2>3
<1>4. ASSUME NEW s \in Small(n + 1)
      PROVE  g[s] = IF s = {} THEN 0 ELSE f[Pick(s)] + g[s \ {Pick(s)}]
  <2>1. CASE s = {}
    BY <1>4, <2>1
  <2>2. CASE s # {}
    <3>1. g[s] = f[Pick(s)] + h[s \ {Pick(s)}]
      BY <1>4, <2>2
    <3>2. g[s \ {Pick(s)}] = h[s \ {Pick(s)}]
      BY <1>1, <1>3, <1>4, <2>2
    <3> QED
      BY <2>2, <3>1, <3>2
  <2> QED
    BY <2>1, <2>2
<1>5. g = [s \in Small(n + 1) |-> IF s = {} THEN 0 ELSE f[Pick(s)] + g[s \ {Pick(s)}]]
  <2>1. g = [s \in Small(n + 1) |-> g[s]]
    OBVIOUS
  <2> HIDE DEF g
  <2> QED
    BY <1>4, <2>1
<1> HIDE DEF g
<1>6. SumsUpTo(g, f, S, n + 1)
  BY <1>5 DEF SumsUpTo
<1> QED
  BY <1>6

LEMMA SumsExist ==
  ASSUME NEW f, NEW S, IsFiniteSet(S)
  PROVE  \E g : Sums(g, f, S)
<1> DEFINE Bad == {n \in Nat : ~ \E g : SumsUpTo(g, f, S, n)}
<1>1. 0 \notin Bad
  <2> DEFINE g == [s \in {s \in SUBSET S : Cardinality(s) <= 0} |-> 0]
  <2>1. ASSUME NEW s \in SUBSET S, Cardinality(s) <= 0
        PROVE  s = {}
    <3>1. IsFiniteSet(s)
      BY FS_Subset
    <3>2. Cardinality(s) = 0
      BY <2>1, <3>1, FS_CardinalityType
    <3> QED
      BY <3>1, <3>2, FS_EmptySet
  <2>2. SumsUpTo(g, f, S, 0)
    BY <2>1 DEF SumsUpTo
  <2> QED
    BY <2>2
<1>2. Bad = {}
  <2> SUFFICES ASSUME Bad # {} PROVE FALSE
    OBVIOUS
  <2>1. PICK m \in Bad : \A n \in Bad : m <= n
    BY NatMin
  <2>2. m \in Nat /\ m # 0
    BY <1>1
  <2>3. m - 1 \in Nat /\ m - 1 \notin Bad
    BY <2>1, <2>2
  <2>4. PICK h : SumsUpTo(h, f, S, m - 1)
    BY <2>3
  <2>5. \E g : SumsUpTo(g, f, S, (m - 1) + 1)
    BY <2>3, <2>4, SumsGrow
  <2> QED
    BY <2>1, <2>2, <2>5
<1>3. PICK g : SumsUpTo(g, f, S, Cardinality(S))
  BY <1>2, FS_CardinalityType
<1>4. {s \in SUBSET S : Cardinality(s) <= Cardinality(S)} = SUBSET S
  BY FS_Subset
<1> QED
  BY <1>3, <1>4 DEF SumsUpTo, Sums

(* Sums over common elements on which two functions agree are the same.    *)
LEMMA SumsAgree ==
  ASSUME NEW f, NEW S, NEW g, Sums(g, f, S), NEW e, NEW T, NEW h, Sums(h, e, T),
         IsFiniteSet(S), S \subseteq T, \A x \in S : f[x] = e[x]
  PROVE  \A s \in SUBSET S : g[s] = h[s]
<1> DEFINE Bad == {n \in Nat : \E s \in SUBSET S : Cardinality(s) = n /\ g[s] # h[s]}
<1>1. ASSUME NEW s \in SUBSET S
      PROVE  /\ g[s] = IF s = {} THEN 0 ELSE f[Pick(s)] + g[s \ {Pick(s)}]
             /\ h[s] = IF s = {} THEN 0 ELSE e[Pick(s)] + h[s \ {Pick(s)}]
  BY DEF Sums
<1>2. Bad = {}
  <2> SUFFICES ASSUME Bad # {} PROVE FALSE
    OBVIOUS
  <2>1. PICK m \in Bad : \A n \in Bad : m <= n
    BY NatMin
  <2>2. PICK s \in SUBSET S : Cardinality(s) = m /\ g[s] # h[s]
    OBVIOUS
  <2>3. s # {} /\ Pick(s) \in s
    BY <1>1, <2>2, PickIn
  <2>4. Cardinality(s \ {Pick(s)}) = m - 1
    BY <2>2, <2>3, FS_Subset, FS_RemoveElement
  <2>5. m - 1 \in Nat
    BY <2>3, <2>4, FS_Subset, FS_RemoveElement, FS_CardinalityType
  <2>6. g[s \ {Pick(s)}] = h[s \ {Pick(s)}]
    BY <2>1, <2>4, <2>5
  <2> QED
    BY <1>1, <2>2, <2>3, <2>6
<1>3. ASSUME NEW s \in SUBSET S
      PROVE  Cardinality(s) \in Nat
  BY FS_Subset, FS_CardinalityType
<1> QED
  BY <1>2, <1>3

(* The order in which elements are taken does not matter.                  *)
LEMMA SumsPeel ==
  ASSUME NEW f, NEW S, NEW g, Sums(g, f, S), IsFiniteSet(S), \A x \in S : f[x] \in Int
  PROVE  /\ \A s \in SUBSET S : g[s] \in Int
         /\ \A s \in SUBSET S : \A x \in s : g[s] = f[x] + g[s \ {x}]
<1> DEFINE Fine(s) == g[s] \in Int /\ \A x \in s : g[s] = f[x] + g[s \ {x}]
           Bad == {n \in Nat : \E s \in SUBSET S : Cardinality(s) = n /\ ~Fine(s)}
<1>1. \A s \in SUBSET S : g[s] = IF s = {} THEN 0 ELSE f[Pick(s)] + g[s \ {Pick(s)}]
  BY DEF Sums
<1>2. Bad = {}
  <2> SUFFICES ASSUME Bad # {} PROVE FALSE
    OBVIOUS
  <2>1. PICK m \in Bad : \A n \in Bad : m <= n
    BY NatMin
  <2>2. PICK s \in SUBSET S : Cardinality(s) = m /\ ~Fine(s)
    OBVIOUS
  <2>3. s # {} /\ Pick(s) \in s
    BY <1>1, <2>2, PickIn
  <2>4. ASSUME NEW x \in s
        PROVE  Fine(s \ {x})
    <3>1. Cardinality(s \ {x}) = m - 1 /\ Cardinality(s \ {x}) \in Nat
      BY <2>2, FS_Subset, FS_RemoveElement, FS_CardinalityType
    <3>2. m - 1 \notin Bad
      BY <2>1, <3>1
    <3> QED
      BY <3>1, <3>2
  <2> DEFINE y == Pick(s)
  <2>5. g[s] = f[y] + g[s \ {y}] /\ y \in s
    BY <1>1, <2>3
  <2>6. g[s] \in Int
    <3>1. Fine(s \ {y}) /\ f[y] \in Int
      BY <2>4, <2>5
    <3> HIDE DEF y
    <3> QED
      BY <2>5, <3>1
  <2>7. ASSUME NEW x \in s
        PROVE  g[s] = f[x] + g[s \ {x}]
    <3>1. CASE x = y
      BY <2>5, <3>1
    <3>2. CASE x # y
      <4> HIDE DEF y
      <4>1. x \in s \ {y} /\ y \in s \ {x} /\ (s \ {y}) \ {x} = (s \ {x}) \ {y}
        BY <2>5, <3>2
      <4>2. g[s \ {y}] = f[x] + g[(s \ {y}) \ {x}] /\ g[s \ {x}] = f[y] + g[(s \ {x}) \ {y}]
        BY <2>4, <2>5, <4>1
      <4>3. g[(s \ {x}) \ {y}] \in Int /\ f[x] \in Int /\ f[y] \in Int
        <5>1. Cardinality((s \ {x}) \ {y}) = m - 2 /\ Cardinality((s \ {x}) \ {y}) \in Nat
          <6>1. IsFiniteSet(s) /\ m \in Nat
            BY <2>2, FS_Subset
          <6>2. Cardinality(s \ {x}) = m - 1 /\ IsFiniteSet(s \ {x})
            BY <2>2, <6>1, FS_RemoveElement
          <6>3. /\ Cardinality((s \ {x}) \ {y}) = Cardinality(s \ {x}) - 1
                /\ IsFiniteSet((s \ {x}) \ {y})
            BY <4>1, <6>2, FS_RemoveElement
          <6>4. Cardinality((s \ {x}) \ {y}) \in Nat
            BY <6>3, FS_CardinalityType
          <6> QED
            BY <6>1, <6>2, <6>3, <6>4
        <5>2. m - 2 \notin Bad
          BY <2>1, <5>1
        <5>3. Fine((s \ {x}) \ {y})
          BY <5>1, <5>2
        <5> QED
          BY <2>5, <5>3
      <4>4. g[(s \ {y}) \ {x}] = g[(s \ {x}) \ {y}]
        BY <4>1
      <4> QED
        BY <2>5, <4>2, <4>3, <4>4
    <3> QED
      BY <3>1, <3>2
  <2> QED
    BY <2>2, <2>6, <2>7
<1>3. ASSUME NEW s \in SUBSET S
      PROVE  Cardinality(s) \in Nat
  BY FS_Subset, FS_CardinalityType
<1> QED
  BY <1>2, <1>3

(* The sum of f over a finite set.                                         *)
SumOver(f, S) == (CHOOSE g : Sums(g, f, S))[S]

LEMMA SumIs ==
  ASSUME NEW f, NEW S, IsFiniteSet(S), NEW g, Sums(g, f, S), NEW T \in SUBSET S
  PROVE  SumOver(f, T) = g[T]
<1> DEFINE h == CHOOSE x : Sums(x, f, T)
<1>1. IsFiniteSet(T)
  BY FS_Subset
<1>2. Sums(h, f, T)
  BY <1>1, SumsExist
<1> HIDE DEF h
<1>3. h[T] = g[T]
  BY <1>1, <1>2, SumsAgree
<1> QED
  BY <1>3 DEF SumOver, h

LEMMA SumAdds ==
  ASSUME NEW f, NEW S, IsFiniteSet(S), \A x \in S : f[x] \in Int
  PROVE  /\ SumOver(f, {}) = 0
         /\ \A T \in SUBSET S : SumOver(f, T) \in Int
         /\ \A T \in SUBSET S : \A x \in T : SumOver(f, T) = f[x] + SumOver(f, T \ {x})
<1>1. PICK g : Sums(g, f, S)
  BY SumsExist
<1>2. \A T \in SUBSET S : SumOver(f, T) = g[T]
  BY <1>1, SumIs
<1>3. g[{}] = 0
  BY <1>1 DEF Sums
<1>4. /\ \A T \in SUBSET S : g[T] \in Int
      /\ \A T \in SUBSET S : \A x \in T : g[T] = f[x] + g[T \ {x}]
  BY <1>1, SumsPeel
<1>5. ASSUME NEW T \in SUBSET S, NEW x \in T
      PROVE  SumOver(f, T) = f[x] + SumOver(f, T \ {x})
  <2>1. T \ {x} \in SUBSET S
    OBVIOUS
  <2> QED
    BY <1>2, <1>4, <2>1
<1> QED
  BY <1>2, <1>3, <1>4, <1>5

LEMMA SumSame ==
  ASSUME NEW f, NEW e, NEW S, IsFiniteSet(S), \A x \in S : f[x] = e[x]
  PROVE  SumOver(f, S) = SumOver(e, S)
<1>1. PICK g : Sums(g, f, S)
  BY SumsExist
<1>2. PICK h : Sums(h, e, S)
  BY SumsExist
<1>3. g[S] = h[S]
  BY <1>1, <1>2, SumsAgree
<1> QED
  BY <1>1, <1>2, <1>3, SumIs

(* A sum of natural numbers is one, and grows with the set.                *)
LEMMA SumGrows ==
  ASSUME NEW f, NEW S, IsFiniteSet(S), \A x \in S : f[x] \in Nat, NEW T \in SUBSET S
  PROVE  SumOver(f, T) \in Nat /\ SumOver(f, T) <= SumOver(f, S)
<1> DEFINE Bad == {n \in Nat : \E s \in SUBSET S : /\ Cardinality(s) = n
             /\ ~(SumOver(f, s) \in Nat /\ \A r \in SUBSET s : SumOver(f, r) <= SumOver(f, s))}
<1>1. /\ SumOver(f, {}) = 0
      /\ \A s \in SUBSET S : SumOver(f, s) \in Int
      /\ \A s \in SUBSET S : \A x \in s : SumOver(f, s) = f[x] + SumOver(f, s \ {x})
  BY SumAdds
<1>2. Bad = {}
  <2> SUFFICES ASSUME Bad # {} PROVE FALSE
    OBVIOUS
  <2>1. PICK m \in Bad : \A n \in Bad : m <= n
    BY NatMin
  <2>2. PICK s \in SUBSET S :
          /\ Cardinality(s) = m
          /\ ~(SumOver(f, s) \in Nat /\ \A r \in SUBSET s : SumOver(f, r) <= SumOver(f, s))
    OBVIOUS
  <2>3. ASSUME NEW x \in s
        PROVE  /\ SumOver(f, s \ {x}) \in Nat
               /\ \A r \in SUBSET (s \ {x}) : SumOver(f, r) <= SumOver(f, s \ {x})
               /\ SumOver(f, s) = f[x] + SumOver(f, s \ {x}) /\ f[x] \in Nat
    <3>1. Cardinality(s \ {x}) = m - 1 /\ Cardinality(s \ {x}) \in Nat
      BY <2>2, FS_Subset, FS_RemoveElement, FS_CardinalityType
    <3>2. m - 1 \notin Bad
      BY <2>1, <3>1
    <3> QED
      BY <1>1, <3>1, <3>2
  <2>4. CASE s = {}
    <3>1. SumOver(f, s) = 0
      BY <1>1, <2>4
    <3>2. ASSUME NEW r \in SUBSET s
          PROVE  SumOver(f, r) <= SumOver(f, s)
      <4>1. r = s
        BY <2>4
      <4> QED
        BY <3>1, <4>1
    <3> QED
      BY <2>2, <3>1, <3>2
  <2>5. CASE s # {}
    <3>1. PICK x \in s : TRUE
      BY <2>5
    <3>2. SumOver(f, s) \in Nat
      <4>1. /\ SumOver(f, s \ {x}) \in Nat /\ f[x] \in Nat
            /\ SumOver(f, s) = f[x] + SumOver(f, s \ {x})
        BY <2>3
      <4> QED
        BY <4>1
    <3>3. ASSUME NEW r \in SUBSET s
          PROVE  SumOver(f, r) <= SumOver(f, s)
      <4>1. CASE r = s
        BY <3>2, <4>1
      <4>2. CASE r # s
        <5>1. PICK y \in s : y \notin r
          BY <4>2
        <5>2. r \in SUBSET (s \ {y}) /\ r \in SUBSET S
          BY <5>1
        <5>3. SumOver(f, r) <= SumOver(f, s \ {y}) /\ SumOver(f, r) \in Int
          BY <1>1, <2>3, <5>2
        <5>4. /\ SumOver(f, s \ {y}) \in Nat /\ f[y] \in Nat
              /\ SumOver(f, s) = f[y] + SumOver(f, s \ {y})
          BY <2>3
        <5> QED
          BY <5>3, <5>4
      <4> QED
        BY <4>1, <4>2
    <3> QED
      BY <2>2, <3>2, <3>3
  <2> QED
    BY <2>4, <2>5
<1>3. ASSUME NEW s \in SUBSET S
      PROVE  Cardinality(s) \in Nat
  BY FS_Subset, FS_CardinalityType
<1>4. \A s \in SUBSET S : SumOver(f, s) \in Nat /\ \A r \in SUBSET s : SumOver(f, r) <= SumOver(f, s)
  BY <1>2, <1>3
<1> QED
  BY <1>4

-----------------------------------------------------------------------------
(* Remainders.                                                             *)

Congruent(a, b, n) == \E q \in Int : a - b = n * q

LEMMA Division ==
  \A n \in Nat \ {0}, x \in Int :
    x = (n * (x \div n)) + (x % n) /\ x % n \in 0..(n - 1) /\ x \div n \in Int
OBVIOUS

LEMMA RemainderIs ==
  ASSUME NEW n \in Nat \ {0}, NEW x \in Int, NEW q \in Int, NEW r \in 0..(n - 1), x = (n * q) + r
  PROVE  x % n = r /\ x \div n = q
<1>1. PICK p \in Int, s \in 0..(n - 1) : x = (n * p) + s /\ p = x \div n /\ s = x % n
  BY Division
<1>2. n * (p - q) = r - s
  <2>1. PICK u \in Int, v \in Int : u = n * p /\ v = n * q
    OBVIOUS
  <2>2. n * (p - q) = u - v
    BY <2>1
  <2>3. x = u + s /\ x = v + r
    BY <1>1, <2>1
  <2> QED
    BY <2>1, <2>2, <2>3
<1>3. p - q = 0
  <2>1. PICK d \in Int : d = p - q
    OBVIOUS
  <2>2. n * d < n /\ n * d > 0 - n
    BY <1>2, <2>1
  <2>3. d = 0
    BY <2>2
  <2> QED
    BY <2>1, <2>3
<1> QED
  BY <1>1, <1>2, <1>3

LEMMA RemainderOf == \A n \in Nat \ {0} : \A x \in 0..(n - 1) : x % n = x
<1> SUFFICES ASSUME NEW n \in Nat \ {0}, NEW x \in 0..(n - 1) PROVE x % n = x
  OBVIOUS
<1>1. x = (n * 0) + x /\ x \in Int
  OBVIOUS
<1> QED
  BY <1>1, RemainderIs

LEMMA SameRemainder ==
  ASSUME NEW n \in Nat \ {0}, NEW a \in Int, NEW b \in Int
  PROVE  Congruent(a, b, n) <=> a % n = b % n
<1>1. PICK q \in Int, r \in 0..(n - 1) : a = (n * q) + r /\ r = a % n
  BY Division
<1>2. PICK p \in Int, s \in 0..(n - 1) : b = (n * p) + s /\ s = b % n
  BY Division
<1>3. ASSUME NEW d \in Int, a - b = n * d
      PROVE  r = s
  <2>1. a = (n * (d + p)) + s
    <3>1. n * (d + p) = (n * d) + (n * p)
      OBVIOUS
    <3> QED
      BY <1>2, <1>3, <3>1
  <2>2. d + p \in Int
    OBVIOUS
  <2> QED
    BY <1>1, <2>1, <2>2, RemainderIs
<1>4. ASSUME r = s
      PROVE  a - b = n * (q - p)
  <2>1. PICK u \in Int, v \in Int : u = n * q /\ v = n * p
    OBVIOUS
  <2>2. n * (q - p) = u - v
    BY <2>1
  <2>3. a = u + r /\ b = v + s
    BY <1>1, <1>2, <2>1
  <2> QED
    BY <1>4, <2>1, <2>2, <2>3
<1>5. q - p \in Int
  OBVIOUS
<1> QED
  BY <1>1, <1>2, <1>3, <1>4, <1>5 DEF Congruent

LEMMA CongruentSame == \A n \in Nat \ {0}, a \in Int : Congruent(a, a, n) /\ Congruent(a % n, a, n)
<1> SUFFICES ASSUME NEW n \in Nat \ {0}, NEW a \in Int
             PROVE  Congruent(a, a, n) /\ Congruent(a % n, a, n)
  OBVIOUS
<1>1. a - a = n * 0
  OBVIOUS
<1>2. a % n \in 0..(n - 1)
  BY Division
<1>3. (a % n) % n = a % n /\ a % n \in Int
  BY <1>2, RemainderOf
<1> QED
  BY <1>1, <1>3, SameRemainder DEF Congruent

LEMMA CongruentSum ==
  ASSUME NEW n \in Nat \ {0}, NEW a \in Int, NEW b \in Int, NEW c \in Int, NEW d \in Int,
         Congruent(a, b, n), Congruent(c, d, n)
  PROVE  Congruent(a + c, b + d, n) /\ Congruent(a - c, b - d, n)
<1>1. PICK p \in Int, q \in Int : a - b = n * p /\ c - d = n * q
  BY DEF Congruent
<1>2. n * (p + q) = (n * p) + (n * q) /\ n * (p - q) = (n * p) - (n * q)
  OBVIOUS
<1>3. (a + c) - (b + d) = n * (p + q) /\ (a - c) - (b - d) = n * (p - q)
  BY <1>1, <1>2
<1>4. p + q \in Int /\ p - q \in Int
  OBVIOUS
<1> QED
  BY <1>3, <1>4 DEF Congruent

LEMMA CongruentProduct ==
  ASSUME NEW n \in Nat \ {0}, NEW a \in Int, NEW b \in Int, NEW c \in Int, Congruent(a, b, n)
  PROVE  Congruent(a * c, b * c, n) /\ Congruent(c * a, c * b, n)
<1>1. PICK p \in Int : a - b = n * p
  BY DEF Congruent
<1>2. (a - b) * c = (a * c) - (b * c) /\ (n * p) * c = n * (p * c) /\ p * c \in Int
  OBVIOUS
<1>3. (a * c) - (b * c) = n * (p * c)
  BY <1>1, <1>2
<1>4. a * c = c * a /\ b * c = c * b
  OBVIOUS
<1> QED
  BY <1>2, <1>3, <1>4 DEF Congruent

(* Terms that are congruent have congruent sums.                           *)
LEMMA SumsCongruent ==
  ASSUME NEW n \in Nat \ {0}, NEW f, NEW e, NEW S, IsFiniteSet(S),
         \A x \in S : f[x] \in Int /\ e[x] \in Int /\ Congruent(f[x], e[x], n)
  PROVE  Congruent(SumOver(f, S), SumOver(e, S), n)
<1> DEFINE Fine(s) == Congruent(SumOver(f, s), SumOver(e, s), n)
           Bad == {m \in Nat : \E s \in SUBSET S : Cardinality(s) = m /\ ~Fine(s)}
<1>1. /\ SumOver(f, {}) = 0 /\ SumOver(e, {}) = 0
      /\ \A s \in SUBSET S : SumOver(f, s) \in Int /\ SumOver(e, s) \in Int
      /\ \A s \in SUBSET S : \A x \in s :
           SumOver(f, s) = f[x] + SumOver(f, s \ {x}) /\ SumOver(e, s) = e[x] + SumOver(e, s \ {x})
  BY SumAdds
<1>2. Fine({})
  BY <1>1, CongruentSame
<1>3. Bad = {}
  <2> SUFFICES ASSUME Bad # {} PROVE FALSE
    OBVIOUS
  <2>1. PICK m \in Bad : \A k \in Bad : m <= k
    BY NatMin
  <2>2. PICK s \in SUBSET S : Cardinality(s) = m /\ ~Fine(s)
    OBVIOUS
  <2>3. PICK x \in s : TRUE
    BY <1>2, <2>2
  <2>4. Cardinality(s \ {x}) = m - 1 /\ Cardinality(s \ {x}) \in Nat
    BY <2>2, FS_Subset, FS_RemoveElement, FS_CardinalityType
  <2>5. Congruent(SumOver(f, s \ {x}), SumOver(e, s \ {x}), n)
    BY <2>1, <2>4
  <2>6. Congruent(f[x] + SumOver(f, s \ {x}), e[x] + SumOver(e, s \ {x}), n)
    <3>1. SumOver(f, s \ {x}) \in Int /\ SumOver(e, s \ {x}) \in Int
      BY <1>1
    <3> QED
      BY <2>5, <3>1, CongruentSum
  <2> QED
    BY <1>1, <2>2, <2>6
<1>4. Cardinality(S) \in Nat
  BY FS_CardinalityType
<1> QED
  BY <1>3, <1>4

-----------------------------------------------------------------------------
(* Inverses.                                                               *)

(* Below a prime every number but zero has an inverse: the least positive  *)
(* combination of the two divides both.                                    *)
LEMMA InverseExists ==
  ASSUME NEW n \in Nat \ {0}, n > 1, \A d \in 1..n : n % d = 0 => d \in {1, n}, NEW a \in 1..(n - 1)
  PROVE  \E x \in 0..(n - 1) : (a * x) % n = 1
<1> DEFINE T == {d \in Nat \ {0} : \E x \in Int, y \in Int : d = (a * x) + (n * y)}
<1>0. PICK zero \in Int, one \in Int : /\ zero = 0 /\ one = 1
                                      /\ n = (a * zero) + (n * one) /\ a = (a * one) + (n * zero)
  OBVIOUS
<1>1. T \subseteq Nat /\ n \in T
  BY <1>0
<1>2. PICK m \in T : \A d \in T : m <= d
  <2> HIDE DEF T
  <2> QED
    BY <1>1, NatMin
<1>3. PICK x \in Int, y \in Int : m = (a * x) + (n * y)
  OBVIOUS
<1>4. m \in Nat \ {0} /\ m <= n
  BY <1>1, <1>2
<1>5. ASSUME NEW b \in Nat, NEW u \in Int, NEW v \in Int, b = (a * u) + (n * v)
      PROVE  b % m = 0
  <2>1. PICK q \in Int, r \in 0..(m - 1) : b = (m * q) + r /\ r = b % m
    <3>1. b \in Int
      OBVIOUS
    <3>2. PICK k \in Nat \ {0} : k = m
      BY <1>4
    <3>3. \E q \in Int, r \in 0..(k - 1) : b = (k * q) + r /\ r = b % k
      BY <3>1, Division
    <3> QED
      BY <3>2, <3>3
  <2>2. PICK g \in Int, h \in Int : r = (a * g) + (n * h)
    <3>1. PICK s \in Int, t \in Int : s = x * q /\ t = y * q
      OBVIOUS
    <3>2. m * q = (a * s) + (n * t)
      <4>1. PICK c \in Int, d \in Int : c = a * x /\ d = n * y
        OBVIOUS
      <4>2. m * q = (c * q) + (d * q)
        BY <1>3, <4>1
      <4>3. c * q = a * s /\ d * q = n * t
        BY <3>1, <4>1
      <4> QED
        BY <4>2, <4>3
    <3>3. PICK c \in Int, d \in Int : c = a * s /\ d = n * t
      BY <3>1
    <3>4. PICK e \in Int, f \in Int : e = a * u /\ f = n * v
      OBVIOUS
    <3>5. a * (u - s) = e - c /\ n * (v - t) = f - d
      BY <3>1, <3>3, <3>4
    <3>6. b = e + f /\ b = (c + d) + r
      BY <1>5, <2>1, <3>2, <3>3, <3>4
    <3>7. r = (e - c) + (f - d)
      BY <2>1, <3>3, <3>4, <3>6
    <3>8. PICK g \in Int, h \in Int : g = u - s /\ h = v - t
      BY <3>1
    <3>9. r = (a * g) + (n * h)
      BY <3>5, <3>7, <3>8
    <3> QED
      BY <3>8, <3>9
  <2>3. r # 0 => r \in T
    <3>1. r \in Nat
      BY <1>4, <2>1
    <3> QED
      BY <2>2, <3>1
  <2>4. r = 0
    <3>1. r < m
      BY <1>4, <2>1
    <3> HIDE DEF T
    <3> QED
      BY <1>2, <1>4, <2>1, <2>3, <3>1
  <2> QED
    BY <2>1, <2>4
<1>6. n % m = 0 /\ a % m = 0
  <2>1. a \in Nat /\ n \in Nat
    OBVIOUS
  <2> QED
    BY <1>0, <1>5, <2>1
<1>7. m = 1
  <2>1. m \in {1, n}
    BY <1>4, <1>6
  <2>2. a % n = a /\ a # 0
    BY RemainderOf
  <2> QED
    BY <1>6, <2>1, <2>2
<1>8. (a * (x % n)) % n = 1
  <2>1. PICK q \in Int, r \in 0..(n - 1) : x = (n * q) + r /\ r = x % n
    BY Division
  <2>2. PICK s \in Int, t \in Int, k \in Int : s = a * q /\ t = n * y /\ k = a * r
    OBVIOUS
  <2>3. a * x = (n * s) + k
    <3>1. PICK c \in Int : c = n * q
      OBVIOUS
    <3>2. a * (c + r) = (a * c) + (a * r)
      BY <3>1
    <3>3. a * c = n * s
      BY <2>2, <3>1
    <3> QED
      BY <2>1, <2>2, <3>1, <3>2, <3>3
  <2>4. PICK e \in Int : e = n * s
    BY <2>2
  <2>5. n * (0 - (y + s)) = (0 - t) - e
    BY <2>2, <2>4
  <2>6. k = (n * (0 - (y + s))) + 1
    <3>1. 1 = (e + k) + t
      BY <1>3, <1>7, <2>2, <2>3, <2>4
    <3>2. k = ((0 - t) - e) + 1
      BY <2>2, <2>4, <3>1
    <3> QED
      BY <2>5, <3>2
  <2>7. PICK w \in Int : w = 0 - (y + s)
    BY <2>2
  <2>8. k = (n * w) + one /\ one \in 0..(n - 1)
    BY <1>0, <2>6, <2>7
  <2>9. k % n = one
    <3>1. k - one = n * w
      <4>1. PICK z \in Int : z = n * w
        BY <2>7
      <4> QED
        BY <1>0, <2>2, <2>8, <4>1
    <3>2. Congruent(k, one, n)
      BY <2>7, <3>1 DEF Congruent
    <3> QED
      BY <2>2, <2>8, <3>2, SameRemainder, RemainderOf
  <2> QED
    BY <1>0, <2>1, <2>2, <2>9
<1>9. x % n \in 0..(n - 1)
  BY Division
<1> QED
  BY <1>8, <1>9
=============================================================================
