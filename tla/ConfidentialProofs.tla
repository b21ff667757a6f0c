------------------------- MODULE ConfidentialProofs -------------------------
(***************************************************************************)
(* Proofs about Confidential, for every group of prime order, every length *)
(* of a range proof and all amounts and draws: that the verifier accepts   *)
(* what was built and refuses it with a value altered, that what is signed *)
(* can be verified, and what the recipients decode.                        *)
(***************************************************************************)
EXTENDS Confidential, ArithmeticProofs

-----------------------------------------------------------------------------
(* Sums.                                                                   *)

(* The folds of the model are sums.                                        *)
LEMMA TotalIsSum ==
  ASSUME NEW numbers, IsFiniteSet(DOMAIN numbers)
  PROVE  Total(numbers) = SumOver(numbers, DOMAIN numbers)
<1> DEFINE S == DOMAIN numbers
           IsIter(g) == g = [s \in SUBSET S |->
                 IF s = {} THEN 0 ELSE numbers[CHOOSE x \in s : TRUE] + g[s \ {CHOOSE x \in s : TRUE}]]
<1>1. ASSUME NEW g
      PROVE  Sums(g, numbers, S) <=> IsIter(g)
  <2>1. \A s : Pick(s) = CHOOSE x \in s : TRUE
    BY DEF Pick
  <2> HIDE DEF S
  <2> QED
    BY <2>1, Zenon DEF Sums
<1>2. Total(numbers) = (CHOOSE g : IsIter(g))[S]
  BY DEF Total, FoldSeq, FoldFunction, FoldFunctionOnSet, MapThenFoldSet
<1>3. \E g : IsIter(g)
  <2>1. PICK g : Sums(g, numbers, S)
    BY SumsExist
  <2>2. IsIter(g)
    BY <1>1, <2>1
  <2> QED
    BY <2>2
<1>4. PICK g : g = (CHOOSE x : IsIter(x)) /\ IsIter(g)
  <2> HIDE DEF IsIter
  <2> QED
    BY <1>3
<1>5. Sums(g, numbers, S)
  <2> HIDE DEF IsIter, S
  <2> QED
    BY <1>1, <1>4
<1>6. SumOver(numbers, S) = g[S]
  BY <1>5, SumIs
<1> QED
  BY <1>2, <1>4, <1>6

LEMMA SumOfRemainder ==
  ASSUME Order \in Nat \ {0}
  PROVE  \A x \in Int, y \in Int : (x + (y % Order)) % Order = (x + y) % Order
<1> SUFFICES ASSUME NEW x \in Int, NEW y \in Int
             PROVE  (x + (y % Order)) % Order = (x + y) % Order
  OBVIOUS
<1>1. y % Order \in Int
  BY Division
<1>2. Congruent(x, x, Order) /\ Congruent(y % Order, y, Order)
  BY CongruentSame
<1>3. Congruent(x + (y % Order), x + y, Order)
  BY <1>1, <1>2, CongruentSum
<1>4. x + (y % Order) \in Int /\ x + y \in Int
  BY <1>1
<1> QED
  BY <1>3, <1>4, SameRemainder

LEMMA SumOfIsSums ==
  ASSUME NEW points, IsFiniteSet(DOMAIN points), Order \in Nat \ {0}, NEW xs, NEW ys,
         \A i \in DOMAIN points : xs[i] \in Int /\ ys[i] \in Int /\ points[i] = <<xs[i], ys[i]>>
  PROVE  SumOf(points) = <<SumOver(xs, DOMAIN points) % Order, SumOver(ys, DOMAIN points) % Order>>
<1> DEFINE S == DOMAIN points
           IsIter(g) == g = [s \in SUBSET S |->
                 IF s = {} THEN Infinity
                 ELSE Plus(points[CHOOSE x \in s : TRUE], g[s \ {CHOOSE x \in s : TRUE}])]
           Both(s) == <<SumOver(xs, s) % Order, SumOver(ys, s) % Order>>
           sums == [s \in SUBSET S |-> Both(s)]
<1>1. SumOf(points) = (CHOOSE g : IsIter(g))[S]
  BY DEF SumOf, FoldSeq, FoldFunction, FoldFunctionOnSet, MapThenFoldSet
<1>2. /\ SumOver(xs, {}) = 0 /\ SumOver(ys, {}) = 0
      /\ \A s \in SUBSET S : SumOver(xs, s) \in Int /\ SumOver(ys, s) \in Int
      /\ \A s \in SUBSET S : \A x \in s :
           SumOver(xs, s) = xs[x] + SumOver(xs, s \ {x}) /\ SumOver(ys, s) = ys[x] + SumOver(ys, s \ {x})
  BY SumAdds
<1>3. Both({}) = Infinity
  BY <1>2, RemainderOf DEF Infinity
<1>4. ASSUME NEW s \in SUBSET S, NEW x \in s
      PROVE  Both(s) = Plus(points[x], Both(s \ {x}))
  <2>1. /\ SumOver(xs, s \ {x}) \in Int /\ SumOver(ys, s \ {x}) \in Int
        /\ SumOver(xs, s) = xs[x] + SumOver(xs, s \ {x}) /\ SumOver(ys, s) = ys[x] + SumOver(ys, s \ {x})
        /\ points[x] = <<xs[x], ys[x]>> /\ xs[x] \in Int /\ ys[x] \in Int
    BY <1>2
  <2>2. PICK a \in Int, b \in Int, c \in Int, d \in Int :
          a = xs[x] /\ b = ys[x] /\ c = SumOver(xs, s \ {x}) /\ d = SumOver(ys, s \ {x})
    BY <2>1
  <2>3. Plus(<<a, b>>, <<c % Order, d % Order>>) = <<(a + c) % Order, (b + d) % Order>>
    BY SumOfRemainder DEF Plus
  <2> QED
    BY <2>1, <2>2, <2>3
<1> HIDE DEF Both
<1>5. IsIter(sums)
  <2>1. ASSUME NEW s \in SUBSET S
        PROVE  sums[s] = IF s = {} THEN Infinity
                         ELSE Plus(points[CHOOSE x \in s : TRUE], sums[s \ {CHOOSE x \in s : TRUE}])
    <3>1. CASE s = {}
      BY <1>3, <3>1
    <3>2. CASE s # {}
      <4>1. PICK x : x = (CHOOSE y \in s : TRUE) /\ x \in s
        BY <3>2
      <4>2. sums[s] = Both(s) /\ sums[s \ {x}] = Both(s \ {x})
        OBVIOUS
      <4>3. sums[s] = Plus(points[x], sums[s \ {x}])
        BY <1>4, <4>1, <4>2
      <4> QED
        BY <3>2, <4>1, <4>3
    <3> QED
      BY <3>1, <3>2
  <2>2. sums = [s \in SUBSET S |-> sums[s]]
    OBVIOUS
  <2> HIDE DEF sums
  <2> QED
    BY <2>1, <2>2
<1>6. PICK g : g = (CHOOSE x : IsIter(x)) /\ IsIter(g)
  <2> HIDE DEF IsIter, sums
  <2> QED
    BY <1>5
<1>7. g[S] = Both(S)
  <2> DEFINE Bad == {n \in Nat : \E s \in SUBSET S : Cardinality(s) = n /\ g[s] # Both(s)}
  <2>1. SUFFICES ASSUME Bad # {} PROVE FALSE
    BY FS_CardinalityType
  <2>2. PICK m \in Bad : \A n \in Bad : m <= n
    BY <2>1, NatMin
  <2>3. PICK s \in SUBSET S : Cardinality(s) = m /\ g[s] # Both(s)
    OBVIOUS
  <2>4. g[s] = IF s = {} THEN Infinity
               ELSE Plus(points[CHOOSE x \in s : TRUE], g[s \ {CHOOSE x \in s : TRUE}])
    BY <1>6
  <2>5. s # {}
    BY <1>3, <2>3, <2>4
  <2>6. PICK x : x = (CHOOSE y \in s : TRUE) /\ x \in s
    BY <2>5
  <2>7. Cardinality(s \ {x}) = m - 1 /\ Cardinality(s \ {x}) \in Nat
    <3>1. IsFiniteSet(s) /\ IsFiniteSet(s \ {x})
      BY FS_Subset
    <3> QED
      BY <2>3, <2>6, <3>1, FS_RemoveElement, FS_CardinalityType
  <2>8. g[s \ {x}] = Both(s \ {x})
    BY <2>2, <2>7
  <2>9. g[s] = Plus(points[x], g[s \ {x}])
    BY <2>4, <2>5, <2>6
  <2> QED
    BY <1>4, <2>3, <2>6, <2>8, <2>9
<1> QED
  BY <1>1, <1>6, <1>7 DEF Both

-----------------------------------------------------------------------------
(* Transactions under way.                                                 *)

Proofs ==
  {CreateProof(value, total, free, k, e) :
     value \in Amounts, total \in Scalar \ {0}, free \in [1..(Bits - 1) -> Random],
     k \in Scalar, e \in Random}

(* What build_ct_output keeps of its arguments.                            *)
BuiltOK ==
  /\ outputs \in Seq([commitment : Point, proof : Proofs])
  /\ blindings \in Seq(Scalar \ {0}) /\ Len(blindings) = Len(outputs)
  /\ amounts \in Seq(Amounts) /\ Len(amounts) = Len(outputs)
  /\ \A i \in 1..Len(outputs) :
       /\ amounts[i] \in 0..(Power(2, Bits) - 1)
       /\ outputs[i].commitment = outputs[i].proof.whole
       /\ outputs[i].proof.whole = Commitment(amounts[i], blindings[i])

(* What arrives is what was built, or one output is altered, or to_dict    *)
(* has dropped the proofs; and it is what has been decoded.                *)
ArrivedOK ==
  \/ received = outputs
  \/ \E i \in 1..Len(outputs) : \E other \in Altered(outputs[i]) :
       received = [outputs EXCEPT ![i] = other]
  \/ received = [i \in DOMAIN outputs |-> [outputs[i] EXCEPT !.proof = Embedded]]

CTInv ==
  /\ BuiltOK
  /\ stage \in {"built", "verified", "decoded"} => ArrivedOK
  /\ stage = "decoded" =>
       decoded = [i \in DOMAIN received |-> Decode(received[i].commitment, blindings[i])]

LEMMA Constants ==
  /\ Order \in Nat \ {0} /\ Bits \in Nat \ {0} /\ TableSize \in Nat \ {0}
  /\ MaxValue \in Nat /\ QuickMax \in Nat /\ Power(2, Bits) \in Int /\ Power(2, Bits) < Order
  /\ MaxValue < Order /\ Amounts \subseteq Nat /\ Random \subseteq Scalar /\ Order > 1
<1>1. Order \in Nat \ {0} /\ Bits \in Nat \ {0} /\ TableSize \in Nat \ {0} /\ MaxValue \in Nat
  BY ConfidentialAssumption
<1>2. Power(2, Bits) \in Int
  BY <1>1, PowerPositive
<1>3. MaxValue + 2 * TableSize < Order
  BY ConfidentialAssumption
<1>4. MaxValue < Order /\ Order > 1
  BY <1>1, <1>3
<1> QED
  BY <1>1, <1>2, <1>4, ConfidentialAssumption DEF Scalar

LEMMA NonZeroTyped == \A draw \in Scalar : NonZero(draw) \in Scalar \ {0}
BY Constants DEF NonZero, Scalar

LEMMA CommitmentTyped ==
  \A value \in Nat, blinding \in Scalar : Commitment(value, blinding) \in Point
BY Constants DEF Commitment, Point, Scalar

(* A proof that has been created is for the commitment it was made with.   *)
LEMMA ProofIsFor ==
  ASSUME NEW value \in Amounts, NEW total, NEW free, NEW k, NEW e,
         CreateProof(value, total, free, k, e) # Missing
  PROVE  /\ value \in 0..(Power(2, Bits) - 1)
         /\ CreateProof(value, total, free, k, e).whole = Commitment(value, total)
<1>1. ~(value >= Power(2, Bits))
  BY DEF CreateProof
<1>2. CreateProof(value, total, free, k, e)
        = Proof(value, total, [i \in 1..Bits |-> Bit(value, i)], free, k, e)
  BY DEF CreateProof
<1>3. value \in 0..(Power(2, Bits) - 1)
  BY <1>1, Constants
<1> QED
  BY <1>2, <1>3 DEF Proof

LEMMA BuildStep ==
  ASSUME CTInv, NEW value \in Amounts, NEW draw \in Random, NEW k \in Random, NEW e \in Random,
         NEW free \in [1..(Bits - 1) -> Random], BuildOutput(value, draw, free, k, e)
  PROVE  CTInv'
<1> DEFINE blinding == NonZero(draw)
           proof == CreateProof(value, blinding, free, NonZero(k), e)
           output == [commitment |-> Commitment(value, blinding), proof |-> proof]
<1>1. CASE proof = Missing
  BY <1>1 DEF BuildOutput, CTInv, BuiltOK, Raised
<1>2. CASE proof # Missing
  <2>1. blinding \in Scalar \ {0} /\ NonZero(k) \in Scalar
    BY NonZeroTyped, Constants
  <2>2. proof \in Proofs
    BY <2>1 DEF Proofs
  <2>3. value \in 0..(Power(2, Bits) - 1) /\ proof.whole = Commitment(value, blinding)
    BY <1>2, ProofIsFor
  <2>4. Commitment(value, blinding) \in Point
    BY <2>1, CommitmentTyped, Constants
  <2> HIDE DEF blinding, proof
  <2>5. PICK new : new = output
    OBVIOUS
  <2>6. /\ new \in [commitment : Point, proof : Proofs]
        /\ new.commitment = new.proof.whole /\ new.proof.whole = Commitment(value, blinding)
    BY <2>2, <2>3, <2>4, <2>5
  <2>7. /\ outputs' = Append(outputs, new) /\ blindings' = Append(blindings, blinding)
        /\ amounts' = Append(amounts, value) /\ stage' = stage /\ stage = "building"
    BY <1>2, <2>5 DEF BuildOutput, blinding, proof
  <2>8. /\ outputs' \in Seq([commitment : Point, proof : Proofs]) /\ Len(outputs') = Len(outputs) + 1
        /\ blindings' \in Seq(Scalar \ {0}) /\ Len(blindings') = Len(blindings) + 1
        /\ amounts' \in Seq(Amounts) /\ Len(amounts') = Len(amounts) + 1
    BY <2>1, <2>6, <2>7 DEF CTInv, BuiltOK
  <2>9. \A i \in 1..Len(outputs') :
          IF i = Len(outputs) + 1 THEN outputs'[i] = new /\ blindings'[i] = blinding /\ amounts'[i] = value
          ELSE /\ i \in 1..Len(outputs) /\ outputs'[i] = outputs[i]
               /\ blindings'[i] = blindings[i] /\ amounts'[i] = amounts[i]
    BY <2>7, <2>8 DEF CTInv, BuiltOK
  <2>10. \A i \in 1..Len(outputs') :
           /\ amounts'[i] \in 0..(Power(2, Bits) - 1)
           /\ outputs'[i].commitment = outputs'[i].proof.whole
           /\ outputs'[i].proof.whole = Commitment(amounts'[i], blindings'[i])
    BY <2>3, <2>6, <2>9 DEF CTInv, BuiltOK
  <2>11. BuiltOK'
    BY <2>8, <2>10 DEF CTInv, BuiltOK
  <2> QED
    BY <2>7, <2>11 DEF CTInv
<1> QED
  BY <1>1, <1>2

LEMMA CTStep ==
  ASSUME CTInv, [Next]_vars
  PROVE  CTInv'
<1>1. CASE UNCHANGED vars
  BY <1>1 DEF vars, CTInv, BuiltOK, ArrivedOK
<1>2. ASSUME NEW f, NEW key, NEW draw, NEW digest, NEW nonces, Finish(f, key, draw, digest, nonces)
      PROVE  CTInv'
  <2>1. UNCHANGED <<outputs, blindings, amounts>>
        /\ (stage' = Raised \/ (stage' = "built" /\ received' = outputs))
    BY <1>2 DEF Finish
  <2>2. BuiltOK'
    BY <2>1 DEF CTInv, BuiltOK
  <2> QED
    BY <2>1, <2>2 DEF CTInv, ArrivedOK, Raised
<1>3. ASSUME NEW i, Alter(i)
      PROVE  CTInv'
  <2>1. PICK other \in Altered(outputs[i]) : received' = [outputs EXCEPT ![i] = other]
    BY <1>3 DEF Alter
  <2>2. UNCHANGED <<outputs, blindings, amounts, stage>> /\ stage = "built" /\ i \in 1..Len(outputs)
    BY <1>3 DEF Alter, CTInv, BuiltOK
  <2>3. BuiltOK'
    BY <2>2 DEF CTInv, BuiltOK
  <2>4. ArrivedOK'
    BY <2>1, <2>2 DEF ArrivedOK
  <2> QED
    BY <2>2, <2>3, <2>4 DEF CTInv
<1>4. CASE ToDict
  <2>1. UNCHANGED <<outputs, blindings, amounts, stage>> /\ stage = "built"
        /\ received' = [i \in DOMAIN outputs |-> [outputs[i] EXCEPT !.proof = Embedded]]
    BY <1>4 DEF ToDict
  <2>2. BuiltOK'
    BY <2>1 DEF CTInv, BuiltOK
  <2>3. ArrivedOK'
    BY <2>1 DEF ArrivedOK
  <2> QED
    BY <2>1, <2>2, <2>3 DEF CTInv
<1>5. CASE Verify
  <2>1. UNCHANGED <<outputs, blindings, amounts, received>> /\ stage = "built" /\ stage' = "verified"
    BY <1>5 DEF Verify
  <2> QED
    BY <2>1 DEF CTInv, BuiltOK, ArrivedOK
<1>6. CASE DecodeAll
  <2>1. UNCHANGED <<outputs, blindings, amounts, received>> /\ stage = "verified" /\ stage' = "decoded"
        /\ decoded' = [i \in DOMAIN received |-> Decode(received[i].commitment, blindings[i])]
    BY <1>6 DEF DecodeAll
  <2> QED
    BY <2>1 DEF CTInv, BuiltOK, ArrivedOK
<1> QED
  BY <1>1, <1>2, <1>3, <1>4, <1>5, <1>6, BuildStep DEF Next

LEMMA CTAlways == Spec => []CTInv
<1>1. Init => CTInv
  <2> SUFFICES ASSUME Init PROVE CTInv
    OBVIOUS
  <2>1. outputs = << >> /\ blindings = << >> /\ amounts = << >> /\ Len(<< >>) = 0
    BY DEF Init
  <2>2. BuiltOK
    BY <2>1 DEF BuiltOK
  <2> QED
    BY <2>2 DEF Init, CTInv
<1>2. CTInv /\ [Next]_vars => CTInv'
  BY CTStep
<1> QED
  BY <1>1, <1>2, PTL DEF Spec

-----------------------------------------------------------------------------
(* What the recipients decode.                                             *)

(* A giant step that ends the search has found the amount: it cannot have  *)
(* gone round the group, since the search is kept below MaxValue.          *)
LEMMA SearchSound ==
  ASSUME NEW v \in Scalar
  PROVE  BSGS(v) = -1 \/ (BSGS(v) = v /\ v <= MaxValue)
<1> DEFINE rest(m) == (v - m * TableSize) % Order
           ends == {m \in 0..(MaxValue \div TableSize + 1) :
                      \/ rest(m) = 0
                      \/ rest(m) < TableSize /\ m * TableSize + rest(m) <= MaxValue}
           first == CHOOSE m \in ends : \A n \in ends : m <= n
<1>1. BSGS(v) = IF ends = {} \/ rest(first) = 0 THEN -1 ELSE first * TableSize + rest(first)
  BY DEF BSGS
<1>2. ASSUME ends # {}
      PROVE  first \in ends
  <2>1. ends \subseteq Nat
    OBVIOUS
  <2> HIDE DEF ends
  <2>2. \E m \in ends : \A n \in ends : m <= n
    BY <1>2, <2>1, NatMin
  <2> QED
    BY <2>2
<1>3. ASSUME NEW m \in Nat, m * TableSize + rest(m) <= MaxValue
      PROVE  m * TableSize + rest(m) = v
  <2>1. PICK t \in Nat : t = m * TableSize
    BY Constants
  <2>2. PICK r \in 0..(Order - 1), q \in Int : r = rest(m) /\ v - t = Order * q + r
    <3>1. v - t \in Int /\ Order \in Nat \ {0}
      BY Constants DEF Scalar
    <3>2. PICK x \in Int : x = v - t
      BY <3>1
    <3>3. \A n \in Nat \ {0} : \A y \in Int :
            y = (n * (y \div n)) + (y % n) /\ y % n \in 0..(n - 1) /\ y \div n \in Int
      OBVIOUS
    <3>4. x = (Order * (x \div Order)) + (x % Order) /\ x % Order \in 0..(Order - 1) /\ x \div Order \in Int
      BY <3>1, <3>2, <3>3
    <3> QED
      BY <2>1, <3>2, <3>4
  <2>3. t + r <= MaxValue /\ MaxValue < Order /\ v \in 0..(Order - 1) /\ Order \in Nat \ {0}
    BY <1>3, <2>1, <2>2, Constants DEF Scalar
  <2>4. v - (t + r) = Order * q /\ Order * q < Order /\ Order * q > 0 - Order
    BY <2>2, <2>3, Constants
  <2>5. q = 0
    BY <2>3, <2>4
  <2> QED
    BY <2>1, <2>2, <2>3, <2>4, <2>5
<1>4. ASSUME ends # {}, rest(first) # 0
      PROVE  first * TableSize + rest(first) = v /\ v <= MaxValue
  <2>1. PICK m : m = first
    OBVIOUS
  <2>2. m \in ends /\ rest(m) # 0
    BY <1>2, <1>4, <2>1
  <2>3. m \in Nat /\ m * TableSize + rest(m) <= MaxValue
    BY <2>2
  <2>4. m * TableSize + rest(m) = v
    BY <1>3, <2>3
  <2> QED
    BY <2>1, <2>3, <2>4
<1> QED
  BY <1>1, <1>4

LEMMA DecodeRight ==
  ASSUME NEW value \in 0..(Power(2, Bits) - 1), value > QuickMax, NEW blinding \in Scalar \ {0}
  PROVE  Decode(Commitment(value, blinding), blinding) \in {value, -1}
<1>1. value \in Scalar /\ value # 0 /\ Order \in Nat \ {0}
  BY Constants DEF Scalar
<1>2. Commitment(value, blinding) = <<blinding, value>>
  BY <1>1 DEF Commitment, Scalar
<1>3. Minus(<<blinding, value>>, <<blinding, 0>>) = <<0, value>>
  BY <1>1 DEF Minus, Scalar
<1>4. <<blinding, value>> # Infinity /\ <<0, value>> # Infinity
  BY <1>1 DEF Infinity
<1>5. Decode(<<blinding, value>>, blinding) = BSGS(value)
  BY <1>3, <1>4, Constants DEF Decode
<1> QED
  BY <1>1, <1>2, <1>5, SearchSound

(* Where the table of small amounts ends, a recipient decodes an amount to *)
(* itself or to nothing, even when the giant steps pass the group's end.   *)
THEOREM DecodedIsSent == Spec => []DecodeSound
<1>1. CTInv => DecodeSound
  <2> SUFFICES ASSUME CTInv, stage = "decoded", NEW i \in DOMAIN outputs,
                      received[i].commitment = outputs[i].commitment, amounts[i] > QuickMax
               PROVE  decoded[i] \in {amounts[i], -1}
    BY DEF DecodeSound
  <2>1. i \in 1..Len(outputs)
    BY DEF CTInv, BuiltOK
  <2>2. i \in DOMAIN received
    BY DEF CTInv, ArrivedOK
  <2>3. decoded[i] = Decode(received[i].commitment, blindings[i])
    BY <2>2 DEF CTInv
  <2>4. /\ outputs[i].commitment = Commitment(amounts[i], blindings[i])
        /\ amounts[i] \in 0..(Power(2, Bits) - 1)
    BY <2>1 DEF CTInv, BuiltOK
  <2>5. blindings[i] \in Scalar \ {0}
    <3>1. PICK S : S = Scalar \ {0}
      OBVIOUS
    <3>2. blindings \in Seq(S) /\ i \in 1..Len(blindings)
      BY <2>1, <3>1 DEF CTInv, BuiltOK
    <3>3. blindings[i] \in S
      BY <3>2
    <3> QED
      BY <3>1, <3>3
  <2> QED
    BY <2>3, <2>4, <2>5, DecodeRight
<1> QED
  BY <1>1, CTAlways, PTL

-----------------------------------------------------------------------------
(* Inverses and the blindings of the bits.                                 *)

(* Order is prime, so what is not a multiple of it has an inverse.         *)
LEMMA InverseIs ==
  ASSUME NEW n \in 1..(Order - 1)
  PROVE  ModInverse(n) \in Scalar /\ (n * ModInverse(n)) % Order = 1
<1>1. \A d \in 1..Order : Order % d = 0 => d \in {1, Order}
  BY ConfidentialAssumption
<1>2. \E x \in 0..(Order - 1) : (n * x) % Order = 1
  BY <1>1, Constants, InverseExists
<1> QED
  BY <1>2 DEF ModInverse, Scalar

LEMMA Solvable ==
  ASSUME NEW p \in 1..(Order - 1), NEW d \in Int
  PROVE  \E x \in Scalar : (x * p - d) % Order = 0
<1>1. Order \in Nat \ {0} /\ Order > 1 /\ p \in Int
  BY Constants
<1>2. PICK u \in Int : u = ModInverse(p) /\ (p * u) % Order = 1
  BY InverseIs DEF Scalar
<1>3. PICK x \in Int : x = (u * d) % Order /\ x \in Scalar
  <2>1. u * d \in Int
    OBVIOUS
  <2> QED
    BY <1>1, <2>1, Division DEF Scalar
<1>4. Congruent(x * p, (u * d) * p, Order)
  <2>1. PICK e \in Int : e = u * d
    OBVIOUS
  <2>2. Congruent(x, e, Order)
    BY <1>1, <1>3, <2>1, CongruentSame
  <2> QED
    BY <1>1, <2>1, <2>2, CongruentProduct
<1>5. Congruent((u * d) * p, d, Order)
  <2>1. PICK e \in Int : e = p * u
    OBVIOUS
  <2>2. PICK one \in Int : one = 1 /\ one % Order = 1
    BY <1>1, RemainderOf
  <2>3. Congruent(e, one, Order)
    BY <1>1, <1>2, <2>1, <2>2, SameRemainder
  <2>4. Congruent(e * d, one * d, Order)
    BY <1>1, <2>1, <2>3, CongruentProduct
  <2>5. (u * d) * p = e * d /\ one * d = d
    BY <1>1, <2>1, <2>2
  <2> QED
    BY <2>4, <2>5
<1>6. PICK a \in Int, b \in Int : a = x * p /\ b = (u * d) * p
  BY <1>1
<1>7. a % Order = d % Order
  <2>1. a % Order = b % Order /\ b % Order = d % Order
    BY <1>1, <1>4, <1>5, <1>6, SameRemainder
  <2> QED
    BY <2>1
<1>8. (a - d) % Order = 0
  <2>1. Congruent(a, d, Order) /\ Congruent(d, d, Order)
    BY <1>1, <1>6, <1>7, SameRemainder, CongruentSame
  <2>2. Congruent(a - d, d - d, Order)
    BY <1>1, <1>6, <2>1, CongruentSum
  <2>3. d - d = 0 /\ 0 % Order = 0 /\ a - d \in Int
    BY <1>1, <1>6, RemainderOf
  <2> QED
    BY <1>1, <2>2, <2>3, SameRemainder
<1> QED
  BY <1>3, <1>6, <1>8

(* No power of two that a range proof uses is a multiple of the order.     *)
LEMMA PlaceOK ==
  /\ \A i \in 1..Bits : Power(2, i - 1) \in Nat \ {0}
  /\ Power(2, Bits - 1) \in 1..(Order - 1)
<1>1. \A i \in 1..Bits : i - 1 \in Nat
  BY Constants
<1>2. \A i \in 1..Bits : Power(2, i - 1) \in Nat \ {0}
  BY <1>1, PowerPositive
<1>3. Bits \in 1..Bits /\ Bits - 1 \in Nat /\ (Bits - 1) + 1 = Bits
  BY Constants
<1>4. Power(2, Bits) = 2 * Power(2, Bits - 1)
  BY <1>3, PowerSteps
<1> QED
  BY <1>2, <1>3, <1>4, Constants

(* What the blindings of the bits add up to before the last.               *)
Running(free) == Total([i \in 1..(Bits - 1) |-> free[i] * Power(2, i - 1)])

LEMMA RunningTyped ==
  ASSUME NEW free \in [1..(Bits - 1) -> Random]
  PROVE  /\ Running(free) \in Int
         /\ Running(free) = SumOver([i \in 1..(Bits - 1) |-> free[i] * Power(2, i - 1)], 1..(Bits - 1))
<1> DEFINE S == 1..(Bits - 1)
           f == [i \in S |-> free[i] * Power(2, i - 1)]
<1>1. IsFiniteSet(S)
  BY Constants, FS_Interval
<1>2. \A i \in S : f[i] \in Int
  <2>1. \A i \in S : i \in 1..Bits /\ free[i] \in Random
    BY Constants
  <2>2. \A x \in Random : x \in Int
    BY Constants DEF Scalar
  <2>3. ASSUME NEW i \in S
        PROVE  free[i] * Power(2, i - 1) \in Int
    <3>1. PICK a \in Int, b \in Int : a = free[i] /\ b = Power(2, i - 1)
      BY <2>1, <2>2, PlaceOK
    <3> QED
      BY <3>1
  <2> QED
    BY <2>3
<1>3. DOMAIN f = S
  OBVIOUS
<1> HIDE DEF f, S
<1>4. Total(f) = SumOver(f, S)
  BY <1>1, <1>3, TotalIsSum
<1>5. SumOver(f, S) \in Int
  BY <1>1, <1>2, SumAdds
<1> QED
  BY <1>4, <1>5 DEF Running, f, S

LEMMA BlindingsOK ==
  ASSUME NEW total \in Int, NEW free \in [1..(Bits - 1) -> Random]
  PROVE  /\ BitBlindings(total, free) \in [1..Bits -> Scalar]
         /\ \A i \in 1..(Bits - 1) : BitBlindings(total, free)[i] = free[i]
         /\ (BitBlindings(total, free)[Bits] * Power(2, Bits - 1) - (total - Running(free))) % Order = 0
<1> DEFINE last == CHOOSE x \in Scalar : (x * Power(2, Bits - 1) - (total - Running(free))) % Order = 0
<1>1. last \in Scalar /\ (last * Power(2, Bits - 1) - (total - Running(free))) % Order = 0
  <2>1. total - Running(free) \in Int
    <3>1. Running(free) \in Int
      BY RunningTyped
    <3> QED
      BY <3>1
  <2>2. \E x \in Scalar : (x * Power(2, Bits - 1) - (total - Running(free))) % Order = 0
    BY <2>1, PlaceOK, Solvable
  <2> QED
    BY <2>2
<1>2. BitBlindings(total, free) = [i \in 1..Bits |-> IF i < Bits THEN free[i] ELSE last]
  BY DEF BitBlindings, Running
<1> HIDE DEF last
<1>3. \A i \in 1..(Bits - 1) : i \in 1..Bits /\ i < Bits /\ free[i] \in Scalar
  BY Constants
<1>4. \A i \in 1..Bits : i < Bits => i \in 1..(Bits - 1)
  BY Constants
<1>5. Bits \in 1..Bits /\ ~(Bits < Bits)
  BY Constants
<1> QED
  BY <1>1, <1>2, <1>3, <1>4, <1>5

-----------------------------------------------------------------------------
(* Types.                                                                  *)

LEMMA BitTyped ==
  ASSUME NEW value \in Nat, NEW i \in 1..Bits
  PROVE  Bit(value, i) \in {0, 1}
<1>1. PICK p \in Nat \ {0} : p = Power(2, i - 1)
  BY PlaceOK
<1>2. PICK q \in Nat : q = value \div p
  <2>1. \A n \in Nat \ {0}, v \in Nat : v \div n \in Nat
    OBVIOUS
  <2> QED
    BY <1>1, <2>1
<1>3. q % 2 \in {0, 1}
  OBVIOUS
<1> QED
  BY <1>1, <1>2, <1>3 DEF Bit

(* What Schnorr signatures answer is a scalar.                             *)
LEMMA ResponseTyped == \A k \in Int, e \in Int, r \in Int : (k + e * r) % Order \in Scalar
<1> SUFFICES ASSUME NEW k \in Int, NEW e \in Int, NEW r \in Int
             PROVE  (k + e * r) % Order \in Scalar
  OBVIOUS
<1>1. PICK x \in Int : x = k + e * r
  OBVIOUS
<1> QED
  BY <1>1, Constants, Division DEF Scalar

LEMMA ScalarsAreNumbers == Scalar \subseteq Nat /\ Scalar \subseteq Int /\ 0 \in Scalar
BY Constants DEF Scalar

LEMMA CommitmentUsable ==
  ASSUME NEW value \in Nat, NEW blinding \in Scalar \ {0}
  PROVE  Commitment(value, blinding) \in Point \ {Infinity}
<1>1. blinding % Order = blinding /\ blinding # 0
  BY Constants, RemainderOf DEF Scalar
<1> QED
  BY <1>1, CommitmentTyped DEF Commitment, Infinity

LEMMA ProofTyped ==
  ASSUME NEW value \in Nat, NEW total \in Scalar \ {0}, NEW free \in [1..(Bits - 1) -> Random],
         NEW k \in Scalar, NEW e \in Random
  PROVE  Proof(value, total, [i \in 1..Bits |-> Bit(value, i)], free, k, e)
           \in ProofData([1..Bits -> BitProof])
<1> DEFINE r == BitBlindings(total, free)
           bit == [i \in 1..Bits |-> Bit(value, i)]
           B(i) == [commitment |-> Commitment(bit[i], r[i]), bit |-> bit[i],
                    nonce |-> <<k, 0>>, challenge |-> e, response |-> (k + e * r[i]) % Order]
<1>1. r \in [1..Bits -> Scalar]
  BY BlindingsOK, ScalarsAreNumbers
<1>2. \A i \in 1..Bits : bit[i] \in Nat
  BY BitTyped
<1> HIDE DEF r, bit
<1>3. ASSUME NEW i \in 1..Bits
      PROVE  B(i) \in BitProof
  <2>1. r[i] \in Scalar /\ bit[i] \in Nat
    BY <1>1, <1>2
  <2>2. Commitment(bit[i], r[i]) \in Point
    BY <2>1, CommitmentTyped
  <2>3. <<k, 0>> \in Point /\ e \in Scalar
    BY Constants, ScalarsAreNumbers DEF Point
  <2>4. (k + e * r[i]) % Order \in Scalar
    BY <2>1, <2>3, ResponseTyped, ScalarsAreNumbers
  <2> QED
    BY <2>1, <2>2, <2>3, <2>4 DEF BitProof
<1>4. Proof(value, total, bit, free, k, e)
        = [form |-> "RangeProofData", whole |-> Commitment(value, total), bits |-> [i \in 1..Bits |-> B(i)]]
  BY DEF Proof, r
<1> HIDE DEF B
<1>5. [i \in 1..Bits |-> B(i)] \in [1..Bits -> BitProof]
  BY <1>3
<1>6. Commitment(value, total) \in Point \ {Infinity}
  BY CommitmentUsable
<1>7. PICK whole, bits : whole = Commitment(value, total) /\ bits = [i \in 1..Bits |-> B(i)]
  OBVIOUS
<1>8. PICK W, S : W = Point \ {Infinity} /\ S = [1..Bits -> BitProof]
  OBVIOUS
<1>9. whole \in W /\ bits \in S
  BY <1>5, <1>6, <1>7, <1>8
<1>10. Proof(value, total, bit, free, k, e) \in [form : {"RangeProofData"}, whole : W, bits : S]
  BY <1>4, <1>7, <1>9
<1> QED
  BY <1>8, <1>10 DEF bit, ProofData

LEMMA AbscissaTyped == \A k \in 1..(Order - 1) : Abscissa[k] \in Int
<1>1. Abscissa \in [1..(Order - 1) -> Nat]
  BY ConfidentialAssumption
<1> QED
  BY <1>1

LEMMA SignatureTyped ==
  /\ \A key \in Keys \ {0}, digest \in Random, nonces \in Nonces :
       Sign(key, digest, nonces) \in Signature
  /\ \A excess \in Int, k \in Scalar, e \in Random : SignExcess(excess, k, e) \in Signature
<1>1. ASSUME NEW key \in Keys \ {0}, NEW digest \in Random, NEW nonces \in Nonces
      PROVE  Sign(key, digest, nonces) \in Signature
  <2>1. PICK k \in 1..(Order - 1) :
          k = IF Abscissa[nonces[1]] % Order = 0 THEN nonces[2] ELSE nonces[1]
    BY ConfidentialAssumption
  <2>2. PICK r \in Scalar : r = Abscissa[k] % Order
    <3>1. Abscissa[k] \in Int
      BY AbscissaTyped
    <3> QED
      BY <3>1, Constants, Division DEF Scalar
  <2>3. PICK s \in Scalar : s = (ModInverse(k) * (digest + r * key)) % Order
    <3>1. PICK a \in Int, b \in Int : a = ModInverse(k) /\ b = digest + r * key
      <4>1. digest \in Int /\ r \in Int /\ key \in Int
        BY Constants, ScalarsAreNumbers, ConfidentialAssumption
      <4>2. ModInverse(k) \in Int
        BY InverseIs, ScalarsAreNumbers
      <4> QED
        BY <4>1, <4>2
    <3>2. a * b \in Int
      OBVIOUS
    <3> QED
      BY <3>1, <3>2, Constants, Division DEF Scalar
  <2>4. (IF s > Order \div 2 THEN Order - s ELSE s) \in Scalar
    <3>1. \A n \in Nat \ {0} : n \div 2 \in Nat
      OBVIOUS
    <3> QED
      BY <3>1, Constants DEF Scalar
  <2>5. Sign(key, digest, nonces)
          = [scheme |-> "ecdsa", key |-> key, digest |-> digest,
             r |-> r, s |-> IF s > Order \div 2 THEN Order - s ELSE s]
    BY <2>1, <2>2, <2>3 DEF Sign
  <2> QED
    BY <2>2, <2>4, <2>5 DEF Signature
<1>2. ASSUME NEW excess \in Int, NEW k \in Scalar, NEW e \in Random
      PROVE  SignExcess(excess, k, e) \in Signature
  <2>1. (k + e * excess) % Order \in Scalar
    BY Constants, ResponseTyped, ScalarsAreNumbers
  <2>2. <<k, 0>> \in Point
    BY ScalarsAreNumbers DEF Point
  <2> QED
    BY <2>1, <2>2 DEF SignExcess, Signature
<1> QED
  BY <1>1, <1>2

LEMMA DecodeTyped ==
  ASSUME NEW commitment \in Point, NEW blinding \in Scalar
  PROVE  Decode(commitment, blinding) \in 0..MaxValue \cup {-1}
<1>1. PICK u \in Scalar, v \in Scalar : Minus(commitment, <<blinding, 0>>) = <<u, v>>
  <2>1. PICK a \in Int, b \in Int, c \in Int :
          a = commitment[1] - blinding /\ b = commitment[2] - 0 /\ c = Order /\ c \in Nat \ {0}
    <3>1. commitment[1] \in Scalar /\ commitment[2] \in Scalar
      BY DEF Point
    <3>2. commitment[1] \in Int /\ commitment[2] \in Int /\ blinding \in Int
      BY <3>1, ScalarsAreNumbers
    <3> QED
      BY <3>2, Constants
  <2>2. a % c \in Scalar /\ b % c \in Scalar
    BY <2>1, Division DEF Scalar
  <2>3. Minus(commitment, <<blinding, 0>>) = <<a % c, b % c>>
    BY <2>1 DEF Minus
  <2> QED
    BY <2>2, <2>3
<1>2. BSGS(v) \in 0..MaxValue \cup {-1}
  BY SearchSound, ScalarsAreNumbers, Constants
<1>3. v # 0 /\ v <= QuickMax => v - 1 \in 0..MaxValue
  BY ScalarsAreNumbers, ConfidentialAssumption
<1>4. 0 \in 0..MaxValue
  BY Constants
<1>5. Decode(commitment, blinding) =
        IF blinding = 0 \/ commitment = Infinity \/ u # 0 THEN -1
        ELSE IF <<u, v>> = Infinity THEN 0
        ELSE IF v <= QuickMax THEN v - 1 ELSE BSGS(v)
  BY <1>1 DEF Decode
<1>6. u = 0 /\ <<u, v>> # Infinity => v # 0
  BY DEF Infinity
<1> QED
  BY <1>2, <1>3, <1>4, <1>5, <1>6

LEMMA ExcessTyped ==
  ASSUME spent \in Inputs, blindings \in Seq(Scalar \ {0})
  PROVE  /\ Excess \in Int
         /\ \A i \in DOMAIN spent : spent[i][1] \in Int /\ spent[i][2] \in Int
         /\ IsFiniteSet(DOMAIN spent)
         /\ Total([i \in DOMAIN spent |-> spent[i][2]])
              = SumOver([i \in DOMAIN spent |-> spent[i][2]], DOMAIN spent)
         /\ Total([i \in DOMAIN spent |-> spent[i][2]]) \in Int
         /\ Total(blindings) = SumOver(blindings, 1..Len(blindings)) /\ Total(blindings) \in Int
<1>1. DOMAIN spent = 1..Len(spent) /\ DOMAIN blindings = 1..Len(blindings)
      /\ Len(spent) \in Nat /\ Len(blindings) \in Nat
  BY ConfidentialAssumption
<1>2. IsFiniteSet(DOMAIN spent) /\ IsFiniteSet(DOMAIN blindings)
  BY <1>1, FS_Interval
<1>3. ASSUME NEW i \in DOMAIN spent
      PROVE  spent[i][1] \in Int /\ spent[i][2] \in Int
  <2>1. spent[i] \in Nat \X (0..(Order - 1))
    BY ConfidentialAssumption
  <2> QED
    BY <2>1, Constants
<1>4. \A i \in DOMAIN blindings : blindings[i] \in Int
  <2>1. \A i \in DOMAIN blindings : blindings[i] \in Scalar
    BY <1>1
  <2> QED
    BY <2>1, ScalarsAreNumbers
<1>5. Total(blindings) = SumOver(blindings, DOMAIN blindings) /\ Total(blindings) \in Int
  <2>1. Total(blindings) = SumOver(blindings, DOMAIN blindings)
    BY <1>2, TotalIsSum
  <2> QED
    BY <1>2, <1>4, <2>1, SumAdds
<1>6. PICK f : f = [i \in DOMAIN spent |-> spent[i][2]]
  OBVIOUS
<1>7. Total(f) = SumOver(f, DOMAIN spent) /\ Total(f) \in Int
  <2>1. DOMAIN f = DOMAIN spent /\ \A i \in DOMAIN spent : f[i] \in Int
    BY <1>3, <1>6
  <2>2. Total(f) = SumOver(f, DOMAIN f)
    BY <1>2, <2>1, TotalIsSum
  <2> QED
    BY <1>2, <2>1, <2>2, SumAdds
<1>8. Excess \in Int
  <2>1. PICK a \in Int : a = Total(f) - Total(blindings)
    BY <1>5, <1>7
  <2>2. Excess = a % Order
    BY <1>6, <2>1 DEF Excess
  <2> QED
    BY <2>1, <2>2, Constants, Division
<1> QED
  BY <1>1, <1>2, <1>3, <1>5, <1>6, <1>7, <1>8

LEMMA SequenceOfMore ==
  ASSUME NEW T, NEW U, T \subseteq U, NEW s \in Seq(T)
  PROVE  s \in Seq(U)
<1>1. Len(s) \in Nat /\ s = [i \in 1..Len(s) |-> s[i]] /\ \A i \in 1..Len(s) : s[i] \in U
  OBVIOUS
<1>2. PICK n \in Nat : n = Len(s)
  BY <1>1
<1>3. PICK f : f = [i \in 1..n |-> s[i]]
  OBVIOUS
<1>4. f \in [1..n -> U]
  BY <1>1, <1>2, <1>3
<1>5. f \in Seq(U)
  BY <1>4
<1> QED
  BY <1>1, <1>2, <1>3, <1>5

(* What was built can arrive, and so can what it is altered to.            *)
LEMMA DroppedTyped ==
  ASSUME NEW output \in Output, NEW form \in {Missing, Stub, Embedded}
  PROVE  [output EXCEPT !.proof = form] \in Arrived
<1>1. PICK C, P : /\ C = Point \ {Infinity}
                  /\ P = ProofData(Seq(BitProof)) \cup {Missing, Stub, Embedded}
  OBVIOUS
<1>2. output.commitment \in C /\ form \in P
  BY <1>1 DEF Output
<1>3. [output EXCEPT !.proof = form] = [commitment |-> output.commitment, proof |-> form]
  BY DEF Output
<1> QED
  BY <1>1, <1>2, <1>3 DEF Arrived

LEMMA ProofArrives ==
  ASSUME NEW whole \in Point \ {Infinity}, NEW n \in Nat, NEW bits \in [1..n -> BitProof],
         NEW commitment \in Point \ {Infinity}
  PROVE  [commitment |-> commitment, proof |-> [form |-> "RangeProofData", whole |-> whole, bits |-> bits]]
           \in Arrived
<1>1. PICK C, B : C = Point \ {Infinity} /\ B = BitProof
  OBVIOUS
<1>2. bits \in Seq(B) /\ whole \in C /\ commitment \in C
  BY <1>1
<1>3. PICK S : S = Seq(B)
  OBVIOUS
<1>4. [form |-> "RangeProofData", whole |-> whole, bits |-> bits] \in ProofData(S)
  BY <1>1, <1>2, <1>3 DEF ProofData
<1>5. PICK P, proof : /\ P = ProofData(S) \cup {Missing, Stub, Embedded}
                      /\ proof = [form |-> "RangeProofData", whole |-> whole, bits |-> bits]
  OBVIOUS
<1>6. [commitment |-> commitment, proof |-> proof] \in [commitment : C, proof : P]
  BY <1>2, <1>4, <1>5
<1> QED
  BY <1>1, <1>3, <1>5, <1>6 DEF Arrived

(* The fields of an output.                                                *)
LEMMA OutputIs ==
  ASSUME NEW output \in Output
  PROVE  /\ output.commitment \in Point \ {Infinity} /\ output.proof.whole \in Point \ {Infinity}
         /\ output.proof.bits \in [1..Bits -> BitProof] /\ output.proof.form = "RangeProofData"
         /\ output.proof
              = [form |-> "RangeProofData", whole |-> output.proof.whole, bits |-> output.proof.bits]
         /\ output = [commitment |-> output.commitment, proof |-> output.proof]
<1>1. PICK C, S : C = Point \ {Infinity} /\ S = [1..Bits -> BitProof]
  OBVIOUS
<1>2. output \in [commitment : C, proof : [form : {"RangeProofData"}, whole : C, bits : S]]
  BY <1>1 DEF Output, ProofData
<1> QED
  BY <1>1, <1>2

LEMMA SentArrives == Seq(Output) \subseteq Seq(Arrived)
<1>1. ASSUME NEW output \in Output
      PROVE  output \in Arrived
  <2>1. /\ output.commitment \in Point \ {Infinity} /\ output.proof.whole \in Point \ {Infinity}
        /\ output.proof.bits \in [1..Bits -> BitProof] /\ Bits \in Nat
    BY Constants, OutputIs
  <2>2. output = [commitment |-> output.commitment,
                  proof |-> [form |-> "RangeProofData", whole |-> output.proof.whole,
                             bits |-> output.proof.bits]]
    BY OutputIs
  <2>3. PICK c, w, b : c = output.commitment /\ w = output.proof.whole /\ b = output.proof.bits
    OBVIOUS
  <2> QED
    BY <2>1, <2>2, <2>3, ProofArrives
<1>2. Output \subseteq Arrived
  BY <1>1
<1> QED
  BY <1>2, SequenceOfMore

LEMMA BitAlteredTyped ==
  ASSUME NEW b \in BitProof
  PROVE  AlteredBit(b) \subseteq BitProof
<1>1. Others \subseteq Point /\ Random \subseteq Scalar
  BY ConfidentialAssumption, Constants DEF Point, Scalar
<1>2. PICK P, S : P = Point /\ S = Scalar /\ Others \subseteq P /\ Random \subseteq S
  BY <1>1
<1>3. BitProof = [commitment : P, bit : Nat, nonce : P, challenge : S, response : S]
  BY <1>2 DEF BitProof
<1> QED
  BY <1>2, <1>3 DEF AlteredBit

LEMMA AlteredTyped ==
  ASSUME NEW output \in Output
  PROVE  Altered(output) \subseteq Arrived
<1> SUFFICES ASSUME NEW other \in Altered(output)
             PROVE  other \in Arrived
  OBVIOUS
<1>1. PICK c, w, bits : c = output.commitment /\ w = output.proof.whole /\ bits = output.proof.bits
  OBVIOUS
<1>2. /\ c \in Point \ {Infinity} /\ w \in Point \ {Infinity} /\ bits \in [1..Bits -> BitProof]
      /\ output = [commitment |-> c, proof |-> [form |-> "RangeProofData", whole |-> w, bits |-> bits]]
      /\ Bits \in Nat /\ Bits - 1 \in Nat /\ 1..(Bits - 1) \subseteq 1..Bits
  <2>1. Bits \in Nat /\ Bits - 1 \in Nat /\ 1..(Bits - 1) \subseteq 1..Bits
    BY Constants
  <2>2. c \in Point \ {Infinity} /\ w \in Point \ {Infinity} /\ bits \in [1..Bits -> BitProof]
    BY <1>1, OutputIs
  <2>3. output = [commitment |-> c, proof |-> [form |-> "RangeProofData", whole |-> w, bits |-> bits]]
    BY <1>1, OutputIs
  <2> QED
    BY <2>1, <2>2, <2>3
<1>3. Others \subseteq Point \ {Infinity}
  BY ConfidentialAssumption DEF Point, Scalar, Infinity
<1>4. ASSUME NEW p \in Others, other = [output EXCEPT !.commitment = p]
      PROVE  other \in Arrived
  <2>1. other = [commitment |-> p, proof |-> [form |-> "RangeProofData", whole |-> w, bits |-> bits]]
    BY <1>2, <1>4
  <2> QED
    BY <1>2, <1>3, <2>1, ProofArrives
<1>5. ASSUME NEW q \in AlteredProof(output.proof), other = [output EXCEPT !.proof = q]
      PROVE  other \in Arrived
  <2>1. other = [commitment |-> c, proof |-> q]
    BY <1>2, <1>5
  <2>2. CASE q \in {Missing, Stub, Embedded}
    BY <1>5, <2>2, DroppedTyped
  <2>3. ASSUME NEW p \in Others, q = [output.proof EXCEPT !.whole = p]
        PROVE  other \in Arrived
    <3>1. q = [form |-> "RangeProofData", whole |-> p, bits |-> bits]
      BY <1>2, <2>3
    <3> QED
      BY <1>2, <1>3, <2>1, <3>1, ProofArrives
  <2>4. CASE q = [output.proof EXCEPT !.bits = [j \in 1..(Bits - 1) |-> @[j]]]
    <3>1. PICK less : less = [j \in 1..(Bits - 1) |-> bits[j]]
      OBVIOUS
    <3>2. q = [form |-> "RangeProofData", whole |-> w, bits |-> less]
      BY <1>2, <2>4, <3>1
    <3>3. less \in [1..(Bits - 1) -> BitProof]
      BY <1>2, <3>1
    <3> QED
      BY <1>2, <2>1, <3>2, <3>3, ProofArrives
  <2>5. ASSUME NEW j \in 1..Bits, NEW b \in AlteredBit(output.proof.bits[j]),
               q = [output.proof EXCEPT !.bits[j] = b]
        PROVE  other \in Arrived
    <3>1. b \in BitProof
      BY <1>1, <1>2, BitAlteredTyped
    <3>2. PICK new : new = [bits EXCEPT ![j] = b]
      OBVIOUS
    <3>3. q = [form |-> "RangeProofData", whole |-> w, bits |-> new]
      BY <1>2, <2>5, <3>2
    <3>4. new \in [1..Bits -> BitProof]
      BY <1>2, <3>1, <3>2
    <3> QED
      BY <1>2, <2>1, <3>3, <3>4, ProofArrives
  <2> QED
    BY <1>5, <2>2, <2>3, <2>4, <2>5 DEF AlteredProof
<1> QED
  BY <1>4, <1>5 DEF Altered

LEMMA TypeStep ==
  ASSUME TypeOK, [Next]_vars
  PROVE  TypeOK'
<1>1. CASE UNCHANGED vars
  BY <1>1 DEF vars, TypeOK
<1>2. ASSUME NEW value \in Amounts, NEW draw \in Random, NEW k \in Random, NEW e \in Random,
             NEW free \in [1..(Bits - 1) -> Random], BuildOutput(value, draw, free, k, e)
      PROVE  TypeOK'
  <2> DEFINE blinding == NonZero(draw)
             proof == CreateProof(value, blinding, free, NonZero(k), e)
             output == [commitment |-> Commitment(value, blinding), proof |-> proof]
  <2>1. CASE proof = Missing
    BY <1>2, <2>1 DEF BuildOutput, TypeOK, Raised
  <2>2. CASE proof # Missing
    <3>1. blinding \in Scalar \ {0} /\ NonZero(k) \in Scalar /\ value \in Nat
      BY Constants, NonZeroTyped
    <3>2. proof \in ProofData([1..Bits -> BitProof])
      <4>1. proof = Proof(value, blinding, [i \in 1..Bits |-> Bit(value, i)], free, NonZero(k), e)
        BY <2>2 DEF CreateProof
      <4> HIDE DEF blinding, proof
      <4> QED
        BY <3>1, <4>1, ProofTyped
    <3>3. Commitment(value, blinding) \in Point \ {Infinity}
      BY <3>1, CommitmentUsable
    <3>4. /\ outputs' = Append(outputs, output) /\ blindings' = Append(blindings, blinding)
          /\ amounts' = Append(amounts, value)
          /\ UNCHANGED <<stage, spent, fee, signature, received, verdict, decoded>>
          /\ stage = "building"
      BY <1>2, <2>2 DEF BuildOutput
    <3> HIDE DEF blinding, proof
    <3>5. output \in Output
      BY <3>2, <3>3 DEF Output
    <3> HIDE DEF output
    <3>6. PICK S : S = Output
      OBVIOUS
    <3>7. outputs' \in Seq(S) /\ Len(outputs') = Len(outputs) + 1
      <4>1. outputs \in Seq(S) /\ output \in S
        BY <3>5, <3>6 DEF TypeOK
      <4> QED
        BY <3>4, <4>1
    <3>8. /\ blindings' \in Seq(Scalar \ {0}) /\ Len(blindings') = Len(blindings) + 1
          /\ amounts' \in Seq(Amounts) /\ Len(amounts') = Len(amounts) + 1
      BY <3>1, <3>4 DEF TypeOK
    <3> QED
      BY <3>4, <3>6, <3>7, <3>8 DEF TypeOK
  <2> QED
    BY <2>1, <2>2
<1>3. ASSUME NEW f \in Amounts, NEW key \in Keys, NEW draw \in Random, NEW digest \in Random,
             NEW nonces \in Nonces, Finish(f, key, draw, digest, nonces)
      PROVE  TypeOK'
  <2>1. Excess \in Int
    BY ExcessTyped DEF TypeOK
  <2>2. NonZero(draw) \in Scalar
    BY Constants, NonZeroTyped
  <2>3. signature' \in Signature
    <3>1. CASE UNCHANGED signature
      BY <3>1 DEF TypeOK
    <3>2. CASE key # 0 /\ signature' = Sign(key, digest, nonces)
      BY <3>2, SignatureTyped
    <3>3. CASE signature' = SignExcess(Excess, NonZero(draw), digest)
      BY <2>1, <2>2, <3>3, SignatureTyped
    <3> QED
      BY <1>3, <3>1, <3>2, <3>3 DEF Finish
  <2>4. fee' \in Amounts \cup {0}
    BY <1>3 DEF Finish, TypeOK
  <2>5. stage' \in {"built", Raised}
    BY <1>3 DEF Finish
  <2>6. received' \in Seq(Arrived) /\ (stage' = "built" => Len(received') = Len(outputs'))
    BY <1>3, SentArrives DEF Finish, TypeOK, Raised
  <2> QED
    BY <1>3, <2>3, <2>4, <2>5, <2>6 DEF Finish, TypeOK, Raised
<1>4. ASSUME NEW i \in 1..MaxOutputs, Alter(i)
      PROVE  TypeOK'
  <2>1. PICK other \in Altered(outputs[i]) : received' = [outputs EXCEPT ![i] = other]
    BY <1>4 DEF Alter
  <2>2. PICK S : S = Output
    OBVIOUS
  <2>3. outputs \in Seq(S) /\ i \in DOMAIN outputs
    BY <1>4, <2>2 DEF TypeOK, Alter
  <2>4. outputs[i] \in Output
    BY <2>2, <2>3
  <2>5. PICK T : T = Arrived
    OBVIOUS
  <2>6. outputs \in Seq(T) /\ other \in T
    BY <2>1, <2>4, <2>5, AlteredTyped, SentArrives DEF TypeOK
  <2>7. received' \in Seq(T) /\ Len(received') = Len(outputs)
    <3>1. PICK n \in Nat : n = Len(outputs)
      BY <2>3
    <3>2. outputs \in [1..n -> T] /\ i \in 1..n
      BY <2>3, <2>6, <3>1
    <3>3. PICK new : new = [outputs EXCEPT ![i] = other]
      OBVIOUS
    <3>4. new \in [1..n -> T]
      BY <2>6, <3>2, <3>3
    <3>5. new \in Seq(T) /\ Len(new) = n
      BY <3>4
    <3> QED
      BY <2>1, <3>1, <3>3, <3>5
  <2> QED
    BY <1>4, <2>5, <2>7 DEF Alter, TypeOK
<1>7. CASE ToDict
  <2>1. PICK S : S = Output
    OBVIOUS
  <2>2. outputs \in Seq(S) /\ DOMAIN outputs = 1..Len(outputs) /\ Len(outputs) \in Nat
        /\ \A i \in DOMAIN outputs : outputs[i] \in S
    BY <2>1 DEF TypeOK
  <2>3. \A i \in DOMAIN outputs : [outputs[i] EXCEPT !.proof = Embedded] \in Arrived
    BY <2>1, <2>2, DroppedTyped
  <2>4. PICK T : T = Arrived
    OBVIOUS
  <2>5. received' \in Seq(T) /\ Len(received') = Len(outputs)
    <3>1. PICK f : f = [i \in DOMAIN outputs |-> [outputs[i] EXCEPT !.proof = Embedded]]
      OBVIOUS
    <3>2. f \in [1..Len(outputs) -> T]
      BY <2>2, <2>3, <2>4, <3>1
    <3>3. f \in Seq(T) /\ Len(f) = Len(outputs)
      BY <2>2, <3>2
    <3> QED
      BY <1>7, <3>1, <3>3 DEF ToDict
  <2> QED
    BY <1>7, <2>4, <2>5 DEF ToDict, TypeOK
<1>5. CASE Verify
  <2>1. /\ BalanceOK(InCommitments, OutCommitments(received)) \in BOOLEAN
        /\ RangesOK(received) \in BOOLEAN
    BY DEF BalanceOK, RangesOK
  <2>2. verdict' \in [balance : BOOLEAN, range : BOOLEAN]
    BY <1>5, <2>1 DEF Verify
  <2> QED
    BY <1>5, <2>2 DEF Verify, TypeOK
<1>6. CASE DecodeAll
  <2>1. PICK S : S = Arrived
    OBVIOUS
  <2>2. received \in Seq(S) /\ DOMAIN received = 1..Len(received) /\ Len(received) \in Nat
        /\ \A i \in DOMAIN received : received[i] \in S
    BY <2>1 DEF TypeOK
  <2>3. \A i \in DOMAIN received :
          Decode(received[i].commitment, blindings[i]) \in 0..MaxValue \cup {-1}
    <3>1. \A i \in DOMAIN received : received[i].commitment \in Point
      BY <2>1, <2>2 DEF Arrived
    <3>2. \A i \in DOMAIN received : blindings[i] \in Scalar
      <4>1. PICK N : N = Scalar \ {0}
        OBVIOUS
      <4>2. blindings \in Seq(N) /\ DOMAIN received = 1..Len(blindings)
        BY <1>6, <2>2, <4>1 DEF DecodeAll, TypeOK
      <4> QED
        BY <4>1, <4>2
    <3> QED
      BY <3>1, <3>2, DecodeTyped
  <2>4. PICK D : D = 0..MaxValue \cup {-1}
    OBVIOUS
  <2>5. decoded' \in Seq(D)
    BY <1>6, <2>2, <2>3, <2>4 DEF DecodeAll
  <2> QED
    BY <1>6, <2>4, <2>5 DEF DecodeAll, TypeOK
<1> QED
  BY <1>1, <1>2, <1>3, <1>4, <1>5, <1>6, <1>7 DEF Next

(* Whatever is drawn, what the engine makes of it can be encoded: no draw, *)
(* blinding of a bit, response or signature is out of the group's range,   *)
(* no commitment of an output is at infinity, and a recipient decodes to   *)
(* an amount or to nothing.                                                *)
THEOREM TypeCorrect == Spec => []TypeOK
<1>1. Init => TypeOK
  <2> SUFFICES ASSUME Init PROVE TypeOK
    OBVIOUS
  <2>1. \A S : << >> \in Seq(S)
    OBVIOUS
  <2>2. outputs \in Seq(Output) /\ blindings \in Seq(Scalar \ {0}) /\ amounts \in Seq(Amounts)
        /\ decoded \in Seq(0..MaxValue \cup {-1})
    BY <2>1 DEF Init
  <2>3. Len(blindings) = Len(outputs) /\ Len(amounts) = Len(outputs)
    BY DEF Init
  <2>4. signature \in Signature
    BY DEF Init, Signature
  <2> QED
    BY <2>2, <2>3, <2>4 DEF Init, TypeOK
<1>2. TypeOK /\ [Next]_vars => TypeOK'
  BY TypeStep
<1> QED
  BY <1>1, <1>2, PTL DEF Spec


-----------------------------------------------------------------------------
(* Balance: what the commitments of a transaction add up to.               *)

LEMMA SumOfCommitments ==
  ASSUME NEW points, IsFiniteSet(DOMAIN points), NEW values, NEW factors,
         \A i \in DOMAIN points : /\ values[i] \in Int /\ factors[i] \in Int
                               /\ points[i] = Commitment(values[i], factors[i])
  PROVE  SumOf(points)
           = <<SumOver(factors, DOMAIN points) % Order, SumOver(values, DOMAIN points) % Order>>
<1> DEFINE S == DOMAIN points
<1>1. PICK xs, ys : xs = [i \in S |-> factors[i] % Order] /\ ys = [i \in S |-> values[i] % Order]
  OBVIOUS
<1>2. \A i \in S : xs[i] = factors[i] % Order /\ ys[i] = values[i] % Order
  BY <1>1
<1>3. \A i \in S : /\ xs[i] \in Int /\ Congruent(xs[i], factors[i], Order)
                   /\ ys[i] \in Int /\ Congruent(ys[i], values[i], Order)
  <2>1. Order \in Nat \ {0}
    BY Constants
  <2>2. ASSUME NEW x \in Int
        PROVE  x % Order \in Int /\ Congruent(x % Order, x, Order)
    <3>1. x % Order \in 0..(Order - 1)
      BY <2>1, Division
    <3>2. Congruent(x % Order, x, Order)
      BY <2>1, CongruentSame
    <3> QED
      BY <2>1, <3>1, <3>2
  <2> QED
    BY <1>2, <2>2
<1>4. \A i \in S : xs[i] \in Int /\ ys[i] \in Int /\ points[i] = <<xs[i], ys[i]>>
  BY <1>2, <1>3 DEF Commitment
<1>5. SumOf(points) = <<SumOver(xs, S) % Order, SumOver(ys, S) % Order>>
  <2>1. Order \in Nat \ {0}
    BY Constants
  <2> QED
    BY <1>4, <2>1, SumOfIsSums
<1>6. /\ Congruent(SumOver(xs, S), SumOver(factors, S), Order)
      /\ Congruent(SumOver(ys, S), SumOver(values, S), Order)
  BY <1>3, Constants, SumsCongruent
<1>7. /\ SumOver(xs, S) \in Int /\ SumOver(factors, S) \in Int
      /\ SumOver(ys, S) \in Int /\ SumOver(values, S) \in Int
  BY <1>3, SumAdds
<1>8. /\ SumOver(xs, S) % Order = SumOver(factors, S) % Order
      /\ SumOver(ys, S) % Order = SumOver(values, S) % Order
  BY <1>6, <1>7, Constants, SameRemainder
<1> QED
  BY <1>5, <1>8

LEMMA TotalsTyped ==
  ASSUME TypeOK
  PROVE  /\ Total([i \in DOMAIN spent |-> spent[i][1]]) \in Nat
         /\ Total([i \in DOMAIN spent |-> spent[i][1]])
              = SumOver([i \in DOMAIN spent |-> spent[i][1]], DOMAIN spent)
         /\ Total(amounts) \in Nat /\ Total(amounts) = SumOver(amounts, 1..Len(amounts))
<1>1. spent \in Inputs /\ blindings \in Seq(Scalar \ {0}) /\ amounts \in Seq(Amounts)
  BY DEF TypeOK
<1>2. PICK f : f = [i \in DOMAIN spent |-> spent[i][1]]
  OBVIOUS
<1>3. DOMAIN f = DOMAIN spent /\ IsFiniteSet(DOMAIN spent) /\ \A i \in DOMAIN spent : f[i] \in Nat
  <2>1. \A i \in DOMAIN spent : spent[i] \in Nat \X (0..(Order - 1))
    BY <1>1, ConfidentialAssumption
  <2> QED
    BY <1>1, <1>2, <2>1, ExcessTyped
<1>4. Total(f) = SumOver(f, DOMAIN spent) /\ Total(f) \in Nat
  <2>1. Total(f) = SumOver(f, DOMAIN f)
    BY <1>3, TotalIsSum
  <2> QED
    BY <1>3, <2>1, SumGrows
<1>5. DOMAIN amounts = 1..Len(amounts) /\ IsFiniteSet(1..Len(amounts))
      /\ \A i \in 1..Len(amounts) : amounts[i] \in Nat
  <2>1. Len(amounts) \in Nat /\ DOMAIN amounts = 1..Len(amounts)
    BY <1>1
  <2>2. \A i \in 1..Len(amounts) : amounts[i] \in Amounts
    BY <1>1
  <2>3. IsFiniteSet(1..Len(amounts))
    BY <2>1, FS_Interval
  <2> QED
    BY <2>1, <2>2, <2>3, Constants
<1>6. Total(amounts) = SumOver(amounts, 1..Len(amounts)) /\ Total(amounts) \in Nat
  <2>1. Total(amounts) = SumOver(amounts, 1..Len(amounts))
    BY <1>5, TotalIsSum
  <2> QED
    BY <1>5, <2>1, SumGrows
<1> QED
  BY <1>2, <1>4, <1>6

LEMMA AppendIs ==
  ASSUME NEW T, NEW s \in Seq(T), NEW x \in T
  PROVE  /\ Len(Append(s, x)) = Len(s) + 1 /\ Append(s, x)[Len(s) + 1] = x
         /\ \A i \in 1..Len(s) : Append(s, x)[i] = s[i]
OBVIOUS

LEMMA AppendAdds ==
  ASSUME NEW s \in Seq(Int), NEW x \in Int
  PROVE  /\ \A i \in 1..Len(s) : Append(s, x)[i] = s[i] /\ s[i] \in Int
         /\ Append(s, x)[Len(s) + 1] = x
         /\ SumOver(Append(s, x), 1..(Len(s) + 1)) = SumOver(s, 1..Len(s)) + x
<1>1. PICK t : t = Append(s, x)
  OBVIOUS
<1>2. PICK n \in Nat, m \in Nat : n = Len(s) /\ m = n + 1
  OBVIOUS
<1>3. \A i \in 1..n : t[i] = s[i] /\ s[i] \in Int
  BY <1>1, <1>2
<1>4. t[m] = x
  BY <1>1, <1>2
<1>5. IsFiniteSet(1..m) /\ IsFiniteSet(1..n) /\ 1..n \subseteq 1..m
      /\ m \in 1..m /\ (1..m) \ {m} = 1..n
  <2>1. IsFiniteSet(1..m) /\ IsFiniteSet(1..n)
    BY FS_Interval
  <2>2. 1..n \subseteq 1..m /\ m \in 1..m /\ (1..m) \ {m} = 1..n
    BY <1>2
  <2> QED
    BY <2>1, <2>2
<1>6. \A i \in 1..m : t[i] \in Int
  BY <1>2, <1>3, <1>4
<1>7. SumOver(t, 1..m) = t[m] + SumOver(t, (1..m) \ {m}) /\ SumOver(t, (1..m) \ {m}) \in Int
  <2>1. PICK S : S = 1..m
    OBVIOUS
  <2>2. IsFiniteSet(S) /\ \A y \in S : t[y] \in Int
    BY <1>5, <1>6, <2>1
  <2>3. /\ \A U \in SUBSET S : SumOver(t, U) \in Int
        /\ \A U \in SUBSET S : \A y \in U : SumOver(t, U) = t[y] + SumOver(t, U \ {y})
    BY <2>2, SumAdds
  <2>4. S \in SUBSET S /\ S \ {m} \in SUBSET S /\ m \in S
    BY <1>5, <2>1
  <2> QED
    BY <2>1, <2>3, <2>4
<1>8. SumOver(t, 1..n) = SumOver(s, 1..n)
  BY <1>3, <1>5, SumSame
<1>9. PICK a \in Int : a = SumOver(t, 1..n)
  BY <1>5, <1>7
<1>10. SumOver(t, 1..m) = a + x
  <2>1. SumOver(t, 1..m) = x + a
    BY <1>4, <1>5, <1>7, <1>9
  <2> QED
    BY <2>1
<1> QED
  BY <1>1, <1>2, <1>3, <1>4, <1>8, <1>9, <1>10

(* The commitments of a transaction add up to the blinding factors and the *)
(* amounts on its sides.                                                   *)
LEMMA SumsOfSides ==
  ASSUME TypeOK, CTInv
  PROVE  /\ SumOf(InCommitments)
              = <<Total([i \in DOMAIN spent |-> spent[i][2]]) % Order,
                  Total([i \in DOMAIN spent |-> spent[i][1]]) % Order>>
         /\ SumOf(OutCommitments(outputs)) = <<Total(blindings) % Order, (Total(amounts) + fee) % Order>>
<1>1. PICK vs, bs : /\ vs = [i \in DOMAIN spent |-> spent[i][1]]
                    /\ bs = [i \in DOMAIN spent |-> spent[i][2]]
  OBVIOUS
<1>2. /\ \A i \in DOMAIN spent : spent[i][1] \in Int /\ spent[i][2] \in Int
      /\ IsFiniteSet(DOMAIN spent)
      /\ Total(bs) = SumOver(bs, DOMAIN spent)
      /\ Total(blindings) = SumOver(blindings, 1..Len(blindings)) /\ Total(blindings) \in Int
  BY <1>1, ExcessTyped DEF TypeOK
<1>3. Total(vs) = SumOver(vs, DOMAIN spent) /\ Total(amounts) = SumOver(amounts, 1..Len(amounts))
  BY <1>1, TotalsTyped
<1>4. SumOf(InCommitments) = <<Total(bs) % Order, Total(vs) % Order>>
  <2>1. PICK points : points = InCommitments
    OBVIOUS
  <2>2. DOMAIN points = DOMAIN spent
        /\ \A i \in DOMAIN spent : /\ vs[i] \in Int /\ bs[i] \in Int
                                   /\ points[i] = Commitment(vs[i], bs[i])
    BY <1>1, <1>2, <2>1 DEF InCommitments
  <2>3. SumOf(points) = <<SumOver(bs, DOMAIN spent) % Order, SumOver(vs, DOMAIN spent) % Order>>
    BY <1>2, <2>2, SumOfCommitments
  <2> QED
    BY <1>2, <1>3, <2>1, <2>3
<1>5. PICK n \in Nat : n = Len(outputs) /\ n = Len(blindings) /\ n = Len(amounts)
                       /\ DOMAIN outputs = 1..n
  BY DEF CTInv, BuiltOK
<1>6. \A i \in 1..n : outputs[i].commitment = Commitment(amounts[i], blindings[i])
  BY <1>5 DEF CTInv, BuiltOK
<1>7. fee \in Int /\ amounts \in Seq(Int) /\ blindings \in Seq(Int)
  <2>1. Amounts \subseteq Int /\ Scalar \ {0} \subseteq Int
    BY Constants, ScalarsAreNumbers
  <2>2. PICK A, B : A = Amounts /\ B = Scalar \ {0}
    OBVIOUS
  <2>3. amounts \in Seq(A) /\ blindings \in Seq(B) /\ A \subseteq Int /\ B \subseteq Int
    BY <2>1, <2>2 DEF TypeOK
  <2>4. fee \in Amounts \cup {0}
    BY DEF TypeOK
  <2>5. fee \in Int
    BY <2>1, <2>4
  <2>6. amounts \in Seq(Int) /\ blindings \in Seq(Int)
    BY <2>3, SequenceOfMore
  <2> QED
    BY <2>5, <2>6
<1>8. PICK ws, cs, zero : ws = Append(amounts, fee) /\ zero = 0 /\ cs = Append(blindings, zero)
  OBVIOUS
<1>9. /\ SumOver(ws, 1..(n + 1)) = Total(amounts) + fee
      /\ ws[n + 1] = fee /\ \A i \in 1..n : ws[i] = amounts[i] /\ amounts[i] \in Int
  BY <1>3, <1>5, <1>7, <1>8, AppendAdds
<1>10. /\ SumOver(cs, 1..(n + 1)) = Total(blindings)
       /\ cs[n + 1] = zero /\ \A i \in 1..n : cs[i] = blindings[i] /\ blindings[i] \in Int
  <2>1. zero \in Int /\ blindings \in Seq(Int)
    BY <1>7, <1>8
  <2>2. /\ SumOver(cs, 1..(Len(blindings) + 1)) = SumOver(blindings, 1..Len(blindings)) + zero
        /\ cs[Len(blindings) + 1] = zero
        /\ \A i \in 1..Len(blindings) : cs[i] = blindings[i] /\ blindings[i] \in Int
    BY <1>8, <2>1, AppendAdds
  <2>3. PICK a \in Int : a = Total(blindings)
    BY <1>2
  <2>4. a + zero = a
    BY <1>8
  <2> QED
    BY <1>2, <1>5, <2>2, <2>3, <2>4
<1>11. SumOf(OutCommitments(outputs)) = <<Total(blindings) % Order, (Total(amounts) + fee) % Order>>
  <2>1. PICK list : list = [i \in 1..n |-> outputs[i].commitment]
    OBVIOUS
  <2>2. PICK points : points = Append(list, Commitment(fee, zero))
    OBVIOUS
  <2>3. OutCommitments(outputs) = points
    BY <1>5, <1>8, <2>1, <2>2 DEF OutCommitments
  <2>4. PICK S : S = {outputs[i].commitment : i \in 1..n}
    OBVIOUS
  <2>5. list \in Seq(S) /\ Len(list) = n
    BY <2>1, <2>4
  <2>6. /\ DOMAIN points = 1..(n + 1) /\ points[n + 1] = Commitment(fee, zero)
        /\ \A i \in 1..n : points[i] = list[i]
    <3>1. PICK c : c = Commitment(fee, zero)
      OBVIOUS
    <3> QED
      BY <2>2, <2>5, <3>1
  <2>7. ASSUME NEW i \in 1..(n + 1)
        PROVE  ws[i] \in Int /\ cs[i] \in Int /\ points[i] = Commitment(ws[i], cs[i])
    <3>1. CASE i = n + 1
      <4>1. ws[i] = fee /\ cs[i] = zero /\ points[i] = Commitment(fee, zero)
        BY <1>9, <1>10, <2>6, <3>1
      <4>2. zero \in Int
        BY <1>8
      <4> QED
        BY <1>7, <4>1, <4>2
    <3>2. CASE i # n + 1
      <4>1. i \in 1..n
        BY <3>2
      <4>2. points[i] = outputs[i].commitment
        BY <2>1, <2>6, <4>1
      <4> QED
        BY <1>6, <1>9, <1>10, <4>1, <4>2
    <3> QED
      BY <3>1, <3>2
  <2>8. IsFiniteSet(1..(n + 1))
    <3>1. n + 1 \in Int
      OBVIOUS
    <3> QED
      BY <3>1, FS_Interval
  <2>9. SumOf(points) = <<SumOver(cs, 1..(n + 1)) % Order, SumOver(ws, 1..(n + 1)) % Order>>
    BY <2>6, <2>7, <2>8, SumOfCommitments
  <2> QED
    BY <1>9, <1>10, <2>3, <2>9
<1> QED
  BY <1>1, <1>4, <1>11

-----------------------------------------------------------------------------
(* Signatures.                                                             *)

(* What a sender has signed, with a key or with the excess.                *)
SignInv == stage \in {"built", "verified", "decoded"} =>
  \/ \E key \in Keys \ {0}, digest \in Random, nonces \in Nonces :
       signature = Sign(key, digest, nonces)
  \/ \E k \in Scalar \ {0}, e \in Random : signature = SignExcess(Excess, k, e)

LEMMA SignStep ==
  ASSUME SignInv, [Next]_vars
  PROVE  SignInv'
<1>1. ASSUME UNCHANGED <<spent, blindings, signature>>, stage' \in {"building", Raised} \/ stage \in {"built", "verified", "decoded"}
      PROVE  SignInv'
  <2>1. Excess' = Excess
    BY <1>1 DEF Excess
  <2> QED
    BY <1>1, <2>1 DEF SignInv, Raised
<1>2. CASE UNCHANGED vars
  <2>1. Excess' = Excess
    BY <1>2 DEF Excess, vars
  <2> QED
    BY <1>2, <2>1 DEF SignInv, vars
<1>3. ASSUME NEW value, NEW draw, NEW free, NEW k, NEW e, BuildOutput(value, draw, free, k, e)
      PROVE  SignInv'
  BY <1>3 DEF BuildOutput, SignInv, Raised
<1>4. ASSUME NEW f, NEW key \in Keys, NEW draw \in Random, NEW digest \in Random, NEW nonces \in Nonces,
             Finish(f, key, draw, digest, nonces)
      PROVE  SignInv'
  <2>1. CASE stage' = Raised
    BY <2>1 DEF SignInv, Raised
  <2>2. CASE stage' # Raised
    <3>1. signature' = IF key # 0 THEN Sign(key, digest, nonces)
                       ELSE SignExcess(Excess, NonZero(draw), digest)
      BY <1>4, <2>2 DEF Finish
    <3>2. Excess' = Excess
      BY <1>4 DEF Finish, Excess
    <3>3. NonZero(draw) \in Scalar \ {0}
      BY Constants, NonZeroTyped
    <3>4. CASE key # 0
      BY <3>1, <3>4 DEF SignInv
    <3>5. CASE key = 0
      BY <3>1, <3>2, <3>3, <3>5 DEF SignInv
    <3> QED
      BY <3>4, <3>5
  <2> QED
    BY <2>1, <2>2
<1>5. ASSUME NEW i, Alter(i)
      PROVE  SignInv'
  BY <1>1, <1>5 DEF Alter
<1>8. CASE ToDict
  BY <1>1, <1>8 DEF ToDict
<1>6. CASE Verify
  BY <1>1, <1>6 DEF Verify
<1>7. CASE DecodeAll
  BY <1>1, <1>7 DEF DecodeAll
<1> QED
  BY <1>2, <1>3, <1>4, <1>5, <1>6, <1>7, <1>8 DEF Next

LEMMA SignAlways == Spec => []SignInv
<1>1. Init => SignInv
  BY DEF Init, SignInv
<1>2. SignInv /\ [Next]_vars => SignInv'
  BY SignStep
<1> QED
  BY <1>1, <1>2, PTL DEF Spec

(* Division by s leaves k, if s times k is z.                              *)
LEMMA Quotient ==
  ASSUME NEW s \in 1..(Order - 1), NEW k \in 1..(Order - 1), NEW z \in Int, Congruent(s * k, z, Order)
  PROVE  (ModInverse(s) * z) % Order = k
<1>1. Order \in Nat \ {0} /\ s \in Int /\ k \in Int
  BY Constants
<1>2. PICK u \in Int : u = ModInverse(s) /\ (s * u) % Order = 1
  BY InverseIs, ScalarsAreNumbers
<1>3. PICK a \in Int, b \in Int, c \in Int : a = s * k /\ b = s * u /\ c = b * k
  <2>1. s * k \in Int /\ s * u \in Int /\ (s * u) * k \in Int
    BY <1>1
  <2> QED
    BY <2>1
<1>4. u * a = c
  <2>1. u * (s * k) = (s * u) * k
    BY <1>1
  <2> QED
    BY <1>3, <2>1
<1>5. Congruent(u * a, u * z, Order)
  BY <1>1, <1>3, CongruentProduct
<1>6. PICK one \in Int : one = 1 /\ one % Order = 1
  BY Constants, RemainderOf
<1>7. Congruent(b, one, Order)
  BY <1>1, <1>2, <1>3, <1>6, SameRemainder
<1>8. Congruent(b * k, one * k, Order)
  BY <1>1, <1>3, <1>6, <1>7, CongruentProduct
<1>9. PICK d \in Int : d = u * z
  OBVIOUS
<1>10. one * k = k
  BY <1>1, <1>6
<1>11. c % Order = d % Order /\ c % Order = k % Order
  <2>1. Congruent(c, d, Order) /\ Congruent(c, k, Order)
    BY <1>3, <1>4, <1>5, <1>8, <1>9, <1>10
  <2> QED
    BY <1>1, <2>1, SameRemainder
<1>12. k % Order = k
  BY <1>1, RemainderOf
<1> QED
  BY <1>2, <1>9, <1>11, <1>12

(* _ecdsa_verify accepts what _ecdsa_sign makes, unless r or s is zero,    *)
(* with the higher s as with the lower.                                    *)
LEMMA SignedVerifies ==
  ASSUME NEW key \in Keys \ {0}, NEW digest \in Random, NEW nonces \in Nonces,
         NEW signed, signed = Sign(key, digest, nonces), signed.r # 0, signed.s # 0
  PROVE  Verifies(key, digest, signed.r, signed.s)
<1>1. PICK k \in 1..(Order - 1) :
        k = IF Abscissa[nonces[1]] % Order = 0 THEN nonces[2] ELSE nonces[1]
  BY ConfidentialAssumption
<1>2. Order \in Nat \ {0} /\ Order \in Int /\ k \in Int
  BY Constants
<1>3. PICK r \in Scalar : r = Abscissa[k] % Order
  <2>1. Abscissa[k] \in Int
    BY AbscissaTyped
  <2> QED
    BY <1>2, <2>1, Division DEF Scalar
<1>4. PICK z \in Int : z = digest + r * key
  <2>1. digest \in Int /\ r \in Int /\ key \in Int
    BY Constants, ScalarsAreNumbers, ConfidentialAssumption
  <2> QED
    BY <2>1
<1>5. PICK u \in Int : u = ModInverse(k) /\ (k * u) % Order = 1
  BY InverseIs, ScalarsAreNumbers
<1>6. PICK t \in Int, uz \in Int : uz = u * z /\ t = uz % Order /\ t \in 0..(Order - 1)
  <2>1. u * z \in Int
    OBVIOUS
  <2>2. \A x \in Int : x % Order \in 0..(Order - 1)
    BY <1>2, Division
  <2>3. \A x \in 0..(Order - 1) : x \in Int
    BY <1>2
  <2> QED
    BY <2>1, <2>2, <2>3
<1>7. signed = [scheme |-> "ecdsa", key |-> key, digest |-> digest,
                r |-> r, s |-> IF t > Order \div 2 THEN Order - t ELSE t]
  BY <1>1, <1>3, <1>4, <1>5, <1>6 DEF Sign
<1>8. Congruent(t * k, z, Order)
  <2>1. Congruent(t, uz, Order)
    BY <1>2, <1>6, CongruentSame
  <2>2. Congruent(t * k, uz * k, Order)
    BY <1>2, <2>1, CongruentProduct
  <2>3. PICK one \in Int : one = 1 /\ one % Order = 1
    BY Constants, RemainderOf
  <2>4. PICK b \in Int : b = k * u
    BY <1>2
  <2>5. Congruent(b, one, Order)
    BY <1>2, <1>5, <2>3, <2>4, SameRemainder
  <2>6. Congruent(b * z, one * z, Order)
    BY <1>2, <2>3, <2>5, CongruentProduct
  <2>7. b * z = uz * k
    <3>1. (k * u) * z = (u * z) * k
      BY <1>2
    <3> QED
      BY <1>6, <2>4, <3>1
  <2>8. one * z = z
    BY <2>3
  <2>9. PICK p \in Int, q \in Int : p = t * k /\ q = uz * k
    BY <1>2
  <2>10. p % Order = q % Order /\ q % Order = z % Order
    BY <1>2, <2>2, <2>6, <2>7, <2>8, <2>9, SameRemainder
  <2> QED
    BY <1>2, <2>9, <2>10, SameRemainder
<1>9. ASSUME NEW s \in 1..(Order - 1), NEW n \in 1..(Order - 1), Congruent(s * n, z, Order),
             s = signed.s, n \in {k, Order - k}
      PROVE  Verifies(key, digest, signed.r, signed.s)
  <2>1. (ModInverse(s) * z) % Order = n
    BY <1>9, Quotient
  <2>2. Abscissa[n] = Abscissa[k]
    BY <1>9, ConfidentialAssumption
  <2>3. r \in 1..(Order - 1) /\ signed.r = r
    BY <1>2, <1>7 DEF Scalar
  <2>4. n # 0
    BY <1>2
  <2> QED
    BY <1>3, <1>4, <1>9, <2>1, <2>2, <2>3, <2>4 DEF Verifies
<1>10. CASE t > Order \div 2
  <2>1. signed.s = Order - t
    BY <1>7, <1>10
  <2>2. PICK s \in Int, n \in Int : s = Order - t /\ n = Order - k
    BY <1>2
  <2>3. \A m \in Nat \ {0} : m \div 2 \in Nat
    OBVIOUS
  <2>4. t > 0
    BY <1>2, <1>10, <2>3
  <2>5. s \in 1..(Order - 1) /\ n \in 1..(Order - 1)
    BY <1>2, <1>6, <2>2, <2>4
  <2>6. Congruent(s * n, t * k, Order)
    <3>1. (Order - t) * (Order - k) = Order * (Order - t - k) + t * k
      BY <1>2
    <3>2. PICK a \in Int, b \in Int, c \in Int, d \in Int :
            a = s * n /\ b = t * k /\ c = Order - t - k /\ d = Order * c
      BY <1>2
    <3>3. a = d + b
      BY <2>2, <3>1, <3>2
    <3>4. a - b = d
      BY <3>3
    <3> QED
      BY <3>2, <3>4 DEF Congruent
  <2>7. Congruent(s * n, z, Order)
    <3>1. PICK a \in Int, b \in Int : a = s * n /\ b = t * k
      BY <1>2
    <3>2. a % Order = b % Order /\ b % Order = z % Order
      BY <1>2, <1>8, <2>6, <3>1, SameRemainder
    <3> QED
      BY <1>2, <3>1, <3>2, SameRemainder
  <2> QED
    BY <1>9, <2>1, <2>2, <2>5, <2>7
<1>11. CASE ~(t > Order \div 2)
  <2>1. signed.s = t
    BY <1>7, <1>11
  <2>2. t \in 1..(Order - 1)
    BY <1>2, <1>6, <2>1
  <2> QED
    BY <1>8, <1>9, <2>1, <2>2
<1> QED
  BY <1>10, <1>11

LEMMA DifferenceIsExcess ==
  ASSUME TypeOK, CTInv
  PROVE  Minus(SumOf(InCommitments), SumOf(OutCommitments(outputs)))[1] = Excess
<1>1. PICK a \in Int, b \in Int :
        a = Total([i \in DOMAIN spent |-> spent[i][2]]) /\ b = Total(blindings)
  BY ExcessTyped DEF TypeOK
<1>2. SumOf(InCommitments)[1] = a % Order /\ SumOf(OutCommitments(outputs))[1] = b % Order
  BY <1>1, SumsOfSides
<1>3. Order \in Nat \ {0}
  BY Constants
<1>4. PICK c \in Int, d \in Int : /\ c = a % Order /\ Congruent(c, a, Order)
                                  /\ d = b % Order /\ Congruent(d, b, Order)
  <2>1. \A x \in 0..(Order - 1) : x \in Int
    BY <1>3
  <2>2. a % Order \in Int /\ b % Order \in Int
    BY <1>3, <2>1, Division
  <2> QED
    BY <1>3, <2>2, CongruentSame
<1>5. Congruent(c - d, a - b, Order)
  BY <1>3, <1>4, CongruentSum
<1>6. (c - d) % Order = (a - b) % Order
  <2>1. c - d \in Int /\ a - b \in Int
    OBVIOUS
  <2> QED
    BY <1>3, <1>5, <2>1, SameRemainder
<1>7. Excess = (a - b) % Order
  BY <1>1 DEF Excess
<1> QED
  BY <1>2, <1>4, <1>6, <1>7 DEF Minus

(* What build_ct_transaction signs with the excess verifies for the        *)
(* difference of the two sides, if their amounts balance.                  *)
LEMMA ExcessVerifies ==
  ASSUME NEW excess \in Int, NEW k \in Scalar, NEW e \in Random, NEW difference,
         difference = <<excess, 0>>
  PROVE  <<(k + e * excess) % Order, 0>> = Plus(<<k, 0>>, Times(e, difference))
<1>1. Order \in Nat \ {0} /\ k \in Int /\ e \in Int
  BY Constants, ScalarsAreNumbers
<1>2. PICK x \in Int : x = e * excess
  BY <1>1
<1>3. (k + (x % Order)) % Order = (k + x) % Order
  BY <1>1, SumOfRemainder
<1>4. PICK zero : zero = 0 /\ zero % Order = zero /\ zero + zero = zero /\ e * zero = zero
  BY <1>1, RemainderOf
<1>5. Times(e, <<excess, zero>>) = <<x % Order, zero>>
  BY <1>2, <1>4 DEF Times
<1>6. Plus(<<k, zero>>, <<x % Order, zero>>) = <<(k + (x % Order)) % Order, zero>>
  BY <1>4 DEF Plus
<1> QED
  BY <1>2, <1>3, <1>4, <1>5, <1>6

(* Whatever nonces are drawn, what build_ct_transaction signs can be       *)
(* verified: with the sender's key (unless r or s came out as zero), or    *)
(* with the difference of the commitments of both sides, if they balance.  *)
THEOREM SignedCanBeVerified == Spec => []SignatureHolds
<1>1. TypeOK /\ CTInv /\ SignInv => SignatureHolds
  <2> SUFFICES ASSUME TypeOK, CTInv, SignInv, Checked
               PROVE  SignatureHolds
    BY DEF SignatureHolds
  <2>1. PICK difference : difference = Minus(SumOf(InCommitments), SumOf(OutCommitments(outputs)))
    OBVIOUS
  <2>2. difference[1] = Excess /\ difference = <<difference[1], difference[2]>>
    BY <2>1, DifferenceIsExcess DEF Minus
  <2>3. Excess \in Int
    BY ExcessTyped DEF TypeOK
  <2>4. CASE \E key \in Keys \ {0}, digest \in Random, nonces \in Nonces :
               signature = Sign(key, digest, nonces)
    <3>1. PICK key \in Keys \ {0}, digest \in Random, nonces \in Nonces :
            signature = Sign(key, digest, nonces)
      BY <2>4
    <3>2. signature.scheme = "ecdsa" /\ signature.key = key /\ signature.digest = digest
      BY <3>1 DEF Sign
    <3>3. signature.r # 0 /\ signature.s # 0 => Verifies(key, digest, signature.r, signature.s)
      BY <3>1, SignedVerifies
    <3> QED
      BY <3>2, <3>3 DEF SignatureHolds
  <2>5. CASE \E k \in Scalar \ {0}, e \in Random : signature = SignExcess(Excess, k, e)
    <3>1. PICK k \in Scalar \ {0}, e \in Random : signature = SignExcess(Excess, k, e)
      BY <2>5
    <3>2. CASE Excess = 0
      <4>1. signature.scheme = "none"
        BY <3>1, <3>2 DEF SignExcess, Unsigned
      <4> QED
        BY <2>1, <2>2, <3>2, <4>1 DEF SignatureHolds
    <3>3. CASE Excess # 0
      <4>1. /\ signature.scheme = "schnorr" /\ signature.nonce = <<k, 0>>
            /\ signature.challenge = e /\ signature.response = (k + e * Excess) % Order
        BY <3>1, <3>3 DEF SignExcess
      <4>2. difference[2] = 0 =>
              <<signature.response, 0>>
                = Plus(signature.nonce, Times(signature.challenge, difference))
        BY <2>2, <2>3, <4>1, ExcessVerifies
      <4> QED
        BY <2>1, <4>1, <4>2 DEF SignatureHolds
    <3> QED
      BY <3>2, <3>3
  <2> QED
    BY <2>4, <2>5 DEF SignInv, Checked
<1> QED
  BY <1>1, TypeCorrect, CTAlways, SignAlways, PTL

-----------------------------------------------------------------------------
(* Range proofs.                                                           *)

(* One digit more: what remains of v modulo 2 * p.                         *)
LEMMA OneDigit ==
  ASSUME NEW v \in Nat, NEW p \in Nat \ {0}
  PROVE  v % (2 * p) = (p * ((v \div p) % 2)) + (v % p)
<1>1. PICK q \in Int, s \in 0..(p - 1) : v = (p * q) + s /\ q = v \div p /\ s = v % p
  <2>1. v \in Int
    OBVIOUS
  <2> QED
    BY <2>1, Division
<1>2. PICK u \in Int, b \in 0..1 : q = (2 * u) + b /\ b = q % 2
  <2>1. q \div 2 \in Int /\ q % 2 \in 0..1 /\ q = (2 * (q \div 2)) + (q % 2)
    OBVIOUS
  <2> QED
    BY <2>1
<1>3. PICK r \in Int : r = (p * b) + s /\ r \in 0..(2 * p - 1)
  <2>1. CASE b = 0
    <3>1. p * b = 0
      BY <2>1
    <3> QED
      BY <3>1
  <2>2. CASE b = 1
    <3>1. p * b = p
      BY <2>2
    <3> QED
      BY <3>1
  <2> QED
    BY <2>1, <2>2
<1>4. v = ((2 * p) * u) + r
  <2>1. p * ((2 * u) + b) = ((2 * p) * u) + (p * b)
    OBVIOUS
  <2>2. PICK x \in Int, y \in Int : x = (2 * p) * u /\ y = p * b
    OBVIOUS
  <2>3. v = (x + y) + s /\ r = y + s
    BY <1>1, <1>2, <1>3, <2>1, <2>2
  <2>4. v = x + r
    BY <2>3
  <2> QED
    BY <2>2, <2>4
<1>5. PICK n \in Nat \ {0} : n = 2 * p
  OBVIOUS
<1>6. v % n = r
  <2>1. v \in Int /\ r \in 0..(n - 1) /\ v = (n * u) + r
    BY <1>3, <1>4, <1>5
  <2> QED
    BY <2>1, RemainderIs
<1> QED
  BY <1>1, <1>2, <1>3, <1>5, <1>6

(* The bits of a value, each in its place, add up to it.                   *)
LEMMA BitsAddUp ==
  ASSUME NEW value \in Nat, value < Power(2, Bits), NEW f,
         \A i \in 1..Bits : f[i] = Power(2, i - 1) * Bit(value, i)
  PROVE  SumOver(f, 1..Bits) = value
<1>1. \A n \in Nat : Power(2, n) \in Nat \ {0}
  BY PowerPositive
<1>2. \A i \in 1..Bits : f[i] \in Int
  <2>1. ASSUME NEW i \in 1..Bits PROVE f[i] \in Int
    <3>1. PICK p \in Int, b \in Int : p = Power(2, i - 1) /\ b = Bit(value, i)
      <4>1. Power(2, i - 1) \in Nat /\ Bit(value, i) \in {0, 1}
        BY PlaceOK, BitTyped
      <4> QED
        BY <4>1
    <3> QED
      BY <3>1
  <2> QED
    BY <2>1
<1>3. PICK S : S = 1..Bits /\ IsFiniteSet(S)
  BY Constants, FS_Interval
<1>4. /\ SumOver(f, {}) = 0
      /\ \A T \in SUBSET S : SumOver(f, T) \in Int
      /\ \A T \in SUBSET S : \A x \in T : SumOver(f, T) = f[x] + SumOver(f, T \ {x})
  <2>1. IsFiniteSet(S) /\ \A i \in S : f[i] \in Int
    BY <1>2, <1>3
  <2> QED
    BY <2>1, SumAdds, Zenon
<1> DEFINE Bad == {n \in 0..Bits : SumOver(f, 1..n) # value % Power(2, n)}
<1>5. SUFFICES ASSUME Bad # {} PROVE FALSE
  <2>1. Bits \in 0..Bits
    BY Constants
  <2>2. SUFFICES ASSUME Bad = {} PROVE SumOver(f, 1..Bits) = value
    OBVIOUS
  <2>3. SumOver(f, 1..Bits) = value % Power(2, Bits)
    BY <2>1, <2>2
  <2>4. PICK p \in Nat \ {0} : p = Power(2, Bits)
    BY <1>1, Constants
  <2>5. value \in 0..(p - 1)
    BY <2>4
  <2>6. value % p = value
    BY <2>5, RemainderOf
  <2> QED
    BY <2>3, <2>4, <2>6
<1>6. PICK n \in Bad : \A m \in Bad : n <= m
  <2>1. Bad \subseteq Nat
    BY Constants
  <2> HIDE DEF Bad
  <2> QED
    BY <1>5, <2>1, NatMin
<1>7. n # 0
  <2>1. Power(2, 0) = 1 /\ value % 1 = 0 /\ 1..0 = {}
    <3>1. Power(2, 0) = 1
      BY PowerSteps
    <3>2. \A v \in Nat : v % 1 = 0
      OBVIOUS
    <3> QED
      BY <3>1, <3>2
  <2> QED
    BY <1>4, <2>1
<1>8. PICK k \in Nat : n = k + 1 /\ k \in 0..Bits
  BY <1>7, Constants
<1>9. SumOver(f, 1..k) = value % Power(2, k)
  <2>1. ~(k + 1 <= k)
    OBVIOUS
  <2>2. k \notin Bad
    BY <1>6, <1>8, <2>1
  <2> HIDE DEF Bad
  <2>3. k \in 0..Bits
    BY <1>8
  <2> QED
    BY <2>2, <2>3 DEF Bad
<1>10. n \in 1..Bits /\ n - 1 = k /\ (1..n) \ {n} = 1..k /\ 1..n \subseteq 1..Bits /\ n \in 1..n
  <2>1. Bits \in Int /\ n \in 0..Bits
    BY Constants
  <2>2. n \in 1..Bits /\ n - 1 = k
    BY <1>8, <2>1
  <2>3. (1..n) \ {n} = 1..k
    BY <1>8
  <2>4. 1..n \subseteq 1..Bits /\ n \in 1..n
    BY <2>1, <2>2
  <2> QED
    BY <2>2, <2>3, <2>4
<1>11. SumOver(f, 1..n) = f[n] + SumOver(f, 1..k)
  BY <1>3, <1>4, <1>10
<1>12. PICK p \in Nat \ {0} : p = Power(2, k)
  BY <1>1
<1>13. f[n] = p * ((value \div p) % 2)
  BY <1>10, <1>12 DEF Bit
<1>14. Power(2, n) = 2 * p
  BY <1>8, <1>12, PowerSteps
<1>15. value % (2 * p) = (p * ((value \div p) % 2)) + (value % p)
  BY OneDigit
<1>16. SumOver(f, 1..n) = value % Power(2, n)
  BY <1>9, <1>11, <1>12, <1>13, <1>14, <1>15
<1> QED
  BY <1>16

(* The blindings of the bits add up to that of the commitment.             *)
LEMMA BlindingsAddUp ==
  ASSUME NEW total \in Int, NEW free \in [1..(Bits - 1) -> Random], NEW f,
         \A i \in 1..Bits : f[i] = Power(2, i - 1) * BitBlindings(total, free)[i]
  PROVE  SumOver(f, 1..Bits) % Order = total % Order
<1>1. PICK r \in [1..Bits -> Scalar] : r = BitBlindings(total, free)
  BY BlindingsOK
<1>2. /\ \A i \in 1..(Bits - 1) : r[i] = free[i]
      /\ (r[Bits] * Power(2, Bits - 1) - (total - Running(free))) % Order = 0
  BY <1>1, BlindingsOK
<1>3. PICK g : g = [i \in 1..(Bits - 1) |-> free[i] * Power(2, i - 1)]
  OBVIOUS
<1>4. Running(free) = SumOver(g, 1..(Bits - 1)) /\ Running(free) \in Int
  BY <1>3, RunningTyped
<1>5. \A i \in 1..Bits : r[i] \in Int /\ Power(2, i - 1) \in Int
  <2>1. \A i \in 1..Bits : r[i] \in Scalar
    OBVIOUS
  <2>2. \A i \in 1..Bits : Power(2, i - 1) \in Nat \ {0}
    BY PlaceOK
  <2>3. \A i \in 1..Bits : r[i] \in Int
    BY <2>1, ScalarsAreNumbers
  <2>4. \A i \in 1..Bits : Power(2, i - 1) \in Int
    BY <2>2
  <2> QED
    BY <2>3, <2>4
<1>6. \A i \in 1..Bits : f[i] \in Int /\ f[i] = r[i] * Power(2, i - 1)
  <2>1. ASSUME NEW i \in 1..Bits
        PROVE  f[i] \in Int /\ f[i] = r[i] * Power(2, i - 1)
    <3>1. PICK a \in Int, b \in Int : a = r[i] /\ b = Power(2, i - 1)
      BY <1>5
    <3>2. f[i] = b * a
      BY <1>1, <3>1
    <3>3. b * a = a * b /\ b * a \in Int
      OBVIOUS
    <3> QED
      BY <3>1, <3>2, <3>3
  <2> QED
    BY <2>1
<1>7. PICK S : S = 1..Bits /\ IsFiniteSet(S)
  BY Constants, FS_Interval
<1>8. S \in SUBSET S /\ Bits \in S /\ S \ {Bits} = 1..(Bits - 1) /\ S \ {Bits} \in SUBSET S
  BY <1>7, Constants
<1>9. SumOver(f, S) = f[Bits] + SumOver(f, S \ {Bits}) /\ SumOver(f, S \ {Bits}) \in Int
  <2>1. IsFiniteSet(S) /\ \A i \in S : f[i] \in Int
    BY <1>6, <1>7
  <2>2. /\ \A T \in SUBSET S : SumOver(f, T) \in Int
        /\ \A T \in SUBSET S : \A x \in T : SumOver(f, T) = f[x] + SumOver(f, T \ {x})
    BY <2>1, SumAdds, Zenon
  <2> QED
    BY <1>8, <2>2
<1>10. SumOver(f, 1..(Bits - 1)) = SumOver(g, 1..(Bits - 1))
  <2>1. IsFiniteSet(1..(Bits - 1))
    BY Constants, FS_Interval
  <2>2. \A i \in 1..(Bits - 1) : f[i] = g[i]
    <3>1. \A i \in 1..(Bits - 1) : i \in 1..Bits
      BY Constants
    <3> QED
      BY <1>2, <1>3, <1>6, <3>1
  <2>3. PICK T : T = 1..(Bits - 1)
    OBVIOUS
  <2>4. IsFiniteSet(T) /\ \A i \in T : f[i] = g[i]
    BY <2>1, <2>2, <2>3
  <2>5. SumOver(f, T) = SumOver(g, T)
    BY <2>4, SumSame, Zenon
  <2> QED
    BY <2>3, <2>5
<1>11. PICK a \in Int, b \in Int : a = f[Bits] /\ b = Running(free)
  BY <1>4, <1>6, <1>7, <1>8
<1>12. (a - (total - b)) % Order = 0 /\ SumOver(f, S) = a + b
  BY <1>2, <1>4, <1>6, <1>7, <1>8, <1>9, <1>10, <1>11
<1>13. (a + b) % Order = total % Order
  <2>1. PICK d \in Int, q \in Int : d = a - (total - b) /\ d = (Order * q) + 0
    <3>1. a - (total - b) \in Int /\ Order \in Nat \ {0}
      BY Constants
    <3> QED
      BY <1>12, <3>1, Division
  <2>2. PICK c \in Int : c = Order * q
    BY Constants
  <2>3. (a + b) - total = c
    BY <2>1, <2>2
  <2>4. Congruent(a + b, total, Order)
    BY <2>2, <2>3 DEF Congruent
  <2>5. a + b \in Int
    OBVIOUS
  <2> QED
    BY <2>4, <2>5, Constants, SameRemainder
<1> QED
  BY <1>7, <1>12, <1>13

(* RangeProof.verify accepts what RangeProof.create makes.                 *)
LEMMA CreatedVerifies ==
  ASSUME NEW value \in 0..(Power(2, Bits) - 1), NEW total \in Scalar,
         NEW free \in [1..(Bits - 1) -> Random], NEW k \in Scalar, NEW e \in Random
  PROVE  ProofOK(Proof(value, total, [i \in 1..Bits |-> Bit(value, i)], free, k, e))
<1>1. Order \in Nat \ {0} /\ Order > 1 /\ k \in Int /\ e \in Int /\ total \in Int /\ value \in Nat
      /\ value < Power(2, Bits) /\ value < Order
  BY Constants, ScalarsAreNumbers
<1>2. PICK r \in [1..Bits -> Scalar] : r = BitBlindings(total, free)
  BY <1>1, BlindingsOK
<1>3. PICK bit : bit = [i \in 1..Bits |-> Bit(value, i)]
  OBVIOUS
<1>4. PICK B : B = [i \in 1..Bits |->
                      [commitment |-> Commitment(bit[i], r[i]), bit |-> bit[i],
                       nonce |-> <<k, 0>>, challenge |-> e, response |-> (k + e * r[i]) % Order]]
  OBVIOUS
<1>5. PICK proof : proof = Proof(value, total, bit, free, k, e)
  OBVIOUS
<1>6. proof.whole = Commitment(value, total) /\ proof.bits = B
  BY <1>2, <1>4, <1>5 DEF Proof
<1>7. ASSUME NEW i \in 1..Bits
      PROVE  /\ r[i] \in Int /\ bit[i] \in {0, 1} /\ B[i].commitment = <<r[i], bit[i]>>
  <2>1. r[i] \in Scalar
    OBVIOUS
  <2>2. r[i] \in Int /\ r[i] % Order = r[i]
    BY <1>1, <2>1, RemainderOf, ScalarsAreNumbers DEF Scalar
  <2>3. bit[i] \in {0, 1}
    BY <1>1, <1>3, BitTyped
  <2>4. bit[i] \in 0..(Order - 1)
    BY <1>1, <2>3
  <2>5. bit[i] % Order = bit[i]
    BY <1>1, <2>4, RemainderOf
  <2>6. B[i].commitment = Commitment(bit[i], r[i])
    BY <1>4
  <2> QED
    BY <2>2, <2>3, <2>5, <2>6 DEF Commitment
<1>8. ASSUME NEW i \in 1..Bits
      PROVE  <<B[i].response, 0>>
               = Plus(B[i].nonce, Times(B[i].challenge, Minus(B[i].commitment, <<0, B[i].bit>>)))
  <2>1. PICK x \in Int, b \in Int : x = r[i] /\ b = bit[i]
    BY <1>7
  <2>2. x % Order = x
    <3>1. x \in 0..(Order - 1)
      BY <2>1 DEF Scalar
    <3> QED
      BY <1>1, <3>1, RemainderOf
  <2>3. /\ B[i].response = (k + e * x) % Order /\ B[i].nonce = <<k, 0>> /\ B[i].challenge = e
        /\ B[i].bit = b /\ B[i].commitment = <<x, b>>
    BY <1>4, <1>7, <2>1
  <2>4. Minus(<<x, b>>, <<0, b>>) = <<x, 0>>
    <3>1. x - 0 = x /\ b - b = 0 /\ 0 % Order = 0
      BY <1>1, RemainderOf
    <3> QED
      BY <2>2, <3>1 DEF Minus
  <2>5. PICK difference : difference = <<x, 0>>
    OBVIOUS
  <2>6. <<(k + e * x) % Order, 0>> = Plus(<<k, 0>>, Times(e, difference))
    BY <2>5, ExcessVerifies
  <2> QED
    BY <2>3, <2>4, <2>5, <2>6
<1>9. PICK points : points = [i \in 1..Bits |-> Times(Power(2, i - 1), B[i].commitment)]
  OBVIOUS
<1>10. PICK fs, gs : /\ fs = [i \in 1..Bits |-> Power(2, i - 1) * r[i]]
                     /\ gs = [i \in 1..Bits |-> Power(2, i - 1) * Bit(value, i)]
  OBVIOUS
<1>11. ASSUME NEW i \in 1..Bits
       PROVE  gs[i] \in Int /\ fs[i] \in Int /\ points[i] = Commitment(gs[i], fs[i])
  <2>1. PICK p \in Int, x \in Int, b \in Int : p = Power(2, i - 1) /\ x = r[i] /\ b = bit[i]
    <3>1. Power(2, i - 1) \in Nat \ {0}
      BY PlaceOK
    <3> QED
      BY <1>7, <3>1
  <2>2. gs[i] = p * b /\ fs[i] = p * x
    BY <1>3, <1>10, <2>1
  <2>3. p * b \in Int /\ p * x \in Int
    OBVIOUS
  <2>4. points[i] = Times(p, <<x, b>>)
    BY <1>7, <1>9, <2>1
  <2>5. Times(p, <<x, b>>) = Commitment(p * b, p * x)
    BY DEF Times, Commitment
  <2> QED
    BY <2>2, <2>3, <2>4, <2>5
<1>12. SumOf(points) = <<SumOver(fs, 1..Bits) % Order, SumOver(gs, 1..Bits) % Order>>
  <2>1. IsFiniteSet(1..Bits)
    BY Constants, FS_Interval
  <2>2. DOMAIN points = 1..Bits
    BY <1>9
  <2>3. IsFiniteSet(DOMAIN points)
        /\ \A i \in DOMAIN points : /\ gs[i] \in Int /\ fs[i] \in Int
                                    /\ points[i] = Commitment(gs[i], fs[i])
    BY <1>11, <2>1, <2>2
  <2>4. SumOf(points) = <<SumOver(fs, DOMAIN points) % Order, SumOver(gs, DOMAIN points) % Order>>
    BY <2>3, SumOfCommitments
  <2> QED
    BY <2>2, <2>4
<1>13. SumOver(fs, 1..Bits) % Order = total % Order
  BY <1>1, <1>2, <1>10, BlindingsAddUp
<1>14. SumOver(gs, 1..Bits) = value
  BY <1>1, <1>10, BitsAddUp
<1>15. proof.whole = SumOf([i \in DOMAIN proof.bits |-> Times(Power(2, i - 1), proof.bits[i].commitment)])
  <2>1. proof.whole = SumOf(points)
    BY <1>6, <1>12, <1>13, <1>14 DEF Commitment
  <2>2. points = [i \in DOMAIN proof.bits |-> Times(Power(2, i - 1), proof.bits[i].commitment)]
    BY <1>4, <1>6, <1>9
  <2> QED
    BY <2>1, <2>2
<1>16. \A i \in DOMAIN proof.bits : BitOK(proof.bits[i])
  BY <1>4, <1>6, <1>8 DEF BitOK
<1>17. ProofOK(proof)
  BY <1>15, <1>16 DEF ProofOK
<1> QED
  BY <1>3, <1>5, <1>17

-----------------------------------------------------------------------------
(* An honest transaction.                                                  *)

(* The proofs of the outputs are those of their amounts, the fee is not at *)
(* infinity, and the answers are about what is there.                      *)
HonestInv ==
  /\ \A i \in 1..Len(outputs) :
       \E free \in [1..(Bits - 1) -> Random], k \in Scalar, e \in Random :
         outputs[i].proof
           = Proof(amounts[i], blindings[i], [j \in 1..Bits |-> Bit(amounts[i], j)], free, k, e)
  /\ stage \in {"built", "verified", "decoded"} => fee % Order # 0
  /\ Checked => verdict = [balance |-> BalanceOK(InCommitments, OutCommitments(received)),
                           range |-> RangesOK(received)]

LEMMA HonestStep ==
  ASSUME CTInv, HonestInv, [Next]_vars
  PROVE  HonestInv'
<1>1. CASE UNCHANGED vars
  <2>1. InCommitments' = InCommitments /\ OutCommitments(received)' = OutCommitments(received)
    BY <1>1 DEF InCommitments, OutCommitments, vars
  <2> QED
    BY <1>1, <2>1 DEF HonestInv, Checked, vars
<1>2. ASSUME NEW value \in Amounts, NEW draw \in Random, NEW k \in Random, NEW e \in Random,
             NEW free \in [1..(Bits - 1) -> Random], BuildOutput(value, draw, free, k, e)
      PROVE  HonestInv'
  <2> DEFINE blinding == NonZero(draw)
             proof == CreateProof(value, blinding, free, NonZero(k), e)
             output == [commitment |-> Commitment(value, blinding), proof |-> proof]
  <2>1. CASE proof = Missing
    BY <1>2, <2>1 DEF BuildOutput, HonestInv, Checked, Raised
  <2>2. CASE proof # Missing
    <3>1. PICK new : new = output
      OBVIOUS
    <3>2. NonZero(k) \in Scalar
      BY Constants, NonZeroTyped
    <3>3. new.proof = Proof(value, blinding, [j \in 1..Bits |-> Bit(value, j)], free, NonZero(k), e)
      BY <2>2, <3>1 DEF CreateProof
    <3>4. /\ outputs' = Append(outputs, new) /\ blindings' = Append(blindings, blinding)
          /\ amounts' = Append(amounts, value) /\ stage' = stage /\ stage = "building"
      BY <1>2, <2>2, <3>1 DEF BuildOutput
    <3> HIDE DEF blinding, proof, output
    <3>5. PICK n \in Nat : n = Len(outputs) /\ n = Len(blindings) /\ n = Len(amounts)
      BY DEF CTInv, BuiltOK
    <3>6. /\ Len(outputs') = n + 1 /\ outputs'[n + 1] = new
          /\ \A i \in 1..n : outputs'[i] = outputs[i]
      <4>1. PICK K : K = [commitment : Point, proof : Proofs]
        OBVIOUS
      <4>2. outputs \in Seq(K)
        BY <4>1 DEF CTInv, BuiltOK
      <4>3. PICK L : L = K \cup {new}
        OBVIOUS
      <4>4. outputs \in Seq(L) /\ new \in L
        BY <4>2, <4>3, SequenceOfMore
      <4>5. /\ Len(Append(outputs, new)) = Len(outputs) + 1
            /\ Append(outputs, new)[Len(outputs) + 1] = new
            /\ \A i \in 1..Len(outputs) : Append(outputs, new)[i] = outputs[i]
        BY <4>4, AppendIs
      <4>6. PICK t : t = outputs' /\ t = Append(outputs, new)
        BY <3>4
      <4> QED
        BY <3>5, <4>5, <4>6
    <3>7. /\ blindings'[n + 1] = blinding /\ \A i \in 1..n : blindings'[i] = blindings[i]
      BY <3>4, <3>5 DEF CTInv, BuiltOK
    <3>8. /\ amounts'[n + 1] = value /\ \A i \in 1..n : amounts'[i] = amounts[i]
      BY <3>4, <3>5 DEF CTInv, BuiltOK
    <3>9. ASSUME NEW i \in 1..(n + 1)
          PROVE  \E free1 \in [1..(Bits - 1) -> Random], k1 \in Scalar, e1 \in Random :
                   outputs'[i].proof
                     = Proof(amounts'[i], blindings'[i], [j \in 1..Bits |-> Bit(amounts'[i], j)], free1, k1, e1)
      <4>1. CASE i = n + 1
        BY <3>2, <3>3, <3>6, <3>7, <3>8, <4>1
      <4>2. CASE i # n + 1
        <5>1. i \in 1..n
          BY <4>2
        <5>2. outputs'[i] = outputs[i] /\ amounts'[i] = amounts[i] /\ blindings'[i] = blindings[i]
          BY <3>6, <3>7, <3>8, <5>1
        <5> QED
          BY <3>5, <5>1, <5>2 DEF HonestInv
      <4> QED
        BY <4>1, <4>2
    <3> QED
      BY <3>4, <3>6, <3>9 DEF HonestInv, Checked
  <2> QED
    BY <2>1, <2>2
<1>3. ASSUME NEW f, NEW key, NEW draw, NEW digest, NEW nonces, Finish(f, key, draw, digest, nonces)
      PROVE  HonestInv'
  <2>1. UNCHANGED <<outputs, amounts, blindings>> /\ stage' \in {"built", Raised}
    BY <1>3 DEF Finish
  <2>2. stage' = "built" => fee' % Order # 0
    <3>1. SUFFICES ASSUME stage' = "built" PROVE fee' % Order # 0
      OBVIOUS
    <3>2. ~Unusable(f, 0) /\ fee' = f
      BY <1>3, <3>1 DEF Finish, Raised
    <3>3. 0 % Order = 0
      BY Constants, RemainderOf
    <3> QED
      BY <3>2, <3>3 DEF Unusable, Commitment, Infinity
  <2> QED
    BY <2>1, <2>2 DEF HonestInv, Checked, Raised
<1>4. ASSUME NEW i, Alter(i)
      PROVE  HonestInv'
  BY <1>4 DEF Alter, HonestInv, Checked
<1>7. CASE ToDict
  BY <1>7 DEF ToDict, HonestInv, Checked
<1>5. CASE Verify
  <2>1. InCommitments' = InCommitments /\ OutCommitments(received)' = OutCommitments(received)
    BY <1>5 DEF InCommitments, OutCommitments, Verify
  <2>2. UNCHANGED <<outputs, amounts, blindings, fee, received>> /\ stage = "built"
        /\ verdict' = [balance |-> BalanceOK(InCommitments, OutCommitments(received)),
                       range |-> RangesOK(received)]
    BY <1>5 DEF Verify
  <2> QED
    BY <2>1, <2>2 DEF HonestInv, Checked, RangesOK
<1>6. CASE DecodeAll
  <2>1. InCommitments' = InCommitments /\ OutCommitments(received)' = OutCommitments(received)
    BY <1>6 DEF InCommitments, OutCommitments, DecodeAll
  <2>2. UNCHANGED <<outputs, amounts, blindings, fee, received, verdict>> /\ stage = "verified"
    BY <1>6 DEF DecodeAll
  <2> QED
    BY <2>1, <2>2 DEF HonestInv, Checked, RangesOK
<1> QED
  BY <1>1, <1>2, <1>3, <1>4, <1>5, <1>6, <1>7 DEF Next

LEMMA HonestAlways == Spec => []HonestInv
<1>1. Init => HonestInv
  <2> SUFFICES ASSUME Init PROVE HonestInv
    OBVIOUS
  <2>1. outputs = << >> /\ Len(<< >>) = 0 /\ stage = "building"
    BY DEF Init
  <2> QED
    BY <2>1 DEF HonestInv, Checked
<1>2. CTInv /\ HonestInv /\ [Next]_vars => HonestInv'
  BY HonestStep
<1> QED
  BY <1>1, <1>2, CTAlways, PTL DEF Spec

(* What was built is accepted.                                             *)
LEMMA SentIsAccepted ==
  ASSUME CTInv, HonestInv, NEW i \in 1..Len(outputs)
  PROVE  /\ outputs[i].proof.form = "RangeProofData"
         /\ outputs[i].commitment = outputs[i].proof.whole /\ ProofOK(outputs[i].proof)
<1>1. outputs[i].commitment = outputs[i].proof.whole /\ amounts[i] \in 0..(Power(2, Bits) - 1)
  BY DEF CTInv, BuiltOK
<1>2. blindings[i] \in Scalar
  BY DEF CTInv, BuiltOK
<1>3. PICK free \in [1..(Bits - 1) -> Random], k \in Scalar, e \in Random :
        outputs[i].proof
          = Proof(amounts[i], blindings[i], [j \in 1..Bits |-> Bit(amounts[i], j)], free, k, e)
  BY DEF HonestInv
<1>4. outputs[i].proof.form = "RangeProofData"
  BY <1>3 DEF Proof
<1> QED
  BY <1>1, <1>2, <1>3, <1>4, CreatedVerifies

(* Whatever the draws were, an honest transaction of amounts that add up   *)
(* to its inputs passes verify_balance and verify_range_proofs, if no      *)
(* inputs are worth as much as the order of the group, which is about      *)
(* 2 ^ 256 for the curve and far above any amount of the chain.            *)
THEOREM HonestPasses ==
  ASSUME \A ins \in Inputs : Total([i \in DOMAIN ins |-> ins[i][1]]) < Order
  PROVE  Spec => []HonestVerifies
<1>1. TypeOK /\ CTInv /\ HonestInv => HonestVerifies
  <2> SUFFICES ASSUME TypeOK, CTInv, HonestInv, Checked, received = outputs,
                      Total([i \in DOMAIN spent |-> spent[i][1]]) = Total(amounts) + fee
               PROVE  verdict.balance /\ verdict.range
    BY DEF HonestVerifies
  <2>1. /\ verdict.balance = BalanceOK(InCommitments, OutCommitments(outputs))
        /\ verdict.range = RangesOK(outputs)
    BY DEF HonestInv
  <2>2. RangesOK(outputs)
    <3>1. DOMAIN outputs = 1..Len(outputs)
      BY DEF CTInv, BuiltOK
    <3> QED
      BY <3>1, SentIsAccepted DEF RangesOK, RangeOK
  <2>3. BalanceOK(InCommitments, OutCommitments(outputs))
    <3>1. PICK t \in Nat : t = Total([i \in DOMAIN spent |-> spent[i][1]])
      BY TotalsTyped
    <3>2. t < Order
      BY <3>1 DEF TypeOK
    <3>3. t # 0
      <4>1. fee % Order # 0 /\ fee \in Nat
        <5>1. fee \in Amounts \cup {0}
          BY DEF TypeOK
        <5> QED
          BY <5>1, Constants DEF HonestInv, Checked
      <4>2. fee # 0
        BY <4>1, Constants, RemainderOf
      <4>3. PICK a \in Nat : a = Total(amounts)
        BY TotalsTyped
      <4> QED
        BY <3>1, <4>1, <4>2, <4>3
    <3>4. t % Order = t
      BY <3>2, Constants, RemainderOf
    <3>5. SumOf(InCommitments)[2] = t /\ SumOf(OutCommitments(outputs))[2] = t
      BY <3>1, <3>4, SumsOfSides
    <3>6. SumOf(InCommitments) # Infinity /\ SumOf(OutCommitments(outputs)) # Infinity
      BY <3>3, <3>5 DEF Infinity
    <3> QED
      BY <3>6 DEF BalanceOK
  <2> QED
    BY <2>1, <2>2, <2>3
<1> QED
  BY <1>1, TypeCorrect, CTAlways, HonestAlways, PTL


-----------------------------------------------------------------------------
(* An altered transaction.                                                 *)

(* What is not a multiple of the order can be divided by.                  *)
LEMMA Cancels ==
  ASSUME NEW e \in 1..(Order - 1), NEW x \in Int, NEW y \in Int, Congruent(e * x, e * y, Order)
  PROVE  Congruent(x, y, Order)
<1>1. Order \in Nat \ {0} /\ Order > 1 /\ e \in Int
  BY Constants
<1>2. PICK u \in Int : u = ModInverse(e) /\ (e * u) % Order = 1
  BY InverseIs, ScalarsAreNumbers
<1>3. PICK one \in Int : one = 1 /\ one % Order = 1
  BY <1>1, RemainderOf
<1>4. PICK p \in Int : p = e * u
  BY <1>1
<1>5. Congruent(p, one, Order)
  BY <1>1, <1>2, <1>3, <1>4, SameRemainder
<1>6. ASSUME NEW z \in Int
      PROVE  \E w \in Int : w = u * (e * z) /\ w % Order = z % Order
  <2>1. PICK w \in Int : w = p * z
    OBVIOUS
  <2>2. Congruent(p * z, one * z, Order)
    BY <1>1, <1>5, CongruentProduct
  <2>3. one * z = z /\ w = u * (e * z)
    BY <1>1, <1>3, <1>4, <2>1
  <2>4. Congruent(w, z, Order)
    BY <2>1, <2>2, <2>3
  <2> QED
    BY <1>1, <2>3, <2>4, SameRemainder
<1>7. PICK a \in Int, b \in Int : a = e * x /\ b = e * y
  BY <1>1
<1>8. Congruent(u * a, u * b, Order)
  BY <1>1, <1>7, CongruentProduct
<1>9. PICK v \in Int, w \in Int : /\ v = u * a /\ v % Order = x % Order
                                  /\ w = u * b /\ w % Order = y % Order
  <2>1. \E v \in Int : v = u * (e * x) /\ v % Order = x % Order
    BY <1>6
  <2>2. \E w \in Int : w = u * (e * y) /\ w % Order = y % Order
    BY <1>6
  <2> QED
    BY <1>7, <2>1, <2>2
<1>10. v % Order = w % Order
  BY <1>1, <1>8, <1>9, SameRemainder
<1> QED
  BY <1>1, <1>9, <1>10, SameRemainder

(* What BitOK compares.                                                    *)
Compared(b, n1, n2, c1, c2, e, v) ==
  /\ b.nonce = <<n1, n2>> /\ b.commitment = <<c1, c2>> /\ b.challenge = e /\ b.bit = v
  /\ n1 \in Int /\ n2 \in Int /\ c1 \in Int /\ c2 \in Int /\ e \in Int /\ v \in Int

LEMMA BitCompares ==
  ASSUME NEW b, NEW n1, NEW n2, NEW c1, NEW c2, NEW e, NEW v, Compared(b, n1, n2, c1, c2, e, v)
  PROVE  BitOK(b) <=> b.response = (n1 + e * c1) % Order /\ (n2 + e * (c2 - v)) % Order = 0
<1> USE DEF Compared
<1>1. Order \in Nat \ {0}
  BY Constants
<1>2. ASSUME NEW n \in Int, NEW x \in Int
      PROVE  (n + ((e * (x % Order)) % Order)) % Order = (n + e * x) % Order
  <2>1. PICK y \in Int : y = x % Order /\ Congruent(y, x, Order)
    <3>1. x % Order \in Int
      BY <1>1, Division
    <3> QED
      BY <1>1, <3>1, CongruentSame
  <2>2. Congruent(e * y, e * x, Order)
    BY <1>1, <2>1, CongruentProduct
  <2>3. PICK a \in Int, d \in Int : a = e * y /\ d = e * x
    OBVIOUS
  <2>4. Congruent(a, d, Order) /\ Congruent(n, n, Order)
    BY <1>1, <2>2, <2>3, CongruentSame
  <2>5. Congruent(n + a, n + d, Order)
    BY <1>1, <2>4, CongruentSum
  <2>6. (n + a) % Order = (n + d) % Order
    <3>1. PICK f \in Int, g \in Int : f = n + a /\ g = n + d
      OBVIOUS
    <3>2. f % Order = g % Order
      BY <1>1, <2>5, <3>1, SameRemainder
    <3> QED
      BY <3>1, <3>2
  <2>7. (n + (a % Order)) % Order = (n + a) % Order
    BY <1>1, SumOfRemainder
  <2> QED
    BY <2>1, <2>3, <2>6, <2>7
<1>3. PICK x \in Int, y \in Int, zero \in Int : x = c1 - zero /\ y = c2 - v /\ zero = 0 /\ x = c1
  OBVIOUS
<1>4. Minus(<<c1, c2>>, <<zero, v>>) = <<x % Order, y % Order>>
  BY <1>3 DEF Minus
<1>5. Times(e, <<x % Order, y % Order>>) = <<(e * (x % Order)) % Order, (e * (y % Order)) % Order>>
  BY DEF Times
<1>6. PICK s, t : s = (e * (x % Order)) % Order /\ t = (e * (y % Order)) % Order
  OBVIOUS
<1>7. Plus(<<n1, n2>>, <<s, t>>) = <<(n1 + s) % Order, (n2 + t) % Order>>
  BY DEF Plus
<1>8. (n1 + s) % Order = (n1 + e * x) % Order /\ (n2 + t) % Order = (n2 + e * y) % Order
  BY <1>2, <1>6
<1>9. BitOK(b) <=> <<b.response, zero>> = Plus(<<n1, n2>>, <<s, t>>)
  BY <1>3, <1>4, <1>5, <1>6 DEF BitOK
<1>10. PICK f, g : f = (n1 + e * x) % Order /\ g = (n2 + e * y) % Order
  OBVIOUS
<1>11. BitOK(b) <=> <<b.response, zero>> = <<f, g>>
  BY <1>7, <1>8, <1>9, <1>10
<1> QED
  BY <1>3, <1>10, <1>11

(* Two summands that complete the same sum to the same remainder.          *)
LEMMA SameSummand ==
  ASSUME NEW n \in Int, NEW a \in Int, NEW b \in Int, (n + a) % Order = (n + b) % Order
  PROVE  Congruent(a, b, Order)
<1>1. Order \in Nat \ {0}
  BY Constants
<1>2. PICK x \in Int, y \in Int : x = n + a /\ y = n + b
  OBVIOUS
<1>3. Congruent(x, y, Order) /\ Congruent(n, n, Order)
  <2>1. x % Order = y % Order
    BY <1>2
  <2> QED
    BY <1>1, <2>1, SameRemainder, CongruentSame
<1>4. Congruent(x - n, y - n, Order)
  BY <1>1, <1>3, CongruentSum
<1>5. x - n = a /\ y - n = b
  BY <1>2
<1> QED
  BY <1>4, <1>5

LEMMA CongruentScalars ==
  ASSUME NEW a \in Scalar, NEW b \in Scalar, Congruent(a, b, Order)
  PROVE  a = b
<1>1. Order \in Nat \ {0} /\ a \in 0..(Order - 1) /\ b \in 0..(Order - 1) /\ a \in Int /\ b \in Int
  BY Constants, ScalarsAreNumbers DEF Scalar
<1>2. a % Order = b % Order
  BY <1>1, SameRemainder
<1> QED
  BY <1>1, <1>2, RemainderOf

(* No value of a bit's signature can be altered, but for a challenge or a  *)
(* blinding of zero.                                                       *)
LEMMA SignatureBinds ==
  ASSUME NEW b \in BitProof, BitOK(b), b.challenge # 0, b.commitment[1] # 0, b.bit \in {0, 1},
         NEW other \in AlteredBit(b), BitOK(other)
  PROVE  other = b
<1>1. Order \in Nat \ {0} /\ Order > 1
  BY Constants
<1>2. PICK n1 \in Scalar, n2 \in Scalar, c1 \in Scalar, c2 \in Scalar, e \in Scalar, v \in {0, 1} :
        /\ b.nonce = <<n1, n2>> /\ b.commitment = <<c1, c2>> /\ b.challenge = e /\ b.bit = v
        /\ c1 \in 1..(Order - 1) /\ e \in 1..(Order - 1)
  <2>1. PICK n \in Point, c \in Point : n = b.nonce /\ c = b.commitment
    BY DEF BitProof
  <2>2. PICK n1 \in Scalar, n2 \in Scalar, c1 \in Scalar, c2 \in Scalar :
          n = <<n1, n2>> /\ c = <<c1, c2>>
    BY DEF Point
  <2>3. PICK e \in Scalar : e = b.challenge
    BY DEF BitProof
  <2>4. c1 # 0 /\ e # 0
    BY <2>1, <2>2, <2>3
  <2>5. c1 \in 1..(Order - 1) /\ e \in 1..(Order - 1)
    BY <1>1, <2>4 DEF Scalar
  <2> QED
    BY <2>1, <2>2, <2>3, <2>5
<1>3. n1 \in Int /\ n2 \in Int /\ c1 \in Int /\ c2 \in Int /\ e \in Int /\ v \in Int
  BY <1>2, ScalarsAreNumbers
<1>4. b.response = (n1 + e * c1) % Order /\ (n2 + e * (c2 - v)) % Order = 0
  <2>1. Compared(b, n1, n2, c1, c2, e, v)
    BY <1>2, <1>3 DEF Compared
  <2> QED
    BY <2>1, BitCompares
<1>6. Others \subseteq Point /\ Random \subseteq Scalar
  BY ConfidentialAssumption, Constants DEF Point, Scalar
<1>7. ASSUME NEW p \in Others, other = [b EXCEPT !.commitment = p]
      PROVE  other = b
  <2>1. PICK d1 \in Scalar, d2 \in Scalar : p = <<d1, d2>>
    BY <1>6 DEF Point
  <2>2. /\ other.nonce = <<n1, n2>> /\ other.commitment = <<d1, d2>> /\ other.challenge = e
        /\ other.bit = v /\ other.response = b.response
    BY <1>2, <1>7, <2>1 DEF BitProof
  <2>3. d1 \in Int /\ d2 \in Int
    BY ScalarsAreNumbers
  <2>4. b.response = (n1 + e * d1) % Order /\ (n2 + e * (d2 - v)) % Order = 0
    <3>1. Compared(other, n1, n2, d1, d2, e, v)
      BY <1>3, <2>2, <2>3 DEF Compared
    <3> QED
      BY <3>1, BitCompares, <2>2
  <2>5. PICK x \in Int, y \in Int : x = c2 - v /\ y = d2 - v
    BY <1>3, <2>3
  <2>6. PICK ec \in Int, ed \in Int, ex \in Int, ey \in Int :
          ec = e * c1 /\ ed = e * d1 /\ ex = e * x /\ ey = e * y
    BY <1>3, <2>3
  <2>7. (n1 + ec) % Order = (n1 + ed) % Order /\ (n2 + ex) % Order = (n2 + ey) % Order
    BY <1>4, <2>4, <2>5, <2>6
  <2>8. Congruent(ec, ed, Order) /\ Congruent(ex, ey, Order)
    BY <1>3, <2>7, SameSummand
  <2>9. Congruent(c1, d1, Order) /\ Congruent(x, y, Order)
    BY <1>2, <1>3, <2>3, <2>6, <2>8, Cancels
  <2>10. c1 = d1
    BY <2>9, CongruentScalars
  <2>11. c2 = d2
    <3>1. Congruent(v, v, Order)
      BY <1>1, <1>3, CongruentSame
    <3>2. Congruent(x + v, y + v, Order)
      BY <1>1, <1>3, <2>9, <3>1, CongruentSum
    <3>3. x + v = c2 /\ y + v = d2
      BY <1>3, <2>3, <2>5
    <3> QED
      BY <3>2, <3>3, CongruentScalars
  <2>12. p = b.commitment
    BY <1>2, <2>1, <2>10, <2>11
  <2> QED
    BY <1>7, <2>12 DEF BitProof
<1>8. ASSUME NEW p \in Others, other = [b EXCEPT !.nonce = p]
      PROVE  other = b
  <2>1. PICK m1 \in Scalar, m2 \in Scalar : p = <<m1, m2>>
    BY <1>6 DEF Point
  <2>2. /\ other.nonce = <<m1, m2>> /\ other.commitment = <<c1, c2>> /\ other.challenge = e
        /\ other.bit = v /\ other.response = b.response
    BY <1>2, <1>8, <2>1 DEF BitProof
  <2>3. m1 \in Int /\ m2 \in Int
    BY ScalarsAreNumbers
  <2>4. b.response = (m1 + e * c1) % Order /\ (m2 + e * (c2 - v)) % Order = 0
    <3>1. Compared(other, m1, m2, c1, c2, e, v)
      BY <1>3, <2>2, <2>3 DEF Compared
    <3> QED
      BY <3>1, BitCompares, <2>2
  <2>5. PICK x \in Int, y \in Int : x = e * c1 /\ y = e * (c2 - v)
    BY <1>3
  <2>6. (x + n1) % Order = (x + m1) % Order /\ (y + n2) % Order = (y + m2) % Order
    <3>1. x + n1 = n1 + x /\ x + m1 = m1 + x /\ y + n2 = n2 + y /\ y + m2 = m2 + y
      BY <1>3, <2>3
    <3>2. (n1 + x) % Order = (m1 + x) % Order /\ (n2 + y) % Order = (m2 + y) % Order
      BY <1>4, <2>4, <2>5
    <3> QED
      BY <3>1, <3>2
  <2>7. Congruent(n1, m1, Order) /\ Congruent(n2, m2, Order)
    BY <1>3, <2>3, <2>6, SameSummand
  <2>8. p = b.nonce
    BY <1>2, <2>1, <2>7, CongruentScalars
  <2> QED
    BY <1>8, <2>8 DEF BitProof
<1>9. ASSUME NEW n \in {0, 1}, other = [b EXCEPT !.bit = n]
      PROVE  other = b
  <2>1. /\ other.nonce = <<n1, n2>> /\ other.commitment = <<c1, c2>> /\ other.challenge = e
        /\ other.bit = n
    BY <1>2, <1>9 DEF BitProof
  <2>2. (n2 + e * (c2 - n)) % Order = 0
    <3>1. Compared(other, n1, n2, c1, c2, e, n)
      BY <1>3, <2>1 DEF Compared
    <3> QED
      BY <3>1, BitCompares
  <2>3. PICK x \in Int, y \in Int : x = c2 - v /\ y = c2 - n
    BY <1>3
  <2>4. PICK ex \in Int, ey \in Int : ex = e * x /\ ey = e * y
    BY <1>3
  <2>5. Congruent(ex, ey, Order)
    BY <1>3, <1>4, <2>2, <2>3, <2>4, SameSummand
  <2>6. Congruent(x, y, Order)
    BY <1>2, <2>4, <2>5, Cancels
  <2>7. Congruent(n, v, Order)
    <3>1. PICK z \in Int : z = v + n /\ Congruent(z, z, Order)
      BY <1>1, <1>3, CongruentSame
    <3>2. PICK w \in Int : w = z - c2 /\ Congruent(w, w, Order)
      BY <1>1, <1>3, CongruentSame
    <3>3. Congruent(x + w, y + w, Order)
      BY <1>1, <2>6, <3>2, CongruentSum
    <3>4. x + w = n /\ y + w = v
      BY <1>3, <2>3, <3>1, <3>2
    <3> QED
      BY <3>3, <3>4
  <2>8. n \in Scalar /\ v \in Scalar
    BY <1>1 DEF Scalar
  <2>9. n = b.bit
    BY <1>2, <2>7, <2>8, CongruentScalars
  <2> QED
    BY <1>9, <2>9 DEF BitProof
<1>10. ASSUME NEW n \in Random, other = [b EXCEPT !.challenge = n]
       PROVE  other = b
  <2>1. n \in Scalar /\ n \in Int
    BY <1>6, ScalarsAreNumbers
  <2>2. /\ other.nonce = <<n1, n2>> /\ other.commitment = <<c1, c2>> /\ other.challenge = n
        /\ other.bit = v /\ other.response = b.response
    BY <1>2, <1>10, <2>1 DEF BitProof
  <2>3. b.response = (n1 + n * c1) % Order
    <3>1. Compared(other, n1, n2, c1, c2, n, v)
      BY <1>3, <2>1, <2>2 DEF Compared
    <3> QED
      BY <3>1, BitCompares, <2>2
  <2>4. PICK x \in Int, y \in Int : x = c1 * e /\ y = c1 * n /\ x = e * c1 /\ y = n * c1
    BY <1>3, <2>1
  <2>5. Congruent(x, y, Order)
    BY <1>3, <1>4, <2>3, <2>4, SameSummand
  <2>6. Congruent(e, n, Order)
    BY <1>2, <1>3, <2>1, <2>4, <2>5, Cancels
  <2>7. n = b.challenge
    BY <1>2, <2>1, <2>6, CongruentScalars
  <2> QED
    BY <1>10, <2>7 DEF BitProof
<1>11. ASSUME NEW n \in Random, other = [b EXCEPT !.response = n]
       PROVE  other = b
  <2>1. /\ other.nonce = <<n1, n2>> /\ other.commitment = <<c1, c2>> /\ other.challenge = e
        /\ other.bit = v /\ other.response = n
    BY <1>2, <1>11 DEF BitProof
  <2>2. n = b.response
    <3>1. Compared(other, n1, n2, c1, c2, e, v)
      BY <1>3, <2>1 DEF Compared
    <3> QED
      BY <3>1, BitCompares, <1>4, <2>1
  <2> QED
    BY <1>11, <2>2 DEF BitProof
<1> QED
  BY <1>7, <1>8, <1>9, <1>10, <1>11 DEF AlteredBit

(* Without the last bit the others add up to something else.               *)
LEMMA LastBitCounts ==
  ASSUME NEW bits \in [1..Bits -> BitProof], bits[Bits].commitment[1] # 0
  PROVE  SumOf([i \in 1..Bits |-> Times(Power(2, i - 1), bits[i].commitment)])
           # SumOf([i \in 1..(Bits - 1) |-> Times(Power(2, i - 1), bits[i].commitment)])
<1>1. Order \in Nat \ {0} /\ Order > 1 /\ Bits \in 1..Bits /\ 1..(Bits - 1) \subseteq 1..Bits
      /\ (1..Bits) \ {Bits} = 1..(Bits - 1)
  BY Constants
<1>2. PICK all, less : /\ all = [i \in 1..Bits |-> Times(Power(2, i - 1), bits[i].commitment)]
                       /\ less = [i \in 1..(Bits - 1) |-> Times(Power(2, i - 1), bits[i].commitment)]
  OBVIOUS
<1>3. PICK xs, ys : /\ xs = [i \in 1..Bits |-> (Power(2, i - 1) * bits[i].commitment[1]) % Order]
                    /\ ys = [i \in 1..Bits |-> (Power(2, i - 1) * bits[i].commitment[2]) % Order]
  OBVIOUS
<1>4. ASSUME NEW i \in 1..Bits
      PROVE  xs[i] \in Scalar /\ ys[i] \in Scalar /\ all[i] = <<xs[i], ys[i]>>
  <2>1. PICK p \in Int, c1 \in Int, c2 \in Int :
          p = Power(2, i - 1) /\ c1 = bits[i].commitment[1] /\ c2 = bits[i].commitment[2]
    <3>1. Power(2, i - 1) \in Int
      <4>1. Power(2, i - 1) \in Nat \ {0}
        BY PlaceOK
      <4> QED
        BY <4>1
    <3>2. bits[i].commitment \in Point
      BY DEF BitProof
    <3>3. bits[i].commitment[1] \in Int /\ bits[i].commitment[2] \in Int
      BY <3>2, ScalarsAreNumbers DEF Point
    <3> QED
      BY <3>1, <3>3
  <2>2. PICK a \in Int, b \in Int : a = p * c1 /\ b = p * c2
    OBVIOUS
  <2>3. xs[i] = a % Order /\ ys[i] = b % Order /\ all[i] = <<a % Order, b % Order>>
    BY <1>2, <1>3, <2>1, <2>2 DEF Times
  <2>4. a % Order \in Scalar /\ b % Order \in Scalar
    BY <1>1, Division DEF Scalar
  <2> QED
    BY <2>3, <2>4
<1>5. DOMAIN all = 1..Bits /\ DOMAIN less = 1..(Bits - 1) /\ \A i \in 1..(Bits - 1) : less[i] = all[i]
  BY <1>1, <1>2
<1>6. IsFiniteSet(1..Bits) /\ IsFiniteSet(1..(Bits - 1))
  BY Constants, FS_Interval
<1>7. \A i \in 1..Bits : xs[i] \in Int /\ ys[i] \in Int /\ all[i] = <<xs[i], ys[i]>>
  BY <1>4, ScalarsAreNumbers
<1>8. SumOf(all)[1] = SumOver(xs, 1..Bits) % Order
  <2>1. \A i \in DOMAIN all : xs[i] \in Int /\ ys[i] \in Int /\ all[i] = <<xs[i], ys[i]>>
    BY <1>5, <1>7
  <2>2. SumOf(all) = <<SumOver(xs, DOMAIN all) % Order, SumOver(ys, DOMAIN all) % Order>>
    BY <1>1, <1>5, <1>6, <2>1, SumOfIsSums
  <2> QED
    BY <1>5, <2>2
<1>9. SumOf(less)[1] = SumOver(xs, 1..(Bits - 1)) % Order
  <2>1. \A i \in DOMAIN less : xs[i] \in Int /\ ys[i] \in Int /\ less[i] = <<xs[i], ys[i]>>
    BY <1>1, <1>5, <1>7
  <2>2. SumOf(less) = <<SumOver(xs, DOMAIN less) % Order, SumOver(ys, DOMAIN less) % Order>>
    BY <1>1, <1>5, <1>6, <2>1, SumOfIsSums
  <2> QED
    BY <1>5, <2>2
<1>10. PICK x \in Scalar, a \in Int, whole \in Int :
         /\ x = xs[Bits] /\ a = SumOver(xs, 1..(Bits - 1)) /\ whole = SumOver(xs, 1..Bits)
         /\ whole = x + a
  <2>1. PICK S : S = 1..Bits
    OBVIOUS
  <2>2. IsFiniteSet(S) /\ \A i \in S : xs[i] \in Int
    BY <1>6, <1>7, <2>1
  <2>3. /\ \A T \in SUBSET S : SumOver(xs, T) \in Int
        /\ \A T \in SUBSET S : \A i \in T : SumOver(xs, T) = xs[i] + SumOver(xs, T \ {i})
    BY <2>2, SumAdds
  <2>4. S \in SUBSET S /\ Bits \in S /\ S \ {Bits} = 1..(Bits - 1) /\ S \ {Bits} \in SUBSET S
    BY <1>1, <2>1
  <2>5. SumOver(xs, S) = xs[Bits] + SumOver(xs, S \ {Bits})
    BY <2>3, <2>4
  <2>6. SumOver(xs, S) \in Int /\ SumOver(xs, S \ {Bits}) \in Int
    BY <2>3, <2>4
  <2>7. xs[Bits] \in Scalar
    BY <1>1, <1>4
  <2> QED
    BY <2>1, <2>4, <2>5, <2>6, <2>7
<1>11. SUFFICES ASSUME SumOf(all) = SumOf(less)
                PROVE  FALSE
  BY <1>2
<1>12. x = 0
  <2>1. PICK zero \in Scalar : zero = 0 /\ zero \in Int /\ x \in Int
    BY ScalarsAreNumbers
  <2>2. a + x = whole /\ a + zero = a
    BY <1>10, <2>1
  <2>3. (a + x) % Order = (a + zero) % Order
    BY <1>8, <1>9, <1>10, <1>11, <2>2
  <2>4. Congruent(x, zero, Order)
    BY <2>1, <2>3, SameSummand
  <2> QED
    BY <2>1, <2>4, CongruentScalars
<1>13. PICK p \in 1..(Order - 1), c \in Scalar : /\ p = Power(2, Bits - 1)
                                                 /\ c = bits[Bits].commitment[1] /\ c # 0
  <2>1. bits[Bits].commitment \in Point
    BY <1>1 DEF BitProof
  <2> QED
    BY <2>1, PlaceOK DEF Point
<1>14. PICK d \in Int, zero \in Scalar : d = p * c /\ zero = 0 /\ d % Order = zero /\ c \in Int
  <2>1. c \in Int /\ p \in Int /\ 0 \in Scalar
    BY <1>1, ScalarsAreNumbers
  <2>2. PICK d \in Int : d = p * c
    BY <2>1
  <2>3. xs[Bits] = d % Order
    BY <1>1, <1>3, <1>13, <2>2
  <2> QED
    BY <1>10, <1>12, <2>1, <2>2, <2>3
<1>15. p * zero = zero /\ zero \in Int /\ zero % Order = zero
  BY <1>1, <1>14, RemainderOf
<1>16. Congruent(d, zero, Order)
  BY <1>1, <1>14, <1>15, SameRemainder
<1>17. Congruent(c, zero, Order)
  BY <1>14, <1>15, <1>16, Cancels
<1> QED
  BY <1>13, <1>14, <1>17, CongruentScalars

(* verify_range_proofs refuses an output with one value altered.           *)
LEMMA AlteredFails ==
  ASSUME NEW output \in Output, output.commitment = output.proof.whole, ProofOK(output.proof),
         \A j \in 1..Bits : /\ output.proof.bits[j].challenge # 0
                            /\ output.proof.bits[j].commitment[1] # 0
                            /\ output.proof.bits[j].bit \in {0, 1},
         NEW other \in Altered(output), other # output, other.proof # Stub
  PROVE  ~RangeOK(other)
<1>1. PICK c, w, bits : c = output.commitment /\ w = output.proof.whole /\ bits = output.proof.bits
  OBVIOUS
<1>2. /\ output.proof = [form |-> "RangeProofData", whole |-> w, bits |-> bits]
      /\ output = [commitment |-> c, proof |-> output.proof] /\ c = w
      /\ bits \in [1..Bits -> BitProof] /\ DOMAIN bits = 1..Bits
  <2>1. /\ output.proof = [form |-> "RangeProofData", whole |-> w, bits |-> bits]
        /\ output = [commitment |-> c, proof |-> output.proof]
    BY <1>1, OutputIs
  <2>2. bits \in [1..Bits -> BitProof]
    BY <1>1, OutputIs
  <2> QED
    BY <1>1, <2>1, <2>2
<1>3. Bits \in 1..Bits /\ 1..(Bits - 1) \subseteq 1..Bits
  BY Constants
<1>4. \A q : RangeOK([commitment |-> c, proof |-> q]) /\ q.form # Stub.form =>
               q.form = "RangeProofData" /\ c = q.whole /\ ProofOK(q)
  BY DEF RangeOK
<1>5. ASSUME NEW p \in Others, other = [output EXCEPT !.commitment = p]
      PROVE  ~RangeOK(other)
  <2>1. other = [commitment |-> p, proof |-> output.proof]
    BY <1>2, <1>5
  <2>2. p # w
    BY <1>2, <2>1
  <2>3. other.proof.form # Stub.form /\ other.proof.whole = w /\ other.commitment = p
    BY <1>2, <2>1 DEF Stub
  <2> QED
    BY <2>2, <2>3 DEF RangeOK
<1>6. ASSUME NEW q \in AlteredProof(output.proof), other = [output EXCEPT !.proof = q]
      PROVE  ~RangeOK(other)
  <2>1. other = [commitment |-> c, proof |-> q] /\ q # output.proof /\ q # Stub
    BY <1>2, <1>6
  <2>2. CASE q \in {Missing, Stub, Embedded}
    <3>1. q.form # "RangeProofData" /\ q.form # Stub.form
      BY <2>1, <2>2 DEF Missing, Stub, Embedded
    <3> QED
      BY <1>4, <2>1, <3>1
  <2>3. ASSUME NEW p \in Others, q = [output.proof EXCEPT !.whole = p]
        PROVE  ~RangeOK(other)
    <3>1. q = [form |-> "RangeProofData", whole |-> p, bits |-> bits]
      BY <1>2, <2>3
    <3>2. p # c /\ q.form # Stub.form /\ q.whole = p
      BY <1>2, <2>1, <3>1 DEF Stub
    <3> QED
      BY <1>4, <2>1, <3>2
  <2>4. CASE q = [output.proof EXCEPT !.bits = [j \in 1..(Bits - 1) |-> @[j]]]
    <3>1. PICK less : less = [j \in 1..(Bits - 1) |-> bits[j]]
      OBVIOUS
    <3>2. q = [form |-> "RangeProofData", whole |-> w, bits |-> less]
      <4>1. less = [j \in 1..(Bits - 1) |-> output.proof.bits[j]]
        BY <1>1, <3>1
      <4>2. q = [output.proof EXCEPT !.bits = less]
        BY <2>4, <4>1
      <4> QED
        BY <1>2, <4>2
    <3>3. q.form # Stub.form /\ q.whole = w /\ q.bits = less /\ DOMAIN less = 1..(Bits - 1)
      BY <3>1, <3>2 DEF Stub
    <3>4. SUFFICES ASSUME ProofOK(q) PROVE FALSE
      BY <1>4, <2>1, <3>3
    <3>5. w = SumOf([i \in 1..(Bits - 1) |-> Times(Power(2, i - 1), less[i].commitment)])
      BY <3>3, <3>4 DEF ProofOK
    <3>6. [i \in 1..(Bits - 1) |-> Times(Power(2, i - 1), less[i].commitment)]
            = [i \in 1..(Bits - 1) |-> Times(Power(2, i - 1), bits[i].commitment)]
      BY <3>1
    <3>7. w = SumOf([i \in 1..Bits |-> Times(Power(2, i - 1), bits[i].commitment)])
      BY <1>1, <1>2 DEF ProofOK
    <3>8. bits[Bits].commitment[1] # 0
      BY <1>1, <1>3
    <3> QED
      BY <1>2, <3>5, <3>6, <3>7, <3>8, LastBitCounts
  <2>5. ASSUME NEW j \in 1..Bits, NEW b \in AlteredBit(output.proof.bits[j]),
               q = [output.proof EXCEPT !.bits[j] = b]
        PROVE  ~RangeOK(other)
    <3>1. PICK new : new = [bits EXCEPT ![j] = b]
      OBVIOUS
    <3>2. q = [form |-> "RangeProofData", whole |-> w, bits |-> new]
      BY <1>2, <2>5, <3>1
    <3>3. q.form # Stub.form /\ q.bits = new /\ j \in DOMAIN new /\ new[j] = b
      BY <1>2, <3>1, <3>2 DEF Stub
    <3>4. SUFFICES ASSUME ProofOK(q) PROVE FALSE
      BY <1>4, <2>1, <3>3
    <3>5. BitOK(b)
      BY <3>3, <3>4 DEF ProofOK
    <3>6. /\ bits[j] \in BitProof /\ BitOK(bits[j]) /\ bits[j].challenge # 0
          /\ bits[j].commitment[1] # 0 /\ bits[j].bit \in {0, 1} /\ b \in AlteredBit(bits[j])
      BY <1>1, <1>2, <2>5 DEF ProofOK
    <3>7. b = bits[j]
      BY <3>5, <3>6, SignatureBinds
    <3>8. new = bits
      BY <1>2, <3>1, <3>7
    <3> QED
      BY <1>2, <2>1, <3>2, <3>8
  <2>6. \/ q \in {Missing, Stub, Embedded}
        \/ \E p \in Others : q = [output.proof EXCEPT !.whole = p]
        \/ q = [output.proof EXCEPT !.bits = [j \in 1..(Bits - 1) |-> @[j]]]
        \/ \E j \in 1..Bits : \E b \in AlteredBit(output.proof.bits[j]) :
             q = [output.proof EXCEPT !.bits[j] = b]
    BY DEF AlteredProof
  <2> QED
    BY <2>2, <2>3, <2>4, <2>5, <2>6
<1> QED
  BY <1>5, <1>6 DEF Altered

(* Whichever one value of a transaction is altered on its way, or to_dict  *)
(* has dropped its proofs: verify_range_proofs refuses what is left, for   *)
(* every length of a proof and every draw, unless it is a stub, or a       *)
(* challenge or the blinding of a bit is zero.                             *)
THEOREM AlteredIsRefused == Spec => []AlteredRefused
<1>1. TypeOK /\ CTInv /\ HonestInv => AlteredRefused
  <2> SUFFICES ASSUME TypeOK, CTInv, HonestInv, Checked, received # outputs, Binding,
                      \A i \in DOMAIN received : received[i].proof # Stub
               PROVE  ~verdict.range
    BY DEF AlteredRefused
  <2>1. PICK n \in Nat : n = Len(outputs) /\ DOMAIN outputs = 1..n
    BY DEF CTInv, BuiltOK
  <2>2. ASSUME NEW i \in 1..n
        PROVE  /\ outputs[i] \in Output /\ outputs[i].commitment = outputs[i].proof.whole
               /\ ProofOK(outputs[i].proof)
               /\ \A j \in 1..Bits : /\ outputs[i].proof.bits[j].challenge # 0
                                     /\ outputs[i].proof.bits[j].commitment[1] # 0
                                     /\ outputs[i].proof.bits[j].bit \in {0, 1}
    <3>1. outputs[i] \in Output
      <4>1. PICK S : S = Output
        OBVIOUS
      <4>2. outputs \in Seq(S)
        BY <4>1 DEF TypeOK
      <4>3. outputs[i] \in S
        BY <2>1, <4>2
      <4> QED
        BY <4>1, <4>3
    <3>2. outputs[i].commitment = outputs[i].proof.whole /\ ProofOK(outputs[i].proof)
      BY <2>1, SentIsAccepted
    <3>3. ASSUME NEW j \in 1..Bits
          PROVE  outputs[i].proof.bits[j].bit \in {0, 1}
      <4>1. PICK free, k, e :
              outputs[i].proof
                = Proof(amounts[i], blindings[i], [m \in 1..Bits |-> Bit(amounts[i], m)], free, k, e)
        BY <2>1 DEF HonestInv
      <4>2. outputs[i].proof.bits[j].bit = Bit(amounts[i], j)
        BY <4>1 DEF Proof
      <4>3. amounts[i] \in Nat
        BY <2>1 DEF CTInv, BuiltOK
      <4> QED
        BY <4>2, <4>3, BitTyped
    <3>4. \A j \in 1..Bits : /\ outputs[i].proof.bits[j].challenge # 0
                             /\ outputs[i].proof.bits[j].commitment[1] # 0
      BY <2>1 DEF Binding
    <3> QED
      BY <3>1, <3>2, <3>3, <3>4
  <2>3. SUFFICES ~RangesOK(received)
    BY DEF HonestInv
  <2>4. ASSUME NEW i \in 1..n, NEW other \in Altered(outputs[i]), received = [outputs EXCEPT ![i] = other]
        PROVE  ~RangesOK(received)
    <3>1. i \in DOMAIN received /\ received[i] = other
      BY <2>1, <2>4
    <3>2. other # outputs[i]
      <4>1. ASSUME other = outputs[i]
            PROVE  received = outputs
        BY <2>1, <2>4, <4>1 DEF CTInv, BuiltOK
      <4> QED
        BY <4>1
    <3>3. other.proof # Stub
      BY <3>1
    <3>4. ~RangeOK(other)
      BY <2>2, <3>2, <3>3, AlteredFails
    <3> QED
      BY <3>1, <3>4 DEF RangesOK
  <2>5. ASSUME received = [i \in DOMAIN outputs |-> [outputs[i] EXCEPT !.proof = Embedded]]
        PROVE  ~RangesOK(received)
    <3>1. DOMAIN outputs # {}
      <4>1. ASSUME DOMAIN outputs = {}
            PROVE  received = outputs
        BY <2>5, <4>1 DEF CTInv, BuiltOK
      <4> QED
        BY <4>1
    <3>2. PICK i : i \in DOMAIN outputs
      BY <3>1
    <3>3. outputs[i] \in Output
      BY <2>1, <2>2, <3>2
    <3>4. outputs[i] = [commitment |-> outputs[i].commitment, proof |-> outputs[i].proof]
      BY <3>3, OutputIs
    <3>5. received[i].proof = Embedded
      BY <2>5, <3>2, <3>4
    <3>6. ~RangeOK(received[i])
      BY <3>5 DEF RangeOK, Embedded, Stub
    <3> QED
      BY <2>5, <3>2, <3>6 DEF RangesOK
  <2> QED
    BY <2>1, <2>4, <2>5 DEF CTInv, ArrivedOK, Checked
<1> QED
  BY <1>1, TypeCorrect, CTAlways, HonestAlways, PTL
=============================================================================
