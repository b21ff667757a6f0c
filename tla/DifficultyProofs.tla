-------------------------- MODULE DifficultyProofs --------------------------
(* Proofs about Difficulty, for any bases and lengths of the numbers, any  *)
(* timestamps and any schedule of rewards.                                 *)
EXTENDS Difficulty, ArithmeticProofs

-----------------------------------------------------------------------------
(* The compact form.                                                       *)

LEMMA ByteTyped == Byte \in Nat \ {0} /\ Mantissa \in Nat \ {0}
<1>1. Digit \in Nat /\ Digit >= 2
  BY DifficultyAssumption
<1>2. Byte \in Nat /\ Byte >= 2
  <2>1. Digit * Digit >= 2
    BY <1>1
  <2> QED
    BY <1>1, <2>1 DEF Byte
<1>3. Power(Byte, 2) \in Nat \ {0} /\ Power(Byte, 3) = Byte * Power(Byte, 2)
  <2>1. \A n \in Nat : Power(Byte, n) \in Nat \ {0}
    BY <1>2, PowerPositive
  <2>2. \A n \in Nat : Power(Byte, n + 1) = Byte * Power(Byte, n)
    BY PowerSteps
  <2>3. 2 \in Nat /\ 2 + 1 = 3
    OBVIOUS
  <2> QED
    BY <2>1, <2>2, <2>3
<1>4. \A p \in Nat \ {0} : Byte * p \in Nat /\ Byte * p >= 2
  BY <1>2
<1>5. Power(Byte, 3) \in Nat /\ Power(Byte, 3) >= 2
  BY <1>3, <1>4
<1>6. Power(Byte, 3) \div 2 \in Nat \ {0}
  BY <1>5
<1> QED
  BY <1>2, <1>6 DEF Mantissa

(* The powers that the compact form is read and written with.              *)
LEMMA PlaceTyped == \A e \in 3..(Digits \div 2) : Power(Byte, e - 3) \in Nat \ {0}
<1>1. \A e \in 3..(Digits \div 2) : e - 3 \in Nat
  OBVIOUS
<1> QED
  BY <1>1, ByteTyped, PowerPositive

LEMMA TargetTyped == \A bits \in Compact : TargetOf(bits) \in Nat
<1>1. TAKE bits \in Compact
<1>2. bits[1] \in 3..(Digits \div 2) /\ bits[2] \in Nat
  BY ByteTyped DEF Compact
<1>3. bits[2] % Mantissa \in Nat
  BY <1>2, ByteTyped
<1>4. Power(Byte, bits[1] - 3) \in Nat
  BY <1>2, PlaceTyped
<1>5. \A m, n \in Nat : m * n \in Nat
  OBVIOUS
<1> QED
  BY <1>3, <1>4, <1>5 DEF TargetOf

LEMMA WrittenTyped == \A target : Written(target) \in 0..Digits
<1>1. TAKE target
<1> DEFINE T == {n \in 0..Digits : target < Power(Digit, n)} \cup {Digits}
<1>2. Digits \in Nat
  BY DifficultyAssumption
<1>3. T \subseteq 0..Digits /\ T # {} /\ T \subseteq Nat
  BY <1>2
<1> HIDE DEF T
<1>4. \E m \in T : \A n \in T : m <= n
  BY <1>3, NatMin
<1>5. Min(T) \in T
  BY <1>4 DEF Min
<1> QED
  BY <1>3, <1>5 DEF Written, T

(* What can be written has a compact form, and the compact form stands for *)
(* no more than what was written.                                          *)
LEMMA BitsTyped ==
  ASSUME NEW target \in Nat, Written(target) >= 6
  PROVE  BitsOf(target) \in Compact /\ TargetOf(BitsOf(target)) <= target
<1> DEFINE e == Written(target) \div 2
           p == Power(Byte, e - 3)
           c == (target \div p) % Mantissa
<1>1. Digits \in Nat /\ Written(target) \in 0..Digits
  BY DifficultyAssumption, WrittenTyped
<1>2. e \in 3..(Digits \div 2)
  BY <1>1
<1>3. BitsOf(target) = <<e, c>>
  BY DEF BitsOf
<1> HIDE DEF e
<1>4. p \in Nat \ {0} /\ Mantissa \in Nat \ {0}
  BY <1>2, PlaceTyped, ByteTyped
<1> HIDE DEF p
<1>5. target \div p \in Nat /\ (target \div p) * p <= target
  BY <1>4
<1>6. c \in 0..(Mantissa - 1) /\ c <= target \div p
  BY <1>4, <1>5
<1>7. c % Mantissa = c
  BY <1>4, <1>6
<1> HIDE DEF c
<1>8. c * p <= (target \div p) * p
  BY <1>4, <1>5, <1>6
<1>9. TargetOf(<<e, c>>) = c * p
  BY <1>7 DEF TargetOf, p
<1> QED
  BY <1>2, <1>3, <1>4, <1>5, <1>6, <1>8, <1>9 DEF Compact

-----------------------------------------------------------------------------
(* Retargets and types.                                                    *)

LEMMA BlocksTyped ==
  ASSUME TypeOK
  PROVE  /\ Height \in Nat
         /\ \A h \in 0..Height : At(h) \in [time : Int, bits : Compact]
<1>1. chain \in Seq([time : Int, bits : Compact])
  BY DEF TypeOK
<1>2. Len(chain) \in Nat /\ Len(chain) # 0
  BY DEF TypeOK
<1>3. \A i \in 1..Len(chain) : chain[i] \in [time : Int, bits : Compact]
  <2>1. PICK B : B = [time : Int, bits : Compact]
    OBVIOUS
  <2>2. chain \in Seq(B)
    BY <1>1, <2>1
  <2>3. \A i \in 1..Len(chain) : chain[i] \in B
    BY <2>2
  <2> QED
    BY <2>1, <2>3
<1>4. \A h \in 0..Height : h + 1 \in 1..Len(chain)
  BY <1>2 DEF Height
<1> QED
  BY <1>2, <1>3, <1>4 DEF Height, At

LEMMA MinMax ==
  ASSUME NEW x \in Int, NEW low \in Int, NEW high \in Int, low <= high
  PROVE  Min({Max({x, low}), high}) \in low..high
<1>1. Max({x, low}) \in Int /\ Max({x, low}) >= low /\ Max({x, low}) \in {x, low}
  <2>1. \E m \in {x, low} : \A n \in {x, low} : m >= n
    OBVIOUS
  <2>2. Max({x, low}) \in {x, low} /\ \A n \in {x, low} : Max({x, low}) >= n
    BY <2>1 DEF Max
  <2> QED
    BY <2>2
<1>2. PICK m : m = Max({x, low})
  OBVIOUS
<1>3. \E k \in {m, high} : \A n \in {m, high} : k <= n
  BY <1>1, <1>2
<1>4. Min({m, high}) \in {m, high} /\ \A n \in {m, high} : Min({m, high}) <= n
  BY <1>3 DEF Min
<1> QED
  BY <1>1, <1>2, <1>4

(* A retarget scales the target by at most four.                           *)
LEMMA RetargetTyped ==
  ASSUME TypeOK, Height >= Interval
  PROVE  /\ Retargeted \in Nat
         /\ Retargeted <= 4 * TargetOf(At(Height - Interval).bits)
<1> DEFINE was == TargetOf(At(Height - Interval).bits)
<1>1. Interval \in Nat \ {0} /\ BlockTime \in Nat \ {0}
  BY DifficultyAssumption
<1>2. Plan \in Nat \ {0}
  <2>1. \A m, n \in Nat \ {0} : m * n \in Nat \ {0}
    OBVIOUS
  <2> QED
    BY <1>1, <2>1 DEF Plan
<1>3. Height - Interval \in 0..Height /\ Height \in 0..Height
  BY <1>1, BlocksTyped
<1>4. /\ At(Height) \in [time : Int, bits : Compact]
      /\ At(Height - Interval) \in [time : Int, bits : Compact]
  BY <1>3, BlocksTyped
<1>5. was \in Nat
  BY <1>4, TargetTyped
<1>6. Timespan \in (Plan \div 4)..(Plan * 4)
  <2>1. At(Height).time - At(Height - Interval).time \in Int
    BY <1>4
  <2>2. Plan \div 4 \in Int /\ Plan * 4 \in Int /\ Plan \div 4 <= Plan * 4
    BY <1>2
  <2> QED
    BY <2>1, <2>2, MinMax DEF Timespan
<1>7. Retargeted = (was * Timespan) \div Plan
  BY DEF Retargeted
<1> HIDE DEF was
<1>8. Timespan \in Nat /\ Timespan <= 4 * Plan
  BY <1>2, <1>6
<1>9. was * Timespan \in Nat /\ was * Timespan <= (4 * was) * Plan
  <2>1. was * Timespan <= was * (4 * Plan)
    BY <1>2, <1>5, <1>8
  <2>2. was * (4 * Plan) = (4 * was) * Plan /\ was * Timespan \in Nat
    BY <1>2, <1>5, <1>8
  <2> QED
    BY <2>1, <2>2
<1>10. ASSUME NEW x \in Nat, NEW y \in Nat, x <= y * Plan
       PROVE  x \div Plan \in Nat /\ x \div Plan <= y
  BY <1>2, <1>10
<1>11. (was * Timespan) \div Plan \in Nat /\ (was * Timespan) \div Plan <= 4 * was
  BY <1>5, <1>9, <1>10
<1> QED
  BY <1>7, <1>11 DEF was

(* The bits a block gets, unless the node raises.                          *)
LEMMA NextBitsTyped ==
  ASSUME TypeOK, ~Raises
  PROVE  /\ NextBits \in Compact
         /\ RetargetDue => TargetOf(NextBits) <= 4 * TargetOf(At(Height - Interval).bits)
<1>1. Height \in Nat /\ Interval \in Nat \ {0}
  BY BlocksTyped, DifficultyAssumption
<1>2. CASE Height < Interval
  BY <1>1, <1>2, DifficultyAssumption DEF NextBits, RetargetDue
<1>3. CASE Height >= Interval /\ Height % Interval # 0
  <2>1. At(Height).bits \in Compact
    BY <1>1, BlocksTyped
  <2> QED
    BY <1>1, <1>3, <2>1 DEF NextBits, RetargetDue
<1>4. CASE RetargetDue
  <2>1. NextBits = BitsOf(Retargeted)
    BY <1>1, <1>4 DEF NextBits, RetargetDue
  <2>2. Written(Retargeted) >= 6
    BY <1>4, WrittenTyped, DifficultyAssumption DEF Raises
  <2>3. Retargeted \in Nat /\ Retargeted <= 4 * TargetOf(At(Height - Interval).bits)
    BY <1>4, RetargetTyped DEF RetargetDue
  <2>4. BitsOf(Retargeted) \in Compact /\ TargetOf(BitsOf(Retargeted)) <= Retargeted
    BY <2>2, <2>3, BitsTyped
  <2>5. TargetOf(BitsOf(Retargeted)) \in Nat
    BY <2>4, TargetTyped
  <2>6. TargetOf(At(Height - Interval).bits) \in Nat
    <3>1. Height - Interval \in 0..Height
      BY <1>1, <1>4 DEF RetargetDue
    <3> QED
      BY <3>1, BlocksTyped, TargetTyped
  <2> QED
    BY <2>1, <2>3, <2>4, <2>5, <2>6
<1> QED
  BY <1>1, <1>2, <1>3, <1>4 DEF RetargetDue

LEMMA RewardTyped == \A h \in Nat : RewardAt(h) \in Nat
<1>1. TAKE h \in Nat
<1>2. h \div HalvingInterval \in Nat /\ Reward \in Nat
  BY DifficultyAssumption
<1>3. Power(2, h \div HalvingInterval) \in Nat \ {0}
  BY <1>2, PowerPositive
<1>4. Reward \div Power(2, h \div HalvingInterval) \in Nat
  BY <1>2, <1>3
<1> QED
  BY <1>4 DEF RewardAt

LEMMA TypeStep ==
  ASSUME TypeOK, [Next]_vars
  PROVE  TypeOK'
<1>1. CASE UNCHANGED vars
  BY <1>1 DEF vars, TypeOK
<1>2. ASSUME NEW pace \in Pace, NEW bits \in Compact, Mined(pace, bits)
      PROVE  TypeOK'
  <2>1. Height \in Nat /\ At(Height).time \in Int /\ pace \in Int
    BY BlocksTyped, DifficultyAssumption
  <2>2. RewardAt(Height + 1) \in Nat
    BY <2>1, RewardTyped
  <2>3. issued' \in Nat
    BY <1>2, <2>2 DEF Mined, TypeOK
  <2>4. [time |-> At(Height).time + pace, bits |-> bits] \in [time : Int, bits : Compact]
    BY <2>1
  <2>5. chain' \in Seq([time : Int, bits : Compact]) /\ chain' # << >>
    BY <1>2, <2>4 DEF Mined, TypeOK
  <2> QED
    BY <2>3, <2>5 DEF TypeOK
<1>3. ASSUME NEW pace \in Pace, MineBlock(pace)
      PROVE  TypeOK'
  BY <1>2, <1>3, NextBitsTyped DEF MineBlock
<1>4. ASSUME NEW pace \in Pace, MineRegtest(pace)
      PROVE  TypeOK'
  BY <1>2, <1>4, DifficultyAssumption DEF MineRegtest
<1> QED
  BY <1>1, <1>3, <1>4 DEF Next

(* The chain keeps its type, above all its bits: what get_next_bits writes *)
(* never overflows the coefficient or falls below the exponents that can   *)
(* be read back.                                                           *)
THEOREM TypeCorrect == Spec => []TypeOK
<1>1. Init => TypeOK
  <2>1. RewardAt(0) \in Nat
    BY RewardTyped
  <2> QED
    BY <2>1, DifficultyAssumption DEF Init, TypeOK
<1>2. TypeOK /\ [Next]_vars => TypeOK'
  BY TypeStep
<1> QED
  BY <1>1, <1>2, PTL DEF Spec


(* A retarget never takes the target beyond four times the one it scales,  *)
(* whatever the timestamps were and whatever the compact form cut off.     *)
THEOREM TargetStaysBounded == Spec => TargetBounded
<1>1. TypeOK /\ [Next]_vars =>
        [RetargetDue /\ New # EasyBits
           => TargetOf(New) <= 4 * TargetOf(At(Height - Interval).bits)]_vars
  <2> SUFFICES ASSUME TypeOK, Next, RetargetDue, New # EasyBits
               PROVE  TargetOf(New) <= 4 * TargetOf(At(Height - Interval).bits)
    OBVIOUS
  <2>1. ASSUME NEW pace, NEW bits, Mined(pace, bits)
        PROVE  New = bits
    <3>1. Len(chain) \in Nat
      BY DEF TypeOK
    <3> QED
      BY <2>1, <3>1 DEF Mined, New, TypeOK
  <2>2. PICK pace \in Pace : MineBlock(pace)
    BY <2>1 DEF Next, MineRegtest
  <2>3. New = NextBits /\ ~Raises
    BY <2>1, <2>2 DEF MineBlock
  <2> QED
    BY <2>3, NextBitsTyped
<1> QED
  BY <1>1, TypeCorrect, PTL DEF Spec, TargetBounded

-----------------------------------------------------------------------------
(* The cap on the coins.                                                   *)

(* After k halvings and m blocks since the last one.  Each period pays at  *)
(* most half of what the period before it could pay, so that the payments  *)
(* so far and as much again as the present period could pay stay below     *)
(* twice the first period's; multiplied out, for the shift rounds down.    *)
WithinCap(total, k, m) ==
  total * Power(2, k) <= (HalvingInterval * Reward) * (2 * Power(2, k) - 2) + m * Reward

CapInv == WithinCap(issued, Height \div HalvingInterval, (Height % HalvingInterval) + 1)

LEMMA RewardHalves ==
  ASSUME NEW h \in Nat
  PROVE  RewardAt(h) * Power(2, h \div HalvingInterval) <= Reward
<1> DEFINE p == Power(2, h \div HalvingInterval)
<1>1. h \div HalvingInterval \in Nat /\ Reward \in Nat
  BY DifficultyAssumption
<1>2. p \in Nat \ {0}
  BY <1>1, PowerPositive
<1>3. RewardAt(h) = 0 \/ RewardAt(h) = Reward \div p
  BY DEF RewardAt
<1> HIDE DEF p
<1>4. (Reward \div p) * p <= Reward /\ 0 * p <= Reward
  BY <1>1, <1>2
<1>5. RewardAt(h) * p <= Reward
  BY <1>3, <1>4
<1> QED
  BY <1>5 DEF p

LEMMA CapKept ==
  ASSUME NEW h \in Nat, NEW total \in Nat, NEW next \in Nat,
         WithinCap(total, h \div HalvingInterval, (h % HalvingInterval) + 1),
         next * Power(2, (h + 1) \div HalvingInterval) <= Reward
  PROVE  WithinCap(total + next, (h + 1) \div HalvingInterval, ((h + 1) % HalvingInterval) + 1)
<1> DEFINE k == h \div HalvingInterval
           m == (h % HalvingInterval) + 1
<1>1. HalvingInterval \in Nat \ {0} /\ Reward \in Nat
  BY DifficultyAssumption
<1>2. k \in Nat /\ m \in 1..HalvingInterval /\ h + 1 = HalvingInterval * k + m
  BY <1>1
<1>3. PICK p \in Nat : p = Power(2, k) /\ Power(2, k + 1) = 2 * p
  <2>1. Power(2, k) \in Nat
    BY <1>2, PowerPositive
  <2>2. Power(2, k + 1) = 2 * Power(2, k)
    BY <1>2, PowerSteps
  <2> QED
    BY <2>1, <2>2
<1>4. PICK cap \in Nat : cap = HalvingInterval * Reward
  BY <1>1
<1>5. total * p <= cap * (2 * p - 2) + m * Reward
  BY <1>3, <1>4 DEF WithinCap
<1>6. CASE m < HalvingInterval
  <2>1. (h + 1) \div HalvingInterval = k /\ (h + 1) % HalvingInterval = m
    BY <1>1, <1>2, <1>6
  <2> HIDE DEF k, m
  <2>2. next * p <= Reward
    BY <1>3, <2>1
  <2>3. (total + next) * p = total * p + next * p /\ (m + 1) * Reward = m * Reward + Reward
    BY <1>1, <1>2
  <2>4. (total + next) * p <= cap * (2 * p - 2) + (m + 1) * Reward
    <3>1. total * p \in Int /\ next * p \in Int /\ cap * (2 * p - 2) \in Int /\ m * Reward \in Int
      BY <1>1, <1>2
    <3> QED
      BY <1>1, <1>5, <2>2, <2>3, <3>1
  <2> QED
    BY <1>3, <1>4, <2>1, <2>4 DEF WithinCap
<1>7. CASE m = HalvingInterval
  <2>1. (h + 1) \div HalvingInterval = k + 1 /\ (h + 1) % HalvingInterval = 0
    BY <1>1, <1>2, <1>7
  <2> HIDE DEF k, m
  <2>2. next * (2 * p) <= Reward
    BY <1>3, <2>1
  <2>3. total * p <= cap * (2 * p - 2) + cap
    BY <1>4, <1>5, <1>7
  <2>4. cap * (2 * p - 2) + cap = 2 * (cap * p) - cap /\ cap * (2 * (2 * p) - 2) = 4 * (cap * p) - 2 * cap
        /\ (total + next) * (2 * p) = 2 * (total * p) + next * (2 * p)
    OBVIOUS
  <2>5. (total + next) * (2 * p) <= cap * (2 * (2 * p) - 2) + 1 * Reward
    <3>1. total * p \in Int /\ next * (2 * p) \in Int /\ cap * p \in Int
      OBVIOUS
    <3> QED
      BY <1>1, <2>2, <2>3, <2>4, <3>1
  <2> QED
    BY <1>3, <1>4, <2>1, <2>5 DEF WithinCap
<1>8. m < HalvingInterval \/ m = HalvingInterval
  BY <1>1, <1>2
<1> HIDE DEF k, m
<1> QED
  BY <1>6, <1>7, <1>8

(* However many blocks are mined, all coinbases together pay less than     *)
(* twice what the blocks before the first halving pay: with the constants  *)
(* of the code, 21 million coins.                                          *)
THEOREM CoinsAreCapped == Spec => []RewardCapped
<1>1. HalvingInterval \in Nat \ {0} /\ Reward \in Nat
  BY DifficultyAssumption
<1>2. Init => CapInv
  <2>1. SUFFICES ASSUME Init PROVE CapInv
    OBVIOUS
  <2>2. Height = 0
    BY <2>1 DEF Init, Height
  <2>3. 0 \div HalvingInterval = 0 /\ 0 % HalvingInterval = 0 /\ Power(2, 0) = 1
    BY <1>1, PowerSteps
  <2>4. RewardAt(0) \in Nat /\ RewardAt(0) * 1 <= Reward
    BY <2>3, RewardTyped, RewardHalves
  <2>5. WithinCap(RewardAt(0), 0, 1)
    BY <1>1, <2>3, <2>4 DEF WithinCap
  <2> QED
    BY <2>1, <2>2, <2>3, <2>5 DEF CapInv, Init
<1>3. TypeOK /\ CapInv /\ [Next]_vars => CapInv'
  <2> SUFFICES ASSUME TypeOK, CapInv, [Next]_vars PROVE CapInv'
    OBVIOUS
  <2>1. CASE UNCHANGED vars
    BY <2>1 DEF vars, CapInv, WithinCap, Height
  <2>2. ASSUME NEW pace, NEW bits, Mined(pace, bits)
        PROVE  CapInv'
    <3>1. Height \in Nat /\ issued \in Nat
      BY BlocksTyped DEF TypeOK
    <3>2. Height' = Height + 1
      BY <2>2, <3>1 DEF Mined, Height, TypeOK
    <3>3. issued' = issued + RewardAt(Height + 1)
      BY <2>2 DEF Mined
    <3>4. RewardAt(Height + 1) \in Nat
          /\ RewardAt(Height + 1) * Power(2, (Height + 1) \div HalvingInterval) <= Reward
      BY <3>1, RewardTyped, RewardHalves
    <3>5. WithinCap(issued + RewardAt(Height + 1), (Height + 1) \div HalvingInterval,
                    ((Height + 1) % HalvingInterval) + 1)
      BY <3>1, <3>4, CapKept DEF CapInv
    <3> QED
      BY <3>2, <3>3, <3>5 DEF CapInv
  <2> QED
    BY <2>1, <2>2 DEF Next, MineBlock, MineRegtest
<1>4. TypeOK /\ CapInv => RewardCapped
  <2> SUFFICES ASSUME TypeOK, CapInv PROVE RewardCapped
    OBVIOUS
  <2>1. Height \in Nat /\ issued \in Nat
    BY BlocksTyped DEF TypeOK
  <2>2. PICK k \in Nat, m \in 1..HalvingInterval :
          k = Height \div HalvingInterval /\ m = (Height % HalvingInterval) + 1
    BY <1>1, <2>1
  <2>3. PICK p \in Nat \ {0} : p = Power(2, k)
    BY <2>2, PowerPositive
  <2>4. PICK cap \in Nat : cap = HalvingInterval * Reward
    BY <1>1
  <2>5. issued * p <= cap * (2 * p - 2) + m * Reward
    BY <2>2, <2>3, <2>4 DEF CapInv, WithinCap
  <2>6. m * Reward <= cap
    BY <1>1, <2>4
  <2>7. issued * p <= (2 * cap) * p
    BY <1>1, <2>1, <2>5, <2>6
  <2>8. issued <= 2 * cap
    BY <2>1, <2>7
  <2> QED
    BY <1>1, <2>4, <2>8 DEF RewardCapped
<1> QED
  BY <1>2, <1>3, <1>4, TypeCorrect, PTL DEF Spec
=============================================================================
