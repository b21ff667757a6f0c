----------------------------- MODULE Difficulty -----------------------------
(***************************************************************************)
(* The difficulty and the reward of the blocks a node mines: the compact   *)
(* bits, get_next_bits and compute_block_reward of                         *)
(* src/agent/modules/blockchain_core.py, and the use that the miner in     *)
(* consensus_engine.py makes of them.                                      *)
(*                                                                         *)
(* Numbers are scaled: a hex digit has base Digit instead of 16, a byte is *)
(* two of them, a target has Digits of them instead of 64.  Bits are the   *)
(* pair <<exponent, coefficient>> that the code packs into an integer.     *)
(***************************************************************************)
EXTENDS Arithmetic, Sequences, FiniteSetsExt

CONSTANTS
  Digit, Digits,   \* base of a hex digit, and how many a target has
  GenesisBits,     \* GENESIS_BITS, in force before the first retarget
  EasyBits,        \* 0x207fffff, of the genesis block and of regtest blocks
  Interval,        \* DIFFICULTY_ADJUSTMENT_BLOCKS
  BlockTime,       \* TARGET_BLOCK_TIME_SEC
  Reward,          \* COINBASE_REWARD_SATOSHIS
  HalvingInterval, \* HALVING_INTERVAL
  Pace,            \* bound: seconds from one block's timestamp to the next
  MaxHeight        \* bound: height of the chain

Byte == Digit * Digit
Mantissa == Power(Byte, 3) \div 2   \* one more than the mask 0x7FFFFF
Compact == (3..(Digits \div 2)) \X (0..(Mantissa - 1))

ASSUME DifficultyAssumption ==
  /\ {Digits, Interval, BlockTime, HalvingInterval} \subseteq Nat \ {0}
  /\ Digit \in Nat \ {0, 1} /\ Reward \in Nat /\ MaxHeight \in Nat /\ Pace \subseteq Int
  /\ {GenesisBits, EasyBits} \subseteq Compact

VARIABLES
  chain,  \* the blocks by height, one place further on
  issued  \* ghost: satoshis created by the coinbases

vars == <<chain, issued>>

-----------------------------------------------------------------------------
(* bits_to_target.                                                         *)
TargetOf(bits) == (bits[2] % Mantissa) * Power(Byte, bits[1] - 3)

(* How many hex digits a target is written with, of the Digits it is       *)
(* padded to.  A larger one counts as having no leading zero.              *)
Written(target) == Min({n \in 0..Digits : target < Power(Digit, n)} \cup {Digits})

(* Variant without the mask (TypeOK).                                      *)
BitsOfUnmasked(target) ==
  LET exponent == Written(target) \div 2
  IN <<exponent, target \div Power(Byte, exponent - 3)>>

(* target_to_bits: half the digits, rounded down, are the exponent, and    *)
(* the mask cuts off what does not fit.                                    *)
BitsOf(target) ==
  LET exponent == Written(target) \div 2
  IN <<exponent, (target \div Power(Byte, exponent - 3)) % Mantissa>>

Height == Len(chain) - 1
At(h) == chain[h + 1]

RetargetDue == Height >= Interval /\ Height % Interval = 0

(* Variant that lets any timespan count (TargetBounded).                   *)
AnyTimespan == At(Height).time - At(Height - Interval).time

(* The time the last Interval blocks took, between a quarter and four      *)
(* times the plan.                                                         *)
Plan == Interval * BlockTime
Timespan == Min({Max({At(Height).time - At(Height - Interval).time, Plan \div 4}), Plan * 4})

(* get_next_bits.  The target that is scaled is that of the block Interval *)
(* blocks ago, not the tip's.                                              *)
Retargeted == (TargetOf(At(Height - Interval).bits) * Timespan) \div Plan
NextBits ==
  IF Height < Interval THEN GenesisBits
  ELSE IF Height % Interval # 0 THEN At(Height).bits
  ELSE BitsOf(Retargeted)

(* With less than six digits the shift by 8 * (exponent - 3) raises.        *)
Raises == RetargetDue /\ Written(Retargeted) < 6

(* Variant that halves one block late (RewardCapped).                      *)
LateReward(height) == Reward \div Power(2, height \div (HalvingInterval + 1))

(* compute_block_reward: halved by a shift, zero after 64 of them.         *)
RewardAt(height) ==
  LET halvings == height \div HalvingInterval
  IN IF halvings >= 64 THEN 0 ELSE Reward \div Power(2, halvings)

-----------------------------------------------------------------------------
(* create_genesis_block; its coinbase pays the reward of height 0.         *)
Init ==
  /\ chain = << [time |-> 0, bits |-> EasyBits] >>
  /\ issued = RewardAt(0)

Mined(pace, bits) ==
  /\ Height < MaxHeight
  /\ chain' = Append(chain, [time |-> At(Height).time + pace, bits |-> bits])
  /\ issued' = issued + RewardAt(Height + 1)

(* MiningEngine.mine_block: no hash is below a target of zero.             *)
MineBlock(pace) == ~Raises /\ TargetOf(NextBits) > 0 /\ Mined(pace, NextBits)

(* mine_regtest: a template of get_next_bits, mined with the easy bits.    *)
MineRegtest(pace) == ~Raises /\ Mined(pace, EasyBits)

Next == \E pace \in Pace : MineBlock(pace) \/ MineRegtest(pace)

Spec == Init /\ [][Next]_vars

-----------------------------------------------------------------------------
TypeOK ==
  /\ chain \in Seq([time : Int, bits : Compact])
  /\ chain # << >> /\ issued \in Nat

New == chain'[Len(chain) + 1].bits

(* A retarget never takes the target beyond four times the one it scales,  *)
(* whatever the timestamps say and whatever the compact form loses.        *)
TargetBounded ==
  [][ RetargetDue /\ New # EasyBits
        => TargetOf(New) <= 4 * TargetOf(At(Height - Interval).bits) ]_vars

(* All coinbases together pay less than twice the first period's: the cap  *)
(* of 21 million coins.                                                    *)
RewardCapped == issued <= 2 * Reward * HalvingInterval

(* "Difficulty adjusts every 2016 blocks (~2 weeks) to maintain 10-minute  *)
(* average block time" (SECOND-KNOWLEDGE-BRAIN.md:17): after a period of   *)
(* one difficulty that was quicker than planned the target does not rise,  *)
(* after a slower one it does not fall.                                    *)
PaceKept ==
  [][ LET took == At(Height).time - At(Height - Interval).time
          was == At(Height).bits
      IN (/\ RetargetDue /\ New # EasyBits
          /\ \A h \in Height - Interval + 1 .. Height : At(h).bits = was)
         => /\ took < Plan => TargetOf(New) <= TargetOf(was)
            /\ took > Plan => TargetOf(New) >= TargetOf(was) ]_vars
=============================================================================
