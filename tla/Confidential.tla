---------------------------- MODULE Confidential ----------------------------
(***************************************************************************)
(* Confidential transactions: ConfidentialTransactionEngine, RangeProof,   *)
(* signatures and the decoding of amounts, all in                          *)
(* src/agent/modules/privacy_layer.py.                                     *)
(*                                                                         *)
(* A sender builds a transaction output by output, one value of it may be  *)
(* altered on the way, a verifier checks balance and range proofs, and the *)
(* recipients decode their amounts with the blinding factors.              *)
(*                                                                         *)
(* The curve enters through its group only.  G and H generate independent  *)
(* subgroups of prime order Order, and nobody knows a relation between     *)
(* them, so the point r*G + v*H is the pair <<r, v>> of its coefficients.  *)
(* Hex strings are points here; the point at infinity has no encoding.     *)
(***************************************************************************)
EXTENDS Arithmetic, Sequences, SequencesExt

CONSTANTS
  Order,     \* N, the order of the group
  Bits,      \* RANGE_PROOF_BITS
  MaxValue,  \* max_value of the decoders
  TableSize, \* table_size of the baby-step table
  QuickMax,  \* the 10_000_000 of _fast_decode_amount
  Abscissa,  \* the x coordinates of 1*G, 2*G, ...
  Random,    \* bound: what the draws of os.urandom and the digests are
  Nonces,    \* bound: what _generate_rfc6979_k gives, first and once more
  Keys,      \* bound: private keys of senders; 0 stands for none
  Inputs,    \* bound: the inputs of a transaction, <<amount, blinding>> each
  Amounts,   \* bound: amounts of outputs and fees
  Others,    \* bound: points that a commitment or a nonce is altered to
  MaxOutputs \* bound: outputs of a transaction

ASSUME ConfidentialAssumption ==
  /\ {Order, Bits, TableSize} \subseteq Nat \ {0} /\ {MaxValue, QuickMax} \subseteq Nat
  /\ \A d \in 1..Order : Order % d = 0 => d \in {1, Order}
  /\ Power(2, Bits) < Order /\ MaxValue + 2 * TableSize < Order /\ QuickMax <= MaxValue
  /\ Abscissa \in [1..(Order - 1) -> Nat]
  /\ \A m, n \in 1..(Order - 1) : (Abscissa[m] = Abscissa[n]) <=> (m \in {n, Order - n})
  /\ Random \subseteq 0..(Order - 1) /\ Keys \subseteq 0..(Order - 1)
  /\ Nonces \subseteq (1..(Order - 1)) \X (1..(Order - 1))
  /\ Inputs \subseteq Seq(Nat \X (0..(Order - 1)))
  /\ Amounts \subseteq Nat
  /\ Others \subseteq ((0..(Order - 1)) \X (0..(Order - 1))) \ {<<0, 0>>}

Scalar == 0..(Order - 1)
Point == Scalar \X Scalar
Infinity == <<0, 0>>
Raised == "raised"
Unsigned == [scheme |-> "none"]

(* What range_proof of an output can be beside RangeProofData: nothing, a  *)
(* string of the form of earlier versions, another string.                 *)
Missing == [form |-> "None"]
Stub == [form |-> "STUB_RANGE_PROOF_v0"]
Embedded == [form |-> "embedded"]

VARIABLES
  stage,     \* "building", "built", "verified", "decoded", or "raised"
  spent,     \* the inputs: what the sender knows of them
  outputs,   \* the outputs of the transaction
  blindings, \* the blinding factors of the outputs
  amounts,   \* ghost: the amounts of the outputs
  fee,       \* the fee, and through it the fee's commitment
  signature, \* excess_sig
  received,  \* the outputs that the verifier and the recipients get
  verdict,   \* the answers of verify_balance and verify_range_proofs
  decoded    \* what the recipients have decoded, -1 for None

vars == <<stage, spent, outputs, blindings, amounts, fee, signature, received, verdict, decoded>>

-----------------------------------------------------------------------------
(* _point_add, _point_neg and _point_mul on coefficients.                  *)
Plus(p, q) == <<(p[1] + q[1]) % Order, (p[2] + q[2]) % Order>>
Minus(p, q) == <<(p[1] - q[1]) % Order, (p[2] - q[2]) % Order>>
Times(n, p) == <<(n * p[1]) % Order, (n * p[2]) % Order>>
SumOf(points) == FoldSeq(Plus, Infinity, points)
Total(numbers) == FoldSeq(+, 0, numbers)

(* PedersenCommitment.create: r*G + v*H, which raises at infinity.         *)
Commitment(value, blinding) == <<blinding % Order, value % Order>>
Unusable(value, blinding) == Commitment(value, blinding) = Infinity

(* Variant that keeps a draw of zero (TypeOK).                             *)
AsDrawn(draw) == draw

(* A draw that must not be zero.                                           *)
NonZero(draw) == IF draw = 0 THEN 1 ELSE draw

Bit(value, i) == (value \div Power(2, i - 1)) % 2

(* The blindings of the bits: free but for the last, which makes the       *)
(* weighted sum of all of them the blinding of the commitment.             *)
BitBlindings(total, free) ==
  LET running == Total([i \in 1..(Bits - 1) |-> free[i] * Power(2, i - 1)])
      last == CHOOSE x \in Scalar : (x * Power(2, Bits - 1) - (total - running)) % Order = 0
  IN [i \in 1..Bits |-> IF i < Bits THEN free[i] ELSE last]

(* RangeProof.create, for the bit of each position a commitment and a      *)
(* Schnorr signature that its blinding is known.                           *)
Proof(value, total, bit, free, k, e) ==
  LET r == BitBlindings(total, free)
  IN [form |-> "RangeProofData", whole |-> Commitment(value, total),
      bits |-> [i \in 1..Bits |->
        [commitment |-> Commitment(bit[i], r[i]), bit |-> bit[i],
         nonce |-> <<k, 0>>, challenge |-> e, response |-> (k + e * r[i]) % Order]]]

CreateProof(value, total, free, k, e) ==
  LET proof == Proof(value, total, [i \in 1..Bits |-> Bit(value, i)], free, k, e)
  IN IF \/ value >= Power(2, Bits)
        \/ \E i \in 1..Bits : proof.bits[i].commitment = Infinity
     THEN Missing ELSE proof

(* A bit's Schnorr signature.                                              *)
BitOK(b) ==
  <<b.response, 0>> = Plus(b.nonce, Times(b.challenge, Minus(b.commitment, <<0, b.bit>>)))

(* Variant that leaves out the sum (AlteredRefused).                       *)
ProofOKUnsummed(proof) == \A i \in DOMAIN proof.bits : BitOK(proof.bits[i])

(* RangeProof.verify: every signature, and the weighted sum of the bits.   *)
(* It asks neither for their number, nor for bits that are 0 or 1, nor     *)
(* whether a challenge is the digest that it should be.                    *)
ProofOK(proof) ==
  /\ \A i \in DOMAIN proof.bits : BitOK(proof.bits[i])
  /\ proof.whole =
       SumOf([i \in DOMAIN proof.bits |-> Times(Power(2, i - 1), proof.bits[i].commitment)])

(* verify_range_proofs, which takes a stub with no more than a warning.    *)
RangeOK(output) ==
  \/ output.proof.form = Stub.form
  \/ /\ output.proof.form = "RangeProofData"
     /\ output.commitment = output.proof.whole /\ ProofOK(output.proof)

RangesOK(outs) == \A i \in DOMAIN outs : RangeOK(outs[i])

(* Variant that accepts no excess (HonestVerifies).                        *)
BalanceOKExact(ins, outs) == SumOf(ins) = SumOf(outs)

(* verify_balance: the sums are equal, or differ by an excess that nothing *)
(* else is asked of.                                                       *)
BalanceOK(ins, outs) ==
  LET left == SumOf(ins)
      right == SumOf(outs)
  IN left = right \/ (left # Infinity /\ right # Infinity)

-----------------------------------------------------------------------------
ModInverse(n) == CHOOSE x \in Scalar : (n * x) % Order = 1

(* Variant that inverts the nonce before it draws another (SignatureHolds). *)
SignWithOldNonce(key, digest, nonces) ==
  LET k == IF Abscissa[nonces[1]] % Order = 0 THEN nonces[2] ELSE nonces[1]
      r == Abscissa[k] % Order
      s == (ModInverse(nonces[1]) * (digest + r * key)) % Order
  IN [scheme |-> "ecdsa", key |-> key, digest |-> digest,
      r |-> r, s |-> IF s > Order \div 2 THEN Order - s ELSE s]

(* _ecdsa_sign: another nonce if r is zero, and the lower of s and -s.     *)
Sign(key, digest, nonces) ==
  LET k == IF Abscissa[nonces[1]] % Order = 0 THEN nonces[2] ELSE nonces[1]
      r == Abscissa[k] % Order
      s == (ModInverse(k) * (digest + r * key)) % Order
  IN [scheme |-> "ecdsa", key |-> key, digest |-> digest,
      r |-> r, s |-> IF s > Order \div 2 THEN Order - s ELSE s]

(* _ecdsa_verify with the public key of key.                               *)
Verifies(key, digest, r, s) ==
  /\ r \in 1..(Order - 1) /\ s \in 1..(Order - 1)
  /\ LET n == (ModInverse(s) * (digest + r * key)) % Order
     IN n # 0 /\ Abscissa[n] % Order = r

(* Without a key, a Schnorr signature that the excess of the blindings is  *)
(* known, if there is one.                                                 *)
SignExcess(excess, k, e) ==
  IF excess = 0 THEN Unsigned
  ELSE [scheme |-> "schnorr", nonce |-> <<k, 0>>, challenge |-> e,
        response |-> (k + e * excess) % Order]

-----------------------------------------------------------------------------
(* Variant that counts the giant steps from one (DecodeSound).             *)
BSGSFromOne(v) ==
  LET rest(m) == (v - m * TableSize) % Order
      ends == {m \in 0..(MaxValue \div TableSize + 1) : rest(m) < TableSize}
      first == CHOOSE m \in ends : \A n \in ends : m <= n
  IN IF ends = {} \/ rest(first) = 0 THEN -1 ELSE (first + 1) * TableSize + rest(first)

(* _baby_step_giant_step_decode for the point v*H: giant step m leaves     *)
(* v - m*TableSize, the table holds 1..TableSize-1, and the search ends    *)
(* without an answer when a step leaves nothing.                           *)
BSGS(v) ==
  LET rest(m) == (v - m * TableSize) % Order
      ends == {m \in 0..(MaxValue \div TableSize + 1) :
                 \/ rest(m) = 0
                 \/ rest(m) < TableSize /\ m * TableSize + rest(m) <= MaxValue}
      first == CHOOSE m \in ends : \A n \in ends : m <= n
  IN IF ends = {} \/ rest(first) = 0 THEN -1 ELSE first * TableSize + rest(first)

(* _fast_decode_amount: the loop counts from zero and adds H first.        *)
Decode(commitment, blinding) ==
  LET target == Minus(commitment, <<blinding, 0>>)
  IN IF blinding = 0 \/ commitment = Infinity \/ target[1] # 0 THEN -1
     ELSE IF target = Infinity THEN 0
     ELSE IF target[2] <= QuickMax THEN target[2] - 1 ELSE BSGS(target[2])

-----------------------------------------------------------------------------
Init ==
  /\ stage = "building" /\ spent \in Inputs
  /\ outputs = << >> /\ blindings = << >> /\ amounts = << >>
  /\ fee = 0 /\ signature = Unsigned /\ received = << >> /\ verdict = << >> /\ decoded = << >>

(* build_ct_output for the next element of outputs_spec.                   *)
BuildOutput(value, draw, free, k, e) ==
  /\ stage = "building" /\ Len(outputs) < MaxOutputs
  /\ LET blinding == NonZero(draw)
         proof == CreateProof(value, blinding, free, NonZero(k), e)
     IN IF proof = Missing
        THEN stage' = Raised /\ UNCHANGED <<outputs, blindings, amounts>>
        ELSE /\ outputs' = Append(outputs, [commitment |-> Commitment(value, blinding), proof |-> proof])
             /\ blindings' = Append(blindings, blinding)
             /\ amounts' = Append(amounts, value)
             /\ UNCHANGED stage
  /\ UNCHANGED <<spent, fee, signature, received, verdict, decoded>>

(* The rest of build_ct_transaction: the fee is committed to with blinding *)
(* zero, which raises for no fee at all, and the commitments are signed.   *)
Excess == (Total([i \in DOMAIN spent |-> spent[i][2]]) - Total(blindings)) % Order

Finish(f, key, draw, digest, nonces) ==
  /\ stage = "building" /\ outputs # << >>
  /\ IF Unusable(f, 0) THEN stage' = Raised /\ UNCHANGED <<fee, signature, received>>
     ELSE /\ stage' = "built" /\ fee' = f /\ received' = outputs
          /\ signature' = IF key # 0 THEN Sign(key, digest, nonces)
                          ELSE SignExcess(Excess, NonZero(draw), digest)
  /\ UNCHANGED <<spent, outputs, blindings, amounts, verdict, decoded>>

(* One value of an output is altered, so that it can still be read: as the *)
(* tests do with a bit's response and with the commitment, any other value *)
(* of a bit's proof, its last bit lost, or another form of proof.          *)
AlteredBit(b) ==
  {[b EXCEPT !.commitment = p] : p \in Others} \cup {[b EXCEPT !.nonce = p] : p \in Others}
    \cup {[b EXCEPT !.bit = n] : n \in {0, 1}}
    \cup {[b EXCEPT !.challenge = n] : n \in Random}
    \cup {[b EXCEPT !.response = n] : n \in Random}

AlteredProof(proof) ==
  {Missing, Stub, Embedded}
    \cup {[proof EXCEPT !.whole = p] : p \in Others}
    \cup {[proof EXCEPT !.bits = [j \in 1..(Bits - 1) |-> @[j]]]}
    \cup UNION {{[proof EXCEPT !.bits[j] = b] : b \in AlteredBit(proof.bits[j])} : j \in 1..Bits}

Altered(output) ==
  {[output EXCEPT !.commitment = p] : p \in Others}
    \cup {[output EXCEPT !.proof = q] : q \in AlteredProof(output.proof)}

Alter(i) ==
  /\ stage = "built" /\ received = outputs /\ i \in DOMAIN outputs
  /\ \E other \in Altered(outputs[i]) \ {outputs[i]} :
       received' = [outputs EXCEPT ![i] = other]
  /\ UNCHANGED <<stage, spent, outputs, blindings, amounts, fee, signature, verdict, decoded>>

(* CTTransaction.to_dict, which puts a word in the place of every proof.   *)
ToDict ==
  /\ stage = "built" /\ received = outputs
  /\ received' = [i \in DOMAIN outputs |-> [outputs[i] EXCEPT !.proof = Embedded]]
  /\ UNCHANGED <<stage, spent, outputs, blindings, amounts, fee, signature, verdict, decoded>>

InCommitments == [i \in DOMAIN spent |-> Commitment(spent[i][1], spent[i][2])]
OutCommitments(outs) == Append([i \in DOMAIN outs |-> outs[i].commitment], Commitment(fee, 0))

Verify ==
  /\ stage = "built" /\ stage' = "verified"
  /\ verdict' = [balance |-> BalanceOK(InCommitments, OutCommitments(received)),
                 range |-> RangesOK(received)]
  /\ UNCHANGED <<spent, outputs, blindings, amounts, fee, signature, received, decoded>>

DecodeAll ==
  /\ stage = "verified" /\ stage' = "decoded"
  /\ decoded' = [i \in DOMAIN received |-> Decode(received[i].commitment, blindings[i])]
  /\ UNCHANGED <<spent, outputs, blindings, amounts, fee, signature, received, verdict>>

Next ==
  \/ \E value \in Amounts, draw \in Random, k \in Random, e \in Random :
       \E free \in [1..(Bits - 1) -> Random] : BuildOutput(value, draw, free, k, e)
  \/ \E f \in Amounts, key \in Keys, draw \in Random, digest \in Random, nonces \in Nonces :
       Finish(f, key, draw, digest, nonces)
  \/ \E i \in 1..MaxOutputs : Alter(i)
  \/ ToDict \/ Verify \/ DecodeAll

Spec == Init /\ [][Next]_vars

-----------------------------------------------------------------------------
BitProof == [commitment : Point, bit : Nat, nonce : Point, challenge : Scalar, response : Scalar]
ProofData(bits) == [form : {"RangeProofData"}, whole : Point \ {Infinity}, bits : bits]
Output == [commitment : Point \ {Infinity}, proof : ProofData([1..Bits -> BitProof])]
Arrived == [commitment : Point \ {Infinity},
            proof : ProofData(Seq(BitProof)) \cup {Missing, Stub, Embedded}]

Signature ==
  {Unsigned}
    \cup [scheme : {"ecdsa"}, key : Keys \ {0}, digest : Random, r : Scalar, s : Scalar]
    \cup [scheme : {"schnorr"}, nonce : Point, challenge : Random, response : Scalar]

TypeOK ==
  /\ stage \in {"building", "built", "verified", "decoded", Raised}
  /\ spent \in Inputs /\ outputs \in Seq(Output)
  /\ blindings \in Seq(Scalar \ {0}) /\ amounts \in Seq(Amounts) /\ fee \in Amounts \cup {0}
  /\ Len(blindings) = Len(outputs) /\ Len(amounts) = Len(outputs)
  /\ signature \in Signature /\ received \in Seq(Arrived)
  /\ stage \in {"built", "verified", "decoded"} => Len(received) = Len(outputs)
  /\ verdict \in [balance : BOOLEAN, range : BOOLEAN] \cup {<< >>}
  /\ decoded \in Seq(0..MaxValue \cup {-1})

Checked == stage \in {"verified", "decoded"}

(* Whatever the draws were, what build_ct_transaction returns passes both  *)
(* checks if its amounts and its fee add up to the inputs.  This is where  *)
(* the last bit's blinding, computed with a modular inverse, and the       *)
(* points at infinity could go wrong.                                      *)
HonestVerifies ==
  (Checked /\ received = outputs
     /\ Total([i \in DOMAIN spent |-> spent[i][1]]) = Total(amounts) + fee)
  => verdict.balance /\ verdict.range

(* Whichever one value of a transaction is altered on its way, be it only  *)
(* a bit's or the last bit lost, and also when to_dict has dropped the     *)
(* proofs, verify_range_proofs refuses it: "Range proof should fail for    *)
(* tampered output" (tests/test_agent.py:306, and :255 for a response).    *)
(* Not a stub, which is always taken, and not where a challenge or a       *)
(* blinding was drawn as zero and so binds nothing.                        *)
Binding == \A i \in DOMAIN outputs : \A j \in 1..Bits :
  LET b == outputs[i].proof.bits[j] IN b.challenge # 0 /\ b.commitment[1] # 0

AlteredRefused ==
  (/\ Checked /\ received # outputs /\ Binding
   /\ \A i \in DOMAIN received : received[i].proof # Stub)
  => ~verdict.range

(* What build_ct_transaction signs can be verified, though nothing in the  *)
(* program does: a sender's signature with the sender's public key, unless *)
(* r or s came out as zero; the other one, if the amounts balance, with    *)
(* what the commitments of inputs and outputs differ by.                   *)
SignatureHolds == Checked =>
  LET difference == Minus(SumOf(InCommitments), SumOf(OutCommitments(outputs)))
  IN CASE signature.scheme = "ecdsa" ->
            signature.r # 0 /\ signature.s # 0 =>
              Verifies(signature.key, signature.digest, signature.r, signature.s)
       [] signature.scheme = "schnorr" ->
            difference[2] = 0 =>
              <<signature.response, 0>>
                = Plus(signature.nonce, Times(signature.challenge, difference))
       [] OTHER -> difference[1] = 0

(* An amount above the quick range is decoded to itself or not at all,     *)
(* also one above MaxValue, where the giant steps go on below zero.        *)
DecodeSound == stage = "decoded" =>
  \A i \in DOMAIN outputs :
    received[i].commitment = outputs[i].commitment /\ amounts[i] > QuickMax
      => decoded[i] \in {amounts[i], -1}
=============================================================================
