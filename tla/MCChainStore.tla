---------------------------- MODULE MCChainStore ----------------------------
(* Instances of ChainStore for TLC.                                        *)
EXTENDS ChainStore, TLC, SequencesExt

CONSTANTS fund, grab, late, change, \* transactions
          MaxBody                   \* bound: ordinary transactions per block

(* fund spends the first coinbase, grab and late descend from its first    *)
(* output; change spends the genesis coin and fund's second output.        *)
MCIns ==
  [t \in Tx |->
     CASE t = fund -> << <<Coinbase(1), 0>> >>
       [] t = grab -> << <<fund, 0>> >>
       [] t = late -> << <<grab, 0>> >>
       [] t = change -> << <<GenesisTx, 0>>, <<fund, 1>> >>]

MCNumOuts == [t \in Tx |-> IF t = fund THEN 2 ELSE 1]

(* Every sequence without repetition of at most MaxBody transactions.      *)
MCBodies == {b \in SeqOf(Tx, MaxBody) : IsInjective(b)}

HashSymmetry == Permutations(Hash)
=============================================================================
