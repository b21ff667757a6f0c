---------------------------- MODULE MCNodeMining ----------------------------
(* Instances of NodeMining for TLC.                                        *)
EXTENDS NodeMining, TLC

CONSTANTS pay, clash,              \* two spends of the genesis coin
          fund, grab, late, again, \* a family that descends from a coinbase
          secret                   \* a confidential transaction

(* grab and again spend the same output of fund; late spends grab's.       *)
MCIns ==
  [t \in Tx |->
     CASE t \in {pay, clash, secret} -> << <<GenesisTx, 0>> >>
       [] t = fund -> << <<Coinbase(1), 0>> >>
       [] t \in {grab, again} -> << <<fund, 0>> >>
       [] t = late -> << <<grab, 0>> >>]

MCNumOuts == [t \in Tx |-> 1]

MCFee == [t \in Tx |-> CASE t \in {secret, clash} -> 2 [] t = pay -> 1 [] OTHER -> 0]

MCValue ==
  [t \in Tx |-> CASE t = grab -> 4 [] t \in {fund, pay} -> 3 [] t = late -> 2 [] OTHER -> 1]

MCSize == [t \in Tx |-> IF t = pay THEN 3 ELSE 2]

(* Every sequence of plain transactions.                                   *)
MCBodies == UNION {SetToSeqs(s) : s \in SUBSET Plain}

(* Only SendTransaction fills the mempool, on a node that never ends and   *)
(* mines when it has something to mine.                                    *)
SentOnlyNext ==
  \/ \E t \in Tx : SendTransaction(t)
  \/ \E p \in Process :
       \/ OpenNode(p) \/ StartNode(p) \/ Mining(p)
       \/ DOMAIN mempool \cap Plain # {} /\ MineBlock(p)

SentOnlySpec == NodeInit /\ [][SentOnlyNext]_allVars

Symmetry == Permutations(Hash) \cup Permutations(Process)
HashSymmetry == Permutations(Hash)
=============================================================================
