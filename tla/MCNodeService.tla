--------------------------- MODULE MCNodeService ---------------------------
(* Instances of NodeService for TLC.                                       *)
EXTENDS NodeService, TLC

CONSTANTS pay, fund, \* as in MCNodeMining
          user       \* the client that is not the operator

MCIns ==
  [t \in Tx |-> IF t = fund THEN << <<Coinbase(1), 0>> >> ELSE << <<GenesisTx, 0>> >>]
MCNumOuts == [t \in Tx |-> 1]
MCFee == [t \in Tx |-> IF t = pay THEN 1 ELSE 0]
MCValue == [t \in Tx |-> 3]
MCSize == [t \in Tx |-> 2]
MCBodies == UNION {SetToSeqs(s) : s \in SUBSET Plain}

Send(t) == [method |-> "send", tx |-> t]
Find(t) == [method |-> "find", tx |-> t]
Do(method) == [method |-> method]

MCBatches ==
  [c \in Client |->
     IF c = Operator THEN { <<Do("mine")>>, <<Send(fund), Do("mine"), Do("count")>> }
     ELSE { <<Send(pay), Do("unknown"), Do("junk")>>, <<Send(pay), Find(pay)>> }]
=============================================================================
