----------------------------- MODULE NodeMining -----------------------------
(***************************************************************************)
(* Mining on a node: Orchestrator.mine_block of src/agent/orchestrator.py  *)
(* with the mempool and the tip summary that MemoryManager keeps in        *)
(* agent_memory.db, and the checkpoint row of HybridConsensus.submit_block.*)
(* The chain database and apply_block are ChainStore's; this module adds   *)
(* what mine_block does before (choose the transactions) and after (record *)
(* a checkpoint, clear the mempool, save the tip).  agent_memory.db is a   *)
(* separate file and every write to it commits on its own, so a process    *)
(* that ends in the middle leaves the two files at different points.       *)
(***************************************************************************)
EXTENDS ChainStore, SequencesExt

CONSTANTS
  Plain,            \* transactions mine_block can rebuild; the rest, the
                    \* confidential ones, fail TxInput(**i) and are skipped
  Fee,              \* Tx -> the fee_satoshis column it is submitted with
  Value,            \* Tx -> its total_output_satoshis
  Size,             \* Tx -> length of its JSON
  Limit,            \* get_mempool's LIMIT
  MaxSize,          \* MAX_BLOCK_SIZE_BYTES
  CoinbaseEstimate, \* the template's allowance for the coinbase
  CoinbaseSize,     \* what the coinbase and the brackets really take
  Separator,        \* what the list separator adds per transaction
  CheckpointInterval

ASSUME MiningAssumption ==
  /\ Plain \subseteq Tx
  /\ Fee \in [Tx -> Nat] /\ Value \in [Tx -> Nat] /\ Size \in [Tx -> Nat]
  /\ Limit \in Nat /\ MaxSize \in Nat
  /\ CoinbaseEstimate \in Nat /\ CoinbaseSize \in Nat /\ Separator \in Nat
  /\ CheckpointInterval \in Nat \ {0}

VARIABLES
  mempool,      \* durable: table mempool, transaction -> fee_satoshis
  checkpoints,  \* durable: block hashes with a row in table checkpoints
  savedTip,     \* durable: kv_store chain.tip_hash
  savedHeight,  \* durable: kv_store chain.height
  call,         \* each process's mine_block in progress, or None
  submitted     \* ghost: transactions ever put into the mempool

notes == <<checkpoints, savedTip, savedHeight>>
nodeVars == <<mempool, notes, call, submitted>>
allVars == <<vars, nodeVars>>

(* A mine_block in progress: the stage it is at, its block, and the mined  *)
(* transactions still to be cleared from the mempool.                      *)
Stage == {"apply", "checkpoint", "clear", "height"}
Call == [stage : Stage, hash : BlockHash, height : Nat, todo : Seq(Tx)]

NodeInit ==
  /\ Init
  /\ mempool = << >>
  /\ checkpoints = {} /\ savedTip = None /\ savedHeight = -1
  /\ call = [p \in Process |-> None]
  /\ submitted = {}

-----------------------------------------------------------------------------
(* The mempool.                                                            *)

(* add_to_mempool: INSERT OR REPLACE, with no check of any kind.           *)
AddToMempool(t, fee) ==
  /\ mempool' = [u \in DOMAIN mempool \cup {t} |-> IF u = t THEN fee ELSE mempool[u]]
  /\ submitted' = submitted \cup {t}
  /\ UNCHANGED <<vars, notes, call>>

(* Variant with no default for the fee (NodeTypeOK).                       *)
SendWithoutFee(t) == t \notin submitted /\ AddToMempool(t, None)

(* send_transaction and send_ct_transaction, once per transaction.         *)
SendTransaction(t) == t \notin submitted /\ AddToMempool(t, Fee[t])

(* _on_tx_received, sendrawtransaction: a transaction comes, for the first *)
(* time or again, mined already or not; its fee column becomes 0.          *)
ReceiveTransaction(t) == AddToMempool(t, 0)

(* The rows get_mempool returns: the Limit highest fees, ties arbitrary.   *)
Windows ==
  LET rows == DOMAIN mempool
      n == IF Cardinality(rows) < Limit THEN Cardinality(rows) ELSE Limit
  IN {w \in SUBSET rows :
        /\ Cardinality(w) = n
        /\ \A t \in w, u \in rows \ w : mempool[t] >= mempool[u]}

(* The order build_block_template puts them in.  A Transaction has no fee, *)
(* so sorted() falls back on the total output value; it is stable.         *)
Before(t, u) ==
  Value[t] > Value[u] \/ (Value[t] = Value[u] /\ mempool[t] >= mempool[u])

Sorted(txs) ==
  {s \in SetToSeqs(txs) : \A i, j \in DOMAIN s : i < j => Before(s[i], s[j])}

(* The greedy choice under the size limit: what does not fit is skipped.   *)
Fitting(s) ==
  FoldLeft(LAMBDA acc, t :
             IF acc.size + Size[t] <= MaxSize
             THEN [size |-> acc.size + Size[t], txs |-> Append(acc.txs, t)]
             ELSE acc,
           [size |-> CoinbaseEstimate, txs |-> << >>], s).txs

(* The transactions of the next template, for each resolution of ties: of  *)
(* the rows that can be rebuilt, those that fit.  (Bodies and ToSet bound  *)
(* the choice only for the proofs; the instances leave nothing out.)       *)
Selections ==
  {body \in Bodies : \E w \in Windows :
     /\ ToSet(body) \subseteq w \cap Plain
     /\ \E s \in Sorted(w \cap Plain) : body = Fitting(s)}

(* validate_size: the length of the JSON list of all transactions.         *)
FitsBlock(body) ==
  CoinbaseSize + FoldLeft(LAMBDA acc, t : acc + Size[t] + Separator, 0, body) <= MaxSize

-----------------------------------------------------------------------------
(* mine_block: choose, mine and start to apply.  A block over the size     *)
(* limit is refused by validate_block before anything is written.          *)
MineBlock(p) ==
  /\ call[p] = None
  /\ \E body \in Selections :
       /\ FitsBlock(body)
       /\ Mine(p, body)
       /\ call' = [call EXCEPT ![p] =
            [stage |-> "apply", hash |-> job'[p].hash, height |-> job'[p].block.height,
             todo |-> body]]
  /\ UNCHANGED <<mempool, notes, submitted>>

(* start_node's genesis block does not go through mine_block.              *)
StartNode(p) == call[p] = None /\ ApplyGenesis(p) /\ UNCHANGED nodeVars

(* Variant that saves the tip also when the block was rejected             *)
(* (SavedTipOnChain).                                                      *)
RejectAndSave(p) ==
  /\ RejectBlock(p)
  /\ call' = [call EXCEPT ![p].stage = "clear", ![p].todo = << >>]
  /\ UNCHANGED <<mempool, notes, submitted>>

(* Variant that clears the transactions of a rejected block too            *)
(* (NoTxLeavesChain, ImplementsLifecycle).                                 *)
RejectAndClear(p) ==
  /\ RejectBlock(p)
  /\ call' = [call EXCEPT ![p].stage = "clear"]
  /\ UNCHANGED <<mempool, notes, submitted>>

(* apply_block returns False: mine_block reports it and leaves the mempool *)
(* as it is.                                                               *)
Rejected(p) ==
  /\ RejectBlock(p)
  /\ call' = [call EXCEPT ![p] = None]
  /\ UNCHANGED <<mempool, notes, submitted>>

(* Variant that leaves the mined transactions in the mempool               *)
(* (SubmittedIsMined).                                                     *)
AcceptWithoutClearing(p) ==
  /\ StoreBlock(p)
  /\ call' = [call EXCEPT ![p] = None]
  /\ UNCHANGED <<mempool, notes, submitted>>

(* apply_block stores the block.  A block of mine_block goes on to         *)
(* submit_block's checkpoint if its height calls for one.                  *)
Accepted(p) ==
  /\ StoreBlock(p)
  /\ call' = IF call[p] = None THEN call
             ELSE [call EXCEPT ![p].stage =
                     IF @ = "apply" /\ call[p].height % CheckpointInterval = 0
                     THEN "checkpoint" ELSE "clear"]
  /\ UNCHANGED <<mempool, notes, submitted>>

(* The other steps of apply_block.                                         *)
ApplyProgress(p) ==
  (SelectInput(p) \/ DeleteInput(p) \/ AddOutputs(p)) /\ UNCHANGED nodeVars

At(p, stage) == p \in up /\ call[p] # None /\ call[p].stage = stage

(* submit_block: add_checkpoint.                                           *)
AddCheckpoint(p) ==
  /\ At(p, "checkpoint")
  /\ checkpoints' = checkpoints \cup {call[p].hash}
  /\ call' = [call EXCEPT ![p].stage = "clear"]
  /\ UNCHANGED <<vars, mempool, savedTip, savedHeight, submitted>>

(* clear_mempool_txids: one commit per transaction.                        *)
ClearOne(p) ==
  /\ At(p, "clear") /\ call[p].todo # << >>
  /\ mempool' = [u \in DOMAIN mempool \ {Head(call[p].todo)} |-> mempool[u]]
  /\ call' = [call EXCEPT ![p].todo = Tail(@)]
  /\ UNCHANGED <<vars, notes, submitted>>

(* save_chain_tip: the hash, then the height, each in its own commit.      *)
SaveTipHash(p) ==
  /\ At(p, "clear") /\ call[p].todo = << >>
  /\ savedTip' = call[p].hash
  /\ call' = [call EXCEPT ![p].stage = "height"]
  /\ UNCHANGED <<vars, mempool, checkpoints, savedHeight, submitted>>

SaveTipHeight(p) ==
  /\ At(p, "height")
  /\ savedHeight' = call[p].height
  /\ call' = [call EXCEPT ![p] = None]
  /\ UNCHANGED <<vars, mempool, checkpoints, savedTip, submitted>>

AfterStore(p) == AddCheckpoint(p) \/ ClearOne(p) \/ SaveTipHash(p) \/ SaveTipHeight(p)

OpenNode(p) == Open(p) /\ UNCHANGED nodeVars

EndNode(p) ==
  /\ Exit(p)
  /\ call' = [call EXCEPT ![p] = None]
  /\ UNCHANGED <<mempool, notes, submitted>>

Mining(p) == ApplyProgress(p) \/ Rejected(p) \/ Accepted(p) \/ AfterStore(p)

NodeNext ==
  \/ \E t \in Tx : SendTransaction(t) \/ ReceiveTransaction(t)
  \/ \E p \in Process :
       \/ OpenNode(p) \/ EndNode(p)
       \/ StartNode(p) \/ MineBlock(p) \/ Mining(p)

NodeSpec == NodeInit /\ [][NodeNext]_allVars
-----------------------------------------------------------------------------
(* Types of this module's variables (ChainStore's are in TypeOK).          *)
NodeTypeOK ==
  /\ TypeOK
  /\ DOMAIN mempool \subseteq Tx /\ \A t \in DOMAIN mempool : mempool[t] \in Nat
  /\ checkpoints \subseteq BlockHash
  /\ savedTip \in BlockHash \cup {None} /\ savedHeight \in Nat \cup {-1}
  /\ call \in [Process -> Call \cup {None}]
  /\ submitted \subseteq Tx

(* Mining goes through apply_block: with the mempool, the checkpoints and  *)
(* the saved tip hidden, a node is a ChainStore.                           *)
ImplementsChainStore == Spec

(* However the processes interleave and wherever they die, a transaction   *)
(* once submitted is in the mempool or in a stored block.                  *)
NoTxVanishes == submitted \subseteq DOMAIN mempool \cup StoredTxs

Lifecycle == INSTANCE TxLifecycle WITH
  pool <- DOMAIN mempool, mined <- StoredTxs \cap Tx

(* Every process keeps the promise for each transaction, against all the   *)
(* others: none leaves the mempool before a stored block has it, none is   *)
(* stored that was not waiting, and no stored one is lost.                 *)
ImplementsLifecycle == Lifecycle!Spec

(* With one process it is in the mempool or in the current chain.          *)
NoTxLeavesChain == submitted \subseteq DOMAIN mempool \cup ChainTxs(tipHash)

(* With one process the tip saved in agent_memory.db may lag behind the    *)
(* chain database after a crash, but never leaves its chain, its height,   *)
(* which is saved after it, is never above that of the saved tip, and      *)
(* while a block is applied the saved tip is below that block.             *)
SavedTipOnChain ==
  /\ savedTip # None => savedTip \in Chain(tipHash)
  /\ savedHeight # -1 => savedTip # None /\ savedHeight <= blocks[savedTip].height
  /\ \A p \in up : (call[p] # None /\ call[p].stage = "apply" /\ savedTip # None)
                     => blocks[savedTip].height < call[p].height

(* "each UTXO can only be referenced once in the chain"                    *)
(* (SECOND-KNOWLEDGE-BRAIN.md:13): no two transactions of the chain spend  *)
(* the same outpoint.                                                      *)
NoDoubleSpend ==
  \A t, u \in ChainTxs(tipHash) : t # u => SpentBy(t) \cap SpentBy(u) = {}

(* It holds until a block has failed: with one process, neither a          *)
(* transaction that is sent again after it was mined, nor a conflicting    *)
(* one, nor a crash between two blocks lets the chain spend an outpoint    *)
(* twice or hold a transaction twice, before the first call of apply_block *)
(* that was rejected or cut.                                               *)
SpentOnceUntilFailure ==
  abandoned = {} => NoDoubleSpend /\ \A t \in Twice(tipHash) : SpentBy(t) = {}

=============================================================================
