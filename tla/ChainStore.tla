----------------------------- MODULE ChainStore -----------------------------
(***************************************************************************)
(* The chain database (chain.db) and the processes that share it:          *)
(* Blockchain and UTXOSet of src/agent/modules/blockchain_core.py.         *)
(*                                                                         *)
(* Each command of the program is an operating-system process with its own *)
(* Blockchain object: it reads the durable tip once, when it opens the     *)
(* database, and from then on trusts its cached copy.  Blockchain writes   *)
(* blocks and the tip through one SQLite connection, UTXOSet writes the    *)
(* unspent outputs through another and commits every spend and every       *)
(* transaction's outputs by itself, so apply_block is a sequence of        *)
(* separately committed steps that a failure, a crash or another process   *)
(* can cut anywhere.                                                       *)
(***************************************************************************)
EXTENDS Integers, Sequences, FiniteSets

CONSTANTS
  Process,      \* operating-system processes on the same chain.db
  Hash,         \* hashes of mined blocks
  GenesisHash,  \* hash of the block of create_genesis_block
  None,         \* Python's None: no block, no tip, no call in progress
  Tx,           \* ids of ordinary (not coinbase) transactions
  Ins,          \* Tx -> the outpoints it spends, in order
  NumOuts,      \* Tx -> its number of outputs
  Bodies,       \* the sequences of ordinary transactions offered for a block
  MaxHeight     \* bound: no block is proposed above this height

ASSUME ChainAssumption ==
  /\ GenesisHash \notin Hash
  /\ None \notin Hash \cup {GenesisHash}
  /\ Ins \in [Tx -> Seq((Tx \cup ({"coinbase", "genesis"} \X Nat)) \X Nat)]
  /\ NumOuts \in [Tx -> Nat]
  /\ Bodies \subseteq Seq(Tx)
  /\ MaxHeight \in Nat
  /\ Tx \cap ({"coinbase", "genesis"} \X Nat) = {}

(* Coinbase ids: build_coinbase_tx hashes only the height, the reward that *)
(* follows from it and the miner's address, which all processes take from  *)
(* the same configuration file; so two attempts at one height share it.    *)
Coinbase(height) == <<"coinbase", height>>
GenesisTx == <<"genesis", 0>>

TxId == Tx \cup ({"coinbase", "genesis"} \X Nat)
BlockHash == Hash \cup {GenesisHash}

IsCoinbase(t) == t \notin Tx
InputsOf(t) == IF IsCoinbase(t) THEN << >> ELSE Ins[t]
OutputsOf(t) == {t} \X (IF IsCoinbase(t) THEN {0} ELSE 0 .. NumOuts[t] - 1)

Block == [prev : BlockHash \cup {None}, height : Nat, txs : Seq(TxId)]
(* A call of apply_block in progress: the block, the transaction and the   *)
(* input it is at, and whether SELECT has found that input's row.          *)
Job == [hash : BlockHash, block : Block, tx : Nat \ {0}, inp : Nat \ {0},
        found : BOOLEAN]

ASSUME NoCallAssumption == None \notin Job

VARIABLES
  blocks,     \* durable: table blocks, hash -> block
  tipHash,    \* durable: chain_meta.tip_hash
  utxos,      \* durable: table utxos, a set of outpoints <<txid, vout>>
  up,         \* processes that have the database open
  tip,        \* each process's cached _chain_tip
  height,     \* each process's cached _height
  job,        \* each process's apply_block in progress, or None
  abandoned   \* ghost: transactions an unfinished apply_block had reached

durable == <<blocks, tipHash, utxos>>
cache == <<up, tip, height>>
vars == <<durable, cache, job, abandoned>>

Init ==
  /\ blocks = << >> /\ tipHash = None /\ utxos = {}
  /\ up = {}
  /\ tip = [p \in Process |-> None]
  /\ height = [p \in Process |-> -1]
  /\ job = [p \in Process |-> None]
  /\ abandoned = {}

-----------------------------------------------------------------------------
(* Faulty variants of the actions below.  Each is what a plausible slip in *)
(* the code would do; the project checks that the named property notices.  *)

(* _height starts at 0, not -1 (ImplementsTree).                           *)
OpenAtZero(p) ==
  /\ p \notin up
  /\ up' = up \cup {p}
  /\ tip' = [tip EXCEPT ![p] = tipHash]
  /\ height' = [height EXCEPT ![p] =
       IF tipHash \in DOMAIN blocks THEN blocks[tipHash].height ELSE 0]
  /\ UNCHANGED <<durable, job, abandoned>>

(* Loads the oldest block, not the newest (TipIsHighest).                  *)
OpenFirstBlock(p) ==
  /\ p \notin up
  /\ up' = up \cup {p}
  /\ tip' = [tip EXCEPT ![p] = IF tipHash = None THEN None ELSE GenesisHash]
  /\ height' = [height EXCEPT ![p] = IF tipHash = None THEN -1 ELSE 0]
  /\ UNCHANGED <<durable, job, abandoned>>

-----------------------------------------------------------------------------
(* Blockchain.__init__ and _load_tip: the cache is filled once, from the   *)
(* durable tip.                                                            *)
Open(p) ==
  /\ p \notin up
  /\ up' = up \cup {p}
  /\ tip' = [tip EXCEPT ![p] = tipHash]
  /\ height' = [height EXCEPT ![p] =
       IF tipHash \in DOMAIN blocks THEN blocks[tipHash].height ELSE -1]
  /\ UNCHANGED <<durable, job, abandoned>>

(* validate_block against the process's own tip.  Proof of work, size and  *)
(* merkle root hold for a block this process has just mined.  The parent   *)
(* is compared only when there is a tip.                                   *)
Valid(p, b) ==
  /\ tip[p] \in DOMAIN blocks => b.prev = tip[p]
  /\ b.txs # << >> /\ IsCoinbase(b.txs[1])

(* A header hashes to one name, and a name stands for one block.           *)
Names(h, b) ==
  /\ h \in DOMAIN blocks => blocks[h] = b
  /\ \A q \in Process : job[q] # None /\ job[q].hash = h => job[q].block = b

(* apply_block begins: the block has passed validate_block.                *)
Apply(p, h, b) ==
  /\ p \in up /\ job[p] = None
  /\ Valid(p, b)
  /\ Names(h, b)
  /\ job' = [job EXCEPT ![p] =
       [hash |-> h, block |-> b, tx |-> 1, inp |-> 1, found |-> FALSE]]
  /\ UNCHANGED <<durable, cache, abandoned>>

(* start_node on an empty chain applies the fixed genesis block.           *)
ApplyGenesis(p) ==
  /\ height[p] < 0
  /\ Apply(p, GenesisHash, [prev |-> None, height |-> 0, txs |-> <<GenesisTx>>])

(* build_block_template on the cached tip, mined and submitted: the        *)
(* coinbase comes first, then the selected transactions.                   *)
Template(p, body) ==
  [prev |-> tip[p], height |-> height[p] + 1,
   txs |-> <<Coinbase(height[p] + 1)>> \o body]

Mine(p, body) ==
  /\ height[p] < MaxHeight
  /\ \E h \in Hash : Apply(p, h, Template(p, body))

-----------------------------------------------------------------------------
(* The loop of apply_block.                                                *)
Busy(p) == p \in up /\ job[p] # None
AtTx(p) == Busy(p) /\ job[p].tx <= Len(job[p].block.txs)
CurrentTx(p) == job[p].block.txs[job[p].tx]
AtInput(p) == AtTx(p) /\ job[p].inp <= Len(InputsOf(CurrentTx(p)))
CurrentInput(p) == InputsOf(CurrentTx(p))[job[p].inp]

(* Transactions an apply_block has touched when it stops where it is.      *)
Reached(p) ==
  IF job[p] = None THEN {}
  ELSE {job[p].block.txs[i] : i \in {k \in 1 .. Len(job[p].block.txs) : k <= job[p].tx}}

(* spend_input, first half: SELECT finds the row.                          *)
SelectInput(p) ==
  /\ AtInput(p) /\ ~job[p].found
  /\ CurrentInput(p) \in utxos
  /\ job' = [job EXCEPT ![p].found = TRUE]
  /\ UNCHANGED <<durable, cache, abandoned>>

(* Variant without the DELETE (StoredAfterEffects).                        *)
DeleteInputKept(p) ==
  /\ AtInput(p) /\ job[p].found
  /\ job' = [job EXCEPT ![p].found = FALSE, ![p].inp = @ + 1]
  /\ UNCHANGED <<durable, cache, abandoned>>

(* spend_input, second half: DELETE and commit.  A row that another        *)
(* process deleted in between makes the DELETE touch nothing; the function *)
(* returns the output all the same.                                        *)
DeleteInput(p) ==
  /\ AtInput(p) /\ job[p].found
  /\ utxos' = utxos \ {CurrentInput(p)}
  /\ job' = [job EXCEPT ![p].found = FALSE, ![p].inp = @ + 1]
  /\ UNCHANGED <<blocks, tipHash, cache, abandoned>>

(* SELECT finds nothing: ValueError, and apply_block returns False.  What  *)
(* the earlier steps committed to utxos stays.                             *)
RejectBlock(p) ==
  /\ AtInput(p) /\ ~job[p].found
  /\ CurrentInput(p) \notin utxos
  /\ job' = [job EXCEPT ![p] = None]
  /\ abandoned' = abandoned \cup Reached(p)
  /\ UNCHANGED <<durable, cache>>

(* Variant that records only a transaction's first output (DamageConfined). *)
AddFirstOutput(p) ==
  /\ AtTx(p) /\ ~AtInput(p)
  /\ utxos' = utxos \cup {<<CurrentTx(p), 0>>}
  /\ job' = [job EXCEPT ![p].tx = @ + 1, ![p].inp = 1]
  /\ UNCHANGED <<blocks, tipHash, cache, abandoned>>

(* add_outputs: all outputs of one transaction, in one commit.             *)
AddOutputs(p) ==
  /\ AtTx(p) /\ ~AtInput(p)
  /\ utxos' = utxos \cup OutputsOf(CurrentTx(p))
  /\ job' = [job EXCEPT ![p].tx = @ + 1, ![p].inp = 1]
  /\ UNCHANGED <<blocks, tipHash, cache, abandoned>>

(* The commit alone: block row and durable tip.                            *)
CommitBlock(p) ==
  /\ Busy(p) /\ ~AtTx(p)
  /\ blocks' = [h \in DOMAIN blocks \cup {job[p].hash} |->
       IF h = job[p].hash THEN job[p].block ELSE blocks[h]]
  /\ tipHash' = job[p].hash
  /\ job' = [job EXCEPT ![p] = None]
  /\ UNCHANGED <<utxos, up, abandoned>>

(* Variant that leaves the cached tip as it was (ImplementsLog).           *)
StoreBlockStaleCache(p) == CommitBlock(p) /\ UNCHANGED <<tip, height>>

(* Variant that forgets the cached height (ChainInv).                      *)
StoreBlockStaleHeight(p) ==
  /\ CommitBlock(p)
  /\ tip' = [tip EXCEPT ![p] = job[p].hash]
  /\ UNCHANGED height

(* The block row and the tip are committed together; then the cached tip   *)
(* is assigned.                                                            *)
StoreBlock(p) ==
  /\ CommitBlock(p)
  /\ tip' = [tip EXCEPT ![p] = job[p].hash]
  /\ height' = [height EXCEPT ![p] = job[p].block.height]

(* The process ends, by itself or killed at any step; its cache is lost.   *)
Exit(p) ==
  /\ p \in up
  /\ up' = up \ {p}
  /\ tip' = [tip EXCEPT ![p] = None]
  /\ height' = [height EXCEPT ![p] = -1]
  /\ job' = [job EXCEPT ![p] = None]
  /\ abandoned' = abandoned \cup Reached(p)
  /\ UNCHANGED durable

ApplyStep(p) ==
  SelectInput(p) \/ DeleteInput(p) \/ RejectBlock(p) \/ AddOutputs(p) \/ StoreBlock(p)

Next ==
  \E p \in Process :
    \/ Open(p) \/ Exit(p)
    \/ ApplyGenesis(p)
    \/ \E body \in Bodies : Mine(p, body)
    \/ ApplyStep(p)

Spec == Init /\ [][Next]_vars

-----------------------------------------------------------------------------
(* Types of the variables; an outpoint's index is a natural number.        *)
TypeOK ==
  /\ DOMAIN blocks \subseteq BlockHash
  /\ \A h \in DOMAIN blocks : blocks[h] \in Block
  /\ tipHash \in BlockHash \cup {None}
  /\ utxos \subseteq TxId \X Nat
  /\ up \subseteq Process
  /\ tip \in [Process -> BlockHash \cup {None}]
  /\ height \in [Process -> Nat \cup {-1}]
  /\ job \in [Process -> Job \cup {None}]
  /\ abandoned \subseteq TxId

(* A cached tip is a stored block with the cached height, however old the  *)
(* cache is and whatever the other processes have stored since.            *)
CachesStored ==
  \A p \in Process :
    IF tip[p] = None THEN height[p] = -1
    ELSE /\ p \in up
         /\ tip[p] \in DOMAIN blocks
         /\ height[p] = blocks[tip[p]].height

(* A block under application builds on its own process's cached tip.       *)
JobsOnTip ==
  \A p \in Process : job[p] # None =>
    /\ p \in up
    /\ job[p].block.prev = tip[p]
    /\ job[p].block.height = height[p] + 1
    /\ Names(job[p].hash, job[p].block)

(* After any interleaving and any crash the stored blocks form trees: a    *)
(* root at height 0, every other block one above a stored parent.          *)
BlocksLinked ==
  \A h \in DOMAIN blocks :
    IF blocks[h].prev = None THEN blocks[h].height = 0
    ELSE /\ blocks[h].prev \in DOMAIN blocks
         /\ blocks[h].height = blocks[blocks[h].prev].height + 1

(* The durable tip always names a stored block: reopening finds a height.  *)
TipStored == IF tipHash = None THEN blocks = << >> ELSE tipHash \in DOMAIN blocks

ChainInv == CachesStored /\ JobsOnTip /\ BlocksLinked /\ TipStored

Tree == INSTANCE BlockTree WITH
  blocks <- blocks, tipHash <- tipHash, BlockHash <- BlockHash, None <- None

(* The processes together implement an append-only block tree: no          *)
(* interleaving of apply_block calls, crash or restart drops or rewrites a *)
(* stored block, or stores one whose parent is missing.                    *)
ImplementsTree == Tree!Spec

(* A single process implements an append-only log: every new tip is a new  *)
(* child of the old tip, across failed blocks, crashes and restarts.       *)
ImplementsLog == Tree!LogSpec

-----------------------------------------------------------------------------
(* The block hashes from h down to its root: what is in every set that has *)
(* h and the parents of its members.                                       *)
Chain(h) ==
  {g \in DOMAIN blocks : \A s \in SUBSET DOMAIN blocks :
     /\ {h} \cap DOMAIN blocks \subseteq s
     /\ \A f \in s : {blocks[f].prev} \cap DOMAIN blocks \subseteq s
     => g \in s}

TxsIn(b) == {b.txs[i] : i \in 1 .. Len(b.txs)}
SpentBy(t) == {InputsOf(t)[i] : i \in 1 .. Len(InputsOf(t))}
StoredTxs == UNION {TxsIn(blocks[h]) : h \in DOMAIN blocks}
ChainTxs(h) == UNION {TxsIn(blocks[g]) : g \in Chain(h)}
Created(txs) == UNION {OutputsOf(t) : t \in txs}
Spent(txs) == UNION {SpentBy(t) : t \in txs}

(* The unspent outputs that the chain ending in h defines.                 *)
Ledger(h) == Created(ChainTxs(h)) \ Spent(ChainTxs(h))

(* Outpoints that an apply_block which did not finish can have changed.    *)
Disturbed(txs) == Created(txs) \cup Spent(txs)

(* Transactions that are in two places of the chain: the second time an    *)
(* outpoint they spend was there again, or they spend none.                *)
Twice(h) ==
  {t \in ChainTxs(h) : \E f, g \in Chain(h) :
     \E i \in 1 .. Len(blocks[f].txs), j \in 1 .. Len(blocks[g].txs) :
       <<f, i>> # <<g, j>> /\ blocks[f].txs[i] = t /\ blocks[g].txs[j] = t}

(* With one process, whatever blocks failed or were cut by a crash, the    *)
(* unspent outputs differ from those the chain defines only on outpoints   *)
(* of transactions that such an apply_block had reached or that the chain  *)
(* has twice, and nothing that spends is in the chain twice before a block *)
(* has failed.                                                             *)
DamageConfined ==
  (\A p \in Process : job[p] = None) =>
    LET damage == Disturbed(abandoned \cup Twice(tipHash))
    IN /\ utxos \ damage = Ledger(tipHash) \ damage
       /\ abandoned = {} /\ (\A t \in Tx : Ins[t] # << >>) => Twice(tipHash) = {}

(* With one process, a block is stored only when all its effects are in    *)
(* the utxos table: what it spends is gone, what it creates and does not   *)
(* spend itself is there.  (An input that a later transaction of the same  *)
(* block creates again is back.)                                           *)
EffectsStored(b) ==
  LET txs == TxsIn(b)
  IN /\ Created(txs) \ Spent(txs) \subseteq utxos
     /\ (Spent(txs) \ Created(txs)) \cap utxos = {}

StoredAfterEffects ==
  [][\A h \in DOMAIN blocks' \ DOMAIN blocks : EffectsStored(blocks'[h])]_vars

(* "chain selection (longest finalized chain)" (PROJECT-detail.md:69): no  *)
(* stored block is higher than the durable tip.                            *)
TipIsHighest ==
  \A h \in DOMAIN blocks : blocks[h].height <= blocks[tipHash].height
=============================================================================
