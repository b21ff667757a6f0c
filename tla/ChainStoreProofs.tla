-------------------------- MODULE ChainStoreProofs --------------------------
(***************************************************************************)
(* Proofs about ChainStore, for every set of processes, hashes,            *)
(* transactions and block bodies: its types, the invariant ChainInv that   *)
(* ties caches, calls in progress and stored blocks together, that it      *)
(* implements BlockTree, and what a lone process keeps of the ledger: the  *)
(* unspent outputs, the stored transactions and the extent of damage.      *)
(***************************************************************************)
EXTENDS ChainStore, TLAPS

(* A transaction's outputs are outpoints.                                  *)
LEMMA OutputsTyped ==
  ASSUME NEW t \in TxId
  PROVE  OutputsOf(t) \subseteq TxId \X Nat
<1>1. CASE IsCoinbase(t)
  BY <1>1 DEF OutputsOf
<1>2. CASE ~IsCoinbase(t)
  <2>1. t \in Tx /\ NumOuts[t] \in Nat
    BY <1>2, ChainAssumption DEF IsCoinbase
  <2>2. 0 .. NumOuts[t] - 1 \subseteq Nat
    BY <2>1
  <2> QED
    BY <1>2, <2>2 DEF OutputsOf
<1> QED
  BY <1>1, <1>2

(* A call in progress is at a typed job, and stands on a transaction.      *)
LEMMA JobTyped ==
  ASSUME TypeOK, NEW p \in Process, job[p] # None
  PROVE  /\ job[p] \in Job
         /\ Reached(p) \subseteq TxId
         /\ AtTx(p) => CurrentTx(p) \in TxId
<1>1. job[p] \in Job
  BY DEF TypeOK
<1>2. \A i \in 1 .. Len(job[p].block.txs) : job[p].block.txs[i] \in TxId
  BY <1>1 DEF Job, Block
<1>3. Reached(p) \subseteq TxId
  BY <1>2 DEF Reached
<1>4. AtTx(p) => CurrentTx(p) \in TxId
  BY <1>1, <1>2 DEF AtTx, CurrentTx, Job, Block
<1> QED
  BY <1>1, <1>3, <1>4

(* Stepping to the next input or the next transaction keeps a job typed.   *)
LEMMA JobAdvances ==
  ASSUME NEW j \in Job
  PROVE  /\ [j EXCEPT !.found = FALSE, !.inp = @ + 1] \in Job
         /\ [j EXCEPT !.tx = @ + 1, !.inp = 1] \in Job
<1>1. j.tx + 1 \in Nat \ {0} /\ j.inp + 1 \in Nat \ {0} /\ 1 \in Nat \ {0}
  BY DEF Job
<1> DEFINE tx == j.tx + 1
           inp == j.inp + 1
<1> HIDE DEF tx, inp
<1>2. [j EXCEPT !.found = FALSE, !.inp = inp] \in Job
  BY <1>1 DEF Job, inp
<1>3. [j EXCEPT !.tx = tx, !.inp = 1] \in Job
  BY <1>1 DEF Job, tx
<1> QED
  BY <1>2, <1>3 DEF tx, inp

(* The template of build_block_template is a block.                        *)
LEMMA TemplateTyped ==
  ASSUME TypeOK, NEW p \in Process, NEW body \in Bodies
  PROVE  Template(p, body) \in Block
<1>1. tip[p] \in BlockHash \cup {None} /\ height[p] + 1 \in Nat
  BY DEF TypeOK
<1>2. Coinbase(height[p] + 1) \in TxId
  BY <1>1 DEF Coinbase, TxId
<1>3. body \in Seq(TxId)
  BY ChainAssumption DEF TxId
<1>4. <<Coinbase(height[p] + 1)>> \o body \in Seq(TxId)
  BY <1>2, <1>3
<1> QED
  BY <1>1, <1>4 DEF Template, Block

(* Starting apply_block on a block gives a typed job.                      *)
LEMMA ApplyTyped ==
  ASSUME TypeOK, NEW p \in Process, NEW h \in BlockHash, NEW b \in Block, Apply(p, h, b)
  PROVE  TypeOK'
<1>1. [hash |-> h, block |-> b, tx |-> 1, inp |-> 1, found |-> FALSE] \in Job
  BY DEF Job
<1> QED
  BY <1>1 DEF TypeOK, Apply, durable, cache

(* Every step keeps the types.                                             *)
LEMMA NextKeepsTypes ==
  ASSUME TypeOK, [Next]_vars
  PROVE  TypeOK'
<1>1. CASE UNCHANGED vars
  BY <1>1 DEF vars, durable, cache, TypeOK
<1>2. ASSUME NEW p \in Process, Open(p)
      PROVE  TypeOK'
  <2>1. (IF tipHash \in DOMAIN blocks THEN blocks[tipHash].height ELSE -1) \in Nat \cup {-1}
    BY DEF TypeOK, Block
  <2> QED
    BY <1>2, <2>1 DEF Open, TypeOK, durable
<1>3. ASSUME NEW p \in Process, Exit(p)
      PROVE  TypeOK'
  <2>1. Reached(p) \subseteq TxId
    BY JobTyped DEF Reached
  <2> QED
    BY <1>3, <2>1 DEF Exit, TypeOK, durable
<1>4. ASSUME NEW p \in Process, ApplyGenesis(p)
      PROVE  TypeOK'
  <2>1. [prev |-> None, height |-> 0, txs |-> <<GenesisTx>>] \in Block
    BY DEF Block, GenesisTx, TxId
  <2> QED
    BY <1>4, <2>1, ApplyTyped DEF ApplyGenesis, BlockHash
<1>5. ASSUME NEW p \in Process, NEW body \in Bodies, Mine(p, body)
      PROVE  TypeOK'
  BY <1>5, TemplateTyped, ApplyTyped DEF Mine, BlockHash
<1>6. ASSUME NEW p \in Process, SelectInput(p)
      PROVE  TypeOK'
  <2>1. job[p] \in Job
    BY <1>6, JobTyped DEF SelectInput, AtInput, AtTx, Busy
  <2>2. [job[p] EXCEPT !.found = TRUE] \in Job
    BY <2>1 DEF Job
  <2> QED
    BY <1>6, <2>2 DEF SelectInput, TypeOK, durable, cache
<1>7. ASSUME NEW p \in Process, DeleteInput(p)
      PROVE  TypeOK'
  <2>1. job[p] \in Job
    BY <1>7, JobTyped DEF DeleteInput, AtInput, AtTx, Busy
  <2>2. [job[p] EXCEPT !.found = FALSE, !.inp = @ + 1] \in Job
    BY <2>1, JobAdvances
  <2> QED
    BY <1>7, <2>2 DEF DeleteInput, TypeOK, cache
<1>8. ASSUME NEW p \in Process, RejectBlock(p)
      PROVE  TypeOK'
  <2>1. Reached(p) \subseteq TxId
    BY <1>8, JobTyped DEF RejectBlock, AtInput, AtTx, Busy
  <2> QED
    BY <1>8, <2>1 DEF RejectBlock, TypeOK, durable, cache
<1>9. ASSUME NEW p \in Process, AddOutputs(p)
      PROVE  TypeOK'
  <2>1. job[p] \in Job /\ CurrentTx(p) \in TxId
    BY <1>9, JobTyped DEF AddOutputs, AtTx, Busy
  <2>2. [job[p] EXCEPT !.tx = @ + 1, !.inp = 1] \in Job
    BY <2>1, JobAdvances
  <2>3. OutputsOf(CurrentTx(p)) \subseteq TxId \X Nat
    BY <2>1, OutputsTyped
  <2> QED
    BY <1>9, <2>2, <2>3 DEF AddOutputs, TypeOK, cache
<1>10. ASSUME NEW p \in Process, StoreBlock(p)
       PROVE  TypeOK'
  <2>1. job[p] \in Job
    BY <1>10, JobTyped DEF StoreBlock, CommitBlock, Busy
  <2>2. job[p].hash \in BlockHash /\ job[p].block \in Block /\ job[p].block.height \in Nat
    BY <2>1 DEF Job, Block
  <2> QED
    BY <1>10, <2>2 DEF StoreBlock, CommitBlock, TypeOK
<1> QED
  BY <1>1, <1>2, <1>3, <1>4, <1>5, <1>6, <1>7, <1>8, <1>9, <1>10 DEF Next, ApplyStep

(* Every reachable state is well typed: each row of the chain database,    *)
(* each cache and each call in progress.                                   *)
THEOREM TypeCorrect == Spec => []TypeOK
<1>1. Init => TypeOK
  BY DEF Init, TypeOK
<1>2. TypeOK /\ [Next]_vars => TypeOK'
  BY NextKeepsTypes
<1> QED
  BY <1>1, <1>2, PTL DEF Spec

-----------------------------------------------------------------------------
(* A step that stores no block and starts or ends no call keeps ChainInv.  *)
LEMMA QuietStepKeepsChain ==
  ASSUME TypeOK, ChainInv, UNCHANGED <<blocks, tipHash, up, tip, height>>,
         \A q \in Process : \/ job'[q] = None
                           \/ /\ job[q] # None
                              /\ job'[q].hash = job[q].hash
                              /\ job'[q].block = job[q].block
  PROVE  ChainInv'
<1>1. CachesStored' /\ BlocksLinked' /\ TipStored'
  BY DEF ChainInv, CachesStored, BlocksLinked, TipStored
<1>2. JobsOnTip'
  BY DEF ChainInv, JobsOnTip, Names
<1> QED
  BY <1>1, <1>2 DEF ChainInv

(* Starting apply_block on a block built on the cached tip keeps ChainInv. *)
LEMMA ApplyKeepsChain ==
  ASSUME TypeOK, ChainInv, NEW p \in Process, NEW h \in BlockHash, NEW b \in Block,
         Apply(p, h, b), b.prev = tip[p], b.height = height[p] + 1
  PROVE  ChainInv'
<1>1. CachesStored' /\ BlocksLinked' /\ TipStored'
  BY DEF ChainInv, CachesStored, BlocksLinked, TipStored, Apply, durable, cache
<1>2. /\ UNCHANGED <<blocks, up, tip, height>>
      /\ p \in up /\ Names(h, b)
  BY DEF Apply, durable, cache
<1>3. /\ job'[p].hash = h /\ job'[p].block = b
      /\ \A q \in Process \ {p} : job'[q] = job[q]
  BY DEF Apply, TypeOK
<1>4. JobsOnTip'
  <2> SUFFICES ASSUME NEW q \in Process, job'[q] # None
               PROVE  /\ q \in up
                      /\ job'[q].block.prev = tip[q]
                      /\ job'[q].block.height = height[q] + 1
                      /\ Names(job[q].hash, job[q].block)'
    BY <1>2 DEF JobsOnTip
  <2>1. CASE q = p
    BY <2>1, <1>2, <1>3 DEF Names
  <2>2. CASE q # p
    <3>1. /\ q \in up
          /\ job[q].block.prev = tip[q]
          /\ job[q].block.height = height[q] + 1
          /\ Names(job[q].hash, job[q].block)
      BY <2>2, <1>3 DEF ChainInv, JobsOnTip
    <3> QED
      BY <3>1, <2>2, <1>2, <1>3 DEF Names
  <2> QED
    BY <2>1, <2>2
<1> QED
  BY <1>1, <1>4 DEF ChainInv

(* Storing the block of a call in progress keeps ChainInv.                 *)
LEMMA StoreKeepsChain ==
  ASSUME TypeOK, ChainInv, NEW p \in Process, StoreBlock(p)
  PROVE  ChainInv'
<1> DEFINE h == job[p].hash
           b == job[p].block
<1>1. /\ job[p] # None /\ p \in up
      /\ h \in BlockHash /\ b \in Block
      /\ b.prev = tip[p] /\ b.height = height[p] + 1 /\ Names(h, b)
  BY JobTyped DEF StoreBlock, CommitBlock, Busy, Job, ChainInv, JobsOnTip
<1>2. /\ DOMAIN blocks' = DOMAIN blocks \cup {h}
      /\ blocks'[h] = b
      /\ \A g \in DOMAIN blocks : blocks'[g] = blocks[g]
      /\ tipHash' = h
  BY <1>1 DEF StoreBlock, CommitBlock, Names
<1>3. /\ up' = up
      /\ tip'[p] = h /\ height'[p] = b.height /\ job'[p] = None
      /\ \A q \in Process \ {p} :
           tip'[q] = tip[q] /\ height'[q] = height[q] /\ job'[q] = job[q]
  BY DEF StoreBlock, CommitBlock, TypeOK
<1>4. h # None
  BY <1>1, ChainAssumption DEF BlockHash
<1> HIDE DEF h, b
<1>5. CachesStored'
  BY <1>1, <1>2, <1>3, <1>4 DEF ChainInv, CachesStored
<1>6. JobsOnTip'
  <2> SUFFICES ASSUME NEW q \in Process, job'[q] # None
               PROVE  /\ q \in up'
                      /\ job'[q].block.prev = tip'[q]
                      /\ job'[q].block.height = height'[q] + 1
                      /\ Names(job[q].hash, job[q].block)'
    BY DEF JobsOnTip
  <2>1. q # p /\ job'[q] = job[q]
    BY <1>3
  <2>2. /\ q \in up
        /\ job[q].block.prev = tip[q]
        /\ job[q].block.height = height[q] + 1
        /\ Names(job[q].hash, job[q].block)
    BY <2>1 DEF ChainInv, JobsOnTip
  <2>3. job[q].hash = h => job[q].block = b
    BY <2>1, <1>1 DEF Names
  <2> QED
    BY <2>1, <2>2, <2>3, <1>2, <1>3 DEF Names
<1>7. BlocksLinked'
  <2> SUFFICES ASSUME NEW g \in DOMAIN blocks'
               PROVE  IF blocks'[g].prev = None THEN blocks'[g].height = 0
                      ELSE /\ blocks'[g].prev \in DOMAIN blocks'
                           /\ blocks'[g].height = blocks'[blocks'[g].prev].height + 1
    BY DEF BlocksLinked
  <2>1. CASE g \in DOMAIN blocks
    BY <2>1, <1>2 DEF ChainInv, BlocksLinked
  <2>2. CASE g = h /\ tip[p] = None
    <3>1. height[p] = -1
      BY <2>2 DEF ChainInv, CachesStored
    <3> QED
      BY <2>2, <3>1, <1>1, <1>2
  <2>3. CASE g = h /\ tip[p] # None
    <3>1. tip[p] \in DOMAIN blocks /\ height[p] = blocks[tip[p]].height
      BY <2>3 DEF ChainInv, CachesStored
    <3> QED
      BY <2>3, <3>1, <1>1, <1>2
  <2> QED
    BY <2>1, <2>2, <2>3, <1>2
<1>8. TipStored'
  BY <1>2, <1>4 DEF TipStored
<1> QED
  BY <1>5, <1>6, <1>7, <1>8 DEF ChainInv

(* No step of any process breaks ChainInv.                                 *)
LEMMA NextKeepsChain ==
  ASSUME TypeOK, ChainInv, [Next]_vars
  PROVE  ChainInv'
<1>1. CASE UNCHANGED vars
  BY <1>1 DEF vars, durable, cache, ChainInv, CachesStored, JobsOnTip, Names,
              BlocksLinked, TipStored
<1>2. ASSUME NEW p \in Process, Open(p)
      PROVE  ChainInv'
  <2>1. /\ UNCHANGED <<blocks, tipHash, job>> /\ up' = up \cup {p}
        /\ tip'[p] = tipHash
        /\ height'[p] = IF tipHash \in DOMAIN blocks THEN blocks[tipHash].height ELSE -1
        /\ \A q \in Process \ {p} : tip'[q] = tip[q] /\ height'[q] = height[q]
    BY <1>2 DEF Open, durable, TypeOK
  <2>2. tipHash = None => tipHash \notin DOMAIN blocks
    BY ChainAssumption DEF TypeOK, BlockHash
  <2>3. CachesStored'
    BY <2>1, <2>2 DEF ChainInv, CachesStored, TipStored
  <2>4. job[p] = None
    BY <1>2 DEF Open, ChainInv, JobsOnTip
  <2>5. JobsOnTip'
    BY <2>1, <2>4 DEF ChainInv, JobsOnTip, Names
  <2> QED
    BY <2>1, <2>3, <2>5 DEF ChainInv, BlocksLinked, TipStored
<1>3. ASSUME NEW p \in Process, Exit(p)
      PROVE  ChainInv'
  <2>1. /\ UNCHANGED <<blocks, tipHash>> /\ up' = up \ {p}
        /\ tip'[p] = None /\ height'[p] = -1 /\ job'[p] = None
        /\ \A q \in Process \ {p} :
             tip'[q] = tip[q] /\ height'[q] = height[q] /\ job'[q] = job[q]
    BY <1>3 DEF Exit, durable, TypeOK
  <2>2. CachesStored'
    BY <2>1 DEF ChainInv, CachesStored
  <2>3. JobsOnTip'
    BY <2>1 DEF ChainInv, JobsOnTip, Names
  <2> QED
    BY <2>1, <2>2, <2>3 DEF ChainInv, BlocksLinked, TipStored
<1>4. ASSUME NEW p \in Process, ApplyGenesis(p)
      PROVE  ChainInv'
  <2> DEFINE g == [prev |-> None, height |-> 0, txs |-> <<GenesisTx>>]
  <2>1. g \in Block /\ GenesisHash \in BlockHash /\ Apply(p, GenesisHash, g)
    BY <1>4 DEF ApplyGenesis, Block, GenesisTx, TxId, BlockHash
  <2>2. tip[p] = None /\ height[p] = -1
    <3>1. height[p] \in Nat \cup {-1} /\ height[p] < 0
      BY <1>4 DEF ApplyGenesis, TypeOK
    <3>2. ASSUME tip[p] # None
          PROVE  height[p] \in Nat
      BY <3>2 DEF ChainInv, CachesStored, TypeOK, Block
    <3> QED
      BY <3>1, <3>2
  <2>3. g.prev = tip[p] /\ g.height = height[p] + 1
    BY <2>2
  <2> HIDE DEF g
  <2> QED
    BY <2>1, <2>3, ApplyKeepsChain
<1>5. ASSUME NEW p \in Process, NEW body \in Bodies, Mine(p, body)
      PROVE  ChainInv'
  <2>1. PICK h \in Hash : Apply(p, h, Template(p, body))
    BY <1>5 DEF Mine
  <2>2. Template(p, body) \in Block /\ h \in BlockHash
    BY TemplateTyped DEF BlockHash
  <2>3. /\ Template(p, body).prev = tip[p]
        /\ Template(p, body).height = height[p] + 1
    BY DEF Template
  <2> QED
    BY <2>1, <2>2, <2>3, ApplyKeepsChain
<1>6. ASSUME NEW p \in Process, SelectInput(p) \/ DeleteInput(p) \/ RejectBlock(p) \/ AddOutputs(p)
      PROVE  ChainInv'
  <2>1. UNCHANGED <<blocks, tipHash, up, tip, height>>
    BY <1>6 DEF SelectInput, DeleteInput, RejectBlock, AddOutputs, durable, cache
  <2>2. job[p] # None /\ job[p] \in Job
    BY <1>6, JobTyped DEF SelectInput, DeleteInput, RejectBlock, AddOutputs, AtInput, AtTx, Busy
  <2>3. \/ job'[p] = None
        \/ job'[p].hash = job[p].hash /\ job'[p].block = job[p].block
    <3>1. SelectInput(p) => job'[p] = [job[p] EXCEPT !.found = TRUE]
      BY DEF SelectInput, TypeOK
    <3>2. DeleteInput(p) => job'[p] = [job[p] EXCEPT !.found = FALSE, !.inp = @ + 1]
      BY DEF DeleteInput, TypeOK
    <3>3. RejectBlock(p) => job'[p] = None
      BY DEF RejectBlock, TypeOK
    <3>4. AddOutputs(p) => job'[p] = [job[p] EXCEPT !.tx = @ + 1, !.inp = 1]
      BY DEF AddOutputs, TypeOK
    <3> QED
      BY <1>6, <2>2, <3>1, <3>2, <3>3, <3>4 DEF Job
  <2>4. \A q \in Process \ {p} : job'[q] = job[q]
    BY <1>6 DEF SelectInput, DeleteInput, RejectBlock, AddOutputs, TypeOK
  <2> QED
    BY <2>1, <2>2, <2>3, <2>4, QuietStepKeepsChain
<1>7. ASSUME NEW p \in Process, StoreBlock(p)
      PROVE  ChainInv'
  BY <1>7, StoreKeepsChain
<1> QED
  BY <1>1, <1>2, <1>3, <1>4, <1>5, <1>6, <1>7 DEF Next, ApplyStep

(* In every reachable state caches, calls in progress, stored blocks and   *)
(* the durable tip agree as ChainInv says, for any number of processes.    *)
THEOREM ChainCorrect == Spec => []ChainInv
<1>1. Init => ChainInv
  BY DEF Init, ChainInv, CachesStored, JobsOnTip, BlocksLinked, TipStored
<1>2. TypeOK /\ ChainInv /\ [Next]_vars => ChainInv'
  BY NextKeepsChain
<1> QED
  BY <1>1, <1>2, TypeCorrect, PTL DEF Spec

(* Only StoreBlock changes the stored blocks or the durable tip, and it    *)
(* extends the tree.                                                       *)
LEMMA NextExtendsTree ==
  ASSUME TypeOK, ChainInv, [Next]_vars
  PROVE  [Tree!Extend]_<<blocks, tipHash>>
<1>1. ASSUME NEW p \in Process, StoreBlock(p)
      PROVE  Tree!Extend
  <2> DEFINE h == job[p].hash
             b == job[p].block
  <2>1. /\ job[p] # None
        /\ h \in BlockHash
        /\ b.prev = tip[p] /\ b.height = height[p] + 1 /\ Names(h, b)
    BY <1>1, JobTyped DEF StoreBlock, CommitBlock, Busy, Job, ChainInv, JobsOnTip
  <2>2. /\ DOMAIN blocks' = DOMAIN blocks \cup {h}
        /\ blocks'[h] = b
        /\ \A g \in DOMAIN blocks : blocks'[g] = blocks[g]
        /\ tipHash' = h
    BY <1>1, <2>1 DEF StoreBlock, CommitBlock, Names
  <2> HIDE DEF h, b
  <2>3. Tree!Linked(blocks'[h])
    BY <2>1, <2>2 DEF Tree!Linked, ChainInv, CachesStored
  <2> QED
    BY <2>1, <2>2, <2>3 DEF Tree!Extend
<1>2. ASSUME ~ \E p \in Process : StoreBlock(p)
      PROVE  UNCHANGED <<blocks, tipHash>>
  BY <1>2 DEF Next, vars, ApplyStep, Open, Exit, ApplyGenesis, Mine, Apply, SelectInput,
              DeleteInput, RejectBlock, AddOutputs, durable, cache
<1> QED
  BY <1>1, <1>2

(* The processes that share the database implement an append-only tree of  *)
(* blocks, through every interleaving, failed block, exit and restart.     *)
THEOREM TreeRefinement == Spec => ImplementsTree
<1>1. Init => Tree!Init
  BY DEF Init, Tree!Init
<1>2. TypeOK /\ ChainInv /\ [Next]_vars => [Tree!Extend]_<<blocks, tipHash>>
  BY NextExtendsTree
<1> QED
  BY <1>1, <1>2, TypeCorrect, ChainCorrect, PTL DEF Spec, ImplementsTree, Tree!Spec

-----------------------------------------------------------------------------
(* With one process the cache is the durable tip, and no stored block is   *)
(* above it: this is what makes its store a log.                           *)
CacheIsTip == \A p \in up : tip[p] = tipHash

LoneInv == CacheIsTip /\ TipIsHighest

(* Storing a block, by the only process: the block is new, its parent is   *)
(* the durable tip, and it becomes the highest block.                      *)
LEMMA LoneStore ==
  ASSUME TypeOK, ChainInv, LoneInv, NEW p \in Process, Process = {p}, StoreBlock(p)
  PROVE  Tree!Append /\ LoneInv'
<1> DEFINE h == job[p].hash
           b == job[p].block
<1>1. /\ job[p] # None /\ p \in up
      /\ h \in BlockHash /\ b.height \in Nat
      /\ b.prev = tip[p] /\ b.height = height[p] + 1 /\ Names(h, b)
  BY JobTyped DEF StoreBlock, CommitBlock, Busy, Job, Block, ChainInv, JobsOnTip
<1>2. /\ DOMAIN blocks' = DOMAIN blocks \cup {h}
      /\ blocks'[h] = b
      /\ \A g \in DOMAIN blocks : blocks'[g] = blocks[g]
      /\ tipHash' = h /\ tip'[p] = h /\ up' = up
  BY <1>1 DEF StoreBlock, CommitBlock, Names, TypeOK
<1>3. tip[p] = tipHash
  BY <1>1 DEF LoneInv, CacheIsTip
<1>4. \A g \in DOMAIN blocks : blocks[g].height \in Nat /\ blocks[g].height < b.height
  <2> SUFFICES ASSUME NEW g \in DOMAIN blocks
               PROVE  blocks[g].height \in Nat /\ blocks[g].height < b.height
    OBVIOUS
  <2>1. tip[p] # None
    BY <1>3 DEF ChainInv, TipStored
  <2>2. tip[p] \in DOMAIN blocks /\ height[p] = blocks[tip[p]].height
    BY <2>1 DEF ChainInv, CachesStored
  <2>3. blocks[g].height \in Nat /\ height[p] \in Nat
    BY <2>2 DEF TypeOK, Block
  <2>4. blocks[g].height <= height[p]
    BY <2>2, <1>3 DEF LoneInv, TipIsHighest
  <2> QED
    BY <2>3, <2>4, <1>1
<1> HIDE DEF h, b
<1>5. h \notin DOMAIN blocks
  BY <1>1, <1>4 DEF Names
<1>6. Tree!Linked(blocks'[h])
  BY <1>1, <1>2 DEF Tree!Linked, ChainInv, CachesStored
<1>7. Tree!Append
  BY <1>1, <1>2, <1>3, <1>5, <1>6 DEF Tree!Append, Tree!Extend
<1>8. TipIsHighest'
  BY <1>1, <1>2, <1>4 DEF TipIsHighest
<1>9. CacheIsTip'
  BY <1>2 DEF CacheIsTip, TypeOK
<1> QED
  BY <1>7, <1>8, <1>9 DEF LoneInv

(* Every other step leaves the stored blocks and the durable tip alone.    *)
LEMMA LoneStep ==
  ASSUME TypeOK, ChainInv, LoneInv, NEW p \in Process, Process = {p}, [Next]_vars
  PROVE  [Tree!Append]_<<blocks, tipHash>> /\ LoneInv'
<1>1. CASE StoreBlock(p)
  BY <1>1, LoneStore
<1>2. CASE ~StoreBlock(p)
  <2>1. UNCHANGED <<blocks, tipHash>>
    BY <1>2 DEF Next, vars, ApplyStep, Open, Exit, ApplyGenesis, Mine, Apply, SelectInput,
                DeleteInput, RejectBlock, AddOutputs, durable, cache
  <2>2. TipIsHighest'
    BY <2>1 DEF LoneInv, TipIsHighest
  <2>3. CASE Open(p)
    <3>1. tip'[p] = tipHash
      BY <2>3 DEF Open, TypeOK
    <3>2. CacheIsTip'
      BY <2>1, <2>3, <3>1 DEF CacheIsTip, Open, TypeOK
    <3> QED
      BY <2>1, <2>2, <3>2 DEF LoneInv
  <2>4. CASE Exit(p)
    <3>1. CacheIsTip'
      BY <2>4 DEF CacheIsTip, Exit, TypeOK
    <3> QED
      BY <2>1, <2>2, <3>1 DEF LoneInv
  <2>5. CASE ~Open(p) /\ ~Exit(p)
    <3>1. UNCHANGED <<up, tip>>
      BY <1>2, <2>5 DEF Next, vars, ApplyStep, ApplyGenesis, Mine, Apply, SelectInput,
                        DeleteInput, RejectBlock, AddOutputs, durable, cache
    <3>2. CacheIsTip'
      BY <2>1, <3>1 DEF LoneInv, CacheIsTip
    <3> QED
      BY <2>1, <2>2, <3>2 DEF LoneInv
  <2> QED
    BY <2>3, <2>4, <2>5
<1> QED
  BY <1>1, <1>2

(* A single process, whatever blocks fail and however often it dies and    *)
(* reopens the database, implements an append-only log of blocks.          *)
THEOREM LogRefinement ==
  ASSUME NEW p \in Process, Process = {p}
  PROVE  Spec => ImplementsLog
<1>1. Init => Tree!Init /\ LoneInv
  BY DEF Init, Tree!Init, LoneInv, CacheIsTip, TipIsHighest
<1>2. TypeOK /\ ChainInv /\ LoneInv /\ [Next]_vars
        => [Tree!Append]_<<blocks, tipHash>> /\ LoneInv'
  BY LoneStep
<1> QED
  BY <1>1, <1>2, TypeCorrect, ChainCorrect, PTL DEF Spec, ImplementsLog, Tree!LogSpec

(* A single process never moves the durable tip below a stored block; two  *)
(* processes can: one that opened the file earlier mines on its old tip.   *)
THEOREM LoneTipHighest ==
  ASSUME NEW p \in Process, Process = {p}
  PROVE  Spec => []TipIsHighest
<1>1. Init => LoneInv
  BY DEF Init, LoneInv, CacheIsTip, TipIsHighest
<1>2. TypeOK /\ ChainInv /\ LoneInv /\ [Next]_vars => LoneInv'
  BY LoneStep
<1>3. LoneInv => TipIsHighest
  BY DEF LoneInv
<1> QED
  BY <1>1, <1>2, <1>3, TypeCorrect, ChainCorrect, PTL DEF Spec

-----------------------------------------------------------------------------
(* One process: the chain of the durable tip and the unspent outputs.      *)

(* A call in progress is about to store a new block on the durable tip.    *)
LEMMA JobIsNew ==
  ASSUME TypeOK, ChainInv, LoneInv, NEW p \in Process, Process = {p}, job[p] # None
  PROVE  /\ p \in up /\ job[p] \in Job
         /\ job[p].hash \notin DOMAIN blocks
         /\ job[p].block.prev = tipHash
         /\ \A g \in DOMAIN blocks : blocks[g].height < job[p].block.height
<1> DEFINE b == job[p].block
<1>1. /\ p \in up /\ job[p] \in Job
      /\ b.prev = tip[p] /\ b.height = height[p] + 1 /\ Names(job[p].hash, b)
  BY JobTyped DEF ChainInv, JobsOnTip
<1>2. tip[p] = tipHash
  BY <1>1 DEF LoneInv, CacheIsTip
<1>3. ASSUME NEW g \in DOMAIN blocks
      PROVE  blocks[g].height \in Nat /\ blocks[g].height < b.height
  <2>1. tip[p] # None
    BY <1>2, <1>3 DEF ChainInv, TipStored
  <2>2. tip[p] \in DOMAIN blocks /\ height[p] = blocks[tip[p]].height
    BY <2>1 DEF ChainInv, CachesStored
  <2>3. blocks[g].height \in Nat /\ height[p] \in Nat
    BY <2>2 DEF TypeOK, Block
  <2> QED
    BY <1>1, <1>2, <2>2, <2>3 DEF LoneInv, TipIsHighest
<1> HIDE DEF b
<1>4. job[p].hash \notin DOMAIN blocks
  BY <1>1, <1>3 DEF Names
<1> QED
  BY <1>1, <1>2, <1>3, <1>4 DEF b

(* Everything that is stored is in the chain of the durable tip.           *)
WholeChain == Chain(tipHash) = DOMAIN blocks

LEMMA LoneChainGrows ==
  ASSUME TypeOK, ChainInv, LoneInv, WholeChain, NEW p \in Process, Process = {p}, [Next]_vars
  PROVE  WholeChain'
<1> DEFINE h == job[p].hash
           Below(s, top) == /\ {top} \cap DOMAIN blocks \subseteq s
                            /\ \A f \in s : {blocks[f].prev} \cap DOMAIN blocks \subseteq s
<1>1. CASE StoreBlock(p)
  <2>1. /\ job[p] # None
        /\ DOMAIN blocks' = DOMAIN blocks \cup {h} /\ blocks'[h].prev = tipHash
        /\ h \notin DOMAIN blocks
        /\ \A g \in DOMAIN blocks : blocks'[g] = blocks[g]
        /\ tipHash' = h
    BY <1>1, JobIsNew DEF StoreBlock, CommitBlock, Busy
  <2> HIDE DEF h
  <2>2. ASSUME NEW s \in SUBSET DOMAIN blocks', {h} \subseteq s,
               \A f \in s : {blocks'[f].prev} \cap DOMAIN blocks' \subseteq s,
               NEW g \in DOMAIN blocks'
        PROVE  g \in s
    <3> DEFINE r == s \ {h}
    <3>1. r \in SUBSET DOMAIN blocks
      BY <2>1
    <3>2. {tipHash} \cap DOMAIN blocks \subseteq r
      BY <2>1, <2>2
    <3>3. \A f \in r : {blocks[f].prev} \cap DOMAIN blocks \subseteq r
      BY <2>1, <2>2
    <3>4. g \in DOMAIN blocks => g \in r
      BY <3>1, <3>2, <3>3 DEF WholeChain, Chain
    <3> QED
      BY <2>1, <2>2, <3>4
  <2> QED
    BY <2>1, <2>2 DEF WholeChain, Chain
<1>2. CASE ~StoreBlock(p)
  <2>1. UNCHANGED <<blocks, tipHash>>
    BY <1>2 DEF Next, vars, ApplyStep, Open, Exit, ApplyGenesis, Mine, Apply, SelectInput,
                DeleteInput, RejectBlock, AddOutputs, durable, cache
  <2> QED
    BY <2>1 DEF WholeChain, Chain
<1> QED
  BY <1>1, <1>2

LoneChain == LoneInv /\ WholeChain

LEMMA LoneChainHolds ==
  ASSUME NEW p \in Process, Process = {p}
  PROVE  Spec => []LoneChain
<1>1. Init => LoneChain
  BY DEF Init, LoneChain, LoneInv, CacheIsTip, TipIsHighest, WholeChain, Chain
<1>2. TypeOK /\ ChainInv /\ LoneChain /\ [Next]_vars => LoneChain'
  BY LoneStep, LoneChainGrows DEF LoneChain
<1> QED
  BY <1>1, <1>2, TypeCorrect, ChainCorrect, PTL DEF Spec

-----------------------------------------------------------------------------
(* Sets of transactions: what one more of them creates and spends.         *)
LEMMA OneMore ==
  ASSUME NEW txs, NEW t
  PROVE  /\ Created(txs \cup {t}) = Created(txs) \cup OutputsOf(t)
         /\ Spent(txs \cup {t}) = Spent(txs) \cup SpentBy(t)
         /\ Disturbed(txs \cup {t}) = Disturbed(txs) \cup OutputsOf(t) \cup SpentBy(t)
BY DEF Created, Spent, Disturbed

LEMMA MoreDisturbed ==
  ASSUME NEW txs, NEW more, txs \subseteq more
  PROVE  Disturbed(txs) \subseteq Disturbed(more)
BY DEF Created, Spent, Disturbed

(* An outpoint names the transaction that creates it.                      *)
LEMMA OneCreator ==
  ASSUME NEW txs, NEW t, NEW x \in OutputsOf(t), x \in Created(txs)
  PROVE  t \in txs
<1>1. PICK u \in txs : x \in OutputsOf(u)
  BY DEF Created
<1>2. x[1] = t /\ x[1] = u
  BY <1>1 DEF OutputsOf
<1> QED
  BY <1>1, <1>2

(* The table holds what the transactions txs leave unspent, outside the    *)
(* damage; spending is the part of the next transaction's inputs that is   *)
(* gone already.  Outside the damage, what is spent was created, and by    *)
(* one transaction only it is spent.                                       *)
Agree(table, txs, spending, damage) ==
  /\ table \ damage = (Created(txs) \ (Spent(txs) \cup spending)) \ damage
  /\ (Spent(txs) \cup spending) \ damage \subseteq Created(txs)
  /\ spending \cap Spent(txs) \subseteq damage
  /\ \A t, u \in txs : t # u => SpentBy(t) \cap SpentBy(u) \subseteq damage

(* Deleting a row that is there.                                           *)
LEMMA AgreeDelete ==
  ASSUME NEW table, NEW txs, NEW spending, NEW damage,
         Agree(table, txs, spending, damage), NEW x \in table
  PROVE  Agree(table \ {x}, txs, spending \cup {x}, damage)
<1>1. x \in damage \/ (x \in Created(txs) /\ x \notin Spent(txs))
  BY DEF Agree
<1> QED
  BY <1>1 DEF Agree

(* Adding the outputs of a transaction whose inputs are all gone.          *)
LEMMA AgreeAdd ==
  ASSUME NEW table, NEW txs, NEW t, NEW damage, NEW more,
         Agree(table, txs, SpentBy(t), damage),
         damage \subseteq more, t \in txs => OutputsOf(t) \cup SpentBy(t) \subseteq more
  PROVE  Agree(table \cup OutputsOf(t), txs \cup {t}, {}, more)
<1> DEFINE c == Created(txs)
           s == Spent(txs)
<1>1. /\ Created(txs \cup {t}) = c \cup OutputsOf(t)
      /\ Spent(txs \cup {t}) = s \cup SpentBy(t)
  BY OneMore
<1>2. (s \cup SpentBy(t)) \ more \subseteq c
  BY DEF Agree
<1>3. ASSUME NEW x \in OutputsOf(t), x \notin more
      PROVE  x \notin s \cup SpentBy(t)
  <2>1. t \notin txs
    BY <1>3
  <2>2. x \notin c
    BY <1>3, <2>1, OneCreator
  <2> QED
    BY <1>2, <1>3, <2>2
<1>4. table \ more = (c \ (s \cup SpentBy(t))) \ more
  BY DEF Agree
<1>5. ASSUME NEW u \in txs, u # t
      PROVE  SpentBy(t) \cap SpentBy(u) \subseteq more
  <2>1. SpentBy(u) \subseteq s
    BY DEF Spent
  <2> QED
    BY <2>1 DEF Agree
<1>6. \A u, w \in txs : u # w => SpentBy(u) \cap SpentBy(w) \subseteq more
  BY DEF Agree
<1>7. (table \cup OutputsOf(t)) \ more
        = ((c \cup OutputsOf(t)) \ (s \cup SpentBy(t))) \ more
  BY <1>3, <1>4
<1>8. \A u, w \in txs \cup {t} : u # w => SpentBy(u) \cap SpentBy(w) \subseteq more
  BY <1>5, <1>6
<1> HIDE DEF c, s
<1> QED
  BY <1>1, <1>2, <1>7, <1>8 DEF Agree

(* Giving up a block: what was done of it becomes damage.                  *)
LEMMA AgreeAbandon ==
  ASSUME NEW table, NEW txs, NEW spending, NEW damage, NEW kept, NEW more,
         Agree(table, txs, spending, damage),
         kept \subseteq txs, damage \subseteq more, spending \subseteq more,
         \A t \in txs \ kept : OutputsOf(t) \cup SpentBy(t) \subseteq more
  PROVE  Agree(table, kept, {}, more)
<1>1. Created(kept) \ more = Created(txs) \ more
  BY DEF Created
<1>2. Spent(kept) \ more = Spent(txs) \ more
  BY DEF Spent
<1> QED
  BY <1>1, <1>2 DEF Agree

-----------------------------------------------------------------------------
(* What the only process has applied: the stored blocks, and of a block    *)
(* under application the transactions before the current one.  Of the      *)
(* current one, the inputs that are gone.                                  *)
JobDone(p) ==
  IF job[p] = None THEN {}
  ELSE {job[p].block.txs[i] : i \in {k \in 1 .. Len(job[p].block.txs) : k < job[p].tx}}

Applied(p) == StoredTxs \cup JobDone(p)

Spending(p) ==
  IF job[p] = None \/ job[p].tx > Len(job[p].block.txs) THEN {}
  ELSE {InputsOf(CurrentTx(p))[i] :
          i \in {k \in 1 .. Len(InputsOf(CurrentTx(p))) : k < job[p].inp}}

(* Applied in two places: two of the chain, one of it and one of the block *)
(* under application, or two of that.                                      *)
StoredTwice ==
  {t \in StoredTxs : \E f, g \in DOMAIN blocks :
     \E i \in 1 .. Len(blocks[f].txs), j \in 1 .. Len(blocks[g].txs) :
       <<f, i>> # <<g, j>> /\ blocks[f].txs[i] = t /\ blocks[g].txs[j] = t}

JobTwice(p) ==
  IF job[p] = None THEN {}
  ELSE {t \in JobDone(p) : \E i, j \in 1 .. Len(job[p].block.txs) :
          /\ i # j /\ i < job[p].tx /\ j < job[p].tx
          /\ job[p].block.txs[i] = t /\ job[p].block.txs[j] = t}

Repeated(p) == StoredTwice \cup (StoredTxs \cap JobDone(p)) \cup JobTwice(p)

Damage(p) == Disturbed(abandoned \cup Repeated(p))

(* The table is right outside the damage at every step of apply_block, and *)
(* a row that SELECT has found is there until it is deleted.               *)
LedgerInv(p) ==
  /\ Agree(utxos, Applied(p), Spending(p), Damage(p))
  /\ (job[p] # None /\ job[p].found) => AtInput(p) /\ CurrentInput(p) \in utxos

(* A step that only moves a call on within its block.                      *)
LEMMA JobMoves ==
  ASSUME TypeOK, NEW p \in Process
  PROVE  /\ SelectInput(p) =>
              /\ job[p] # None /\ job'[p] # None
              /\ job'[p].hash = job[p].hash /\ job'[p].block = job[p].block
              /\ job'[p].tx = job[p].tx /\ job'[p].inp = job[p].inp /\ job'[p].found
         /\ DeleteInput(p) =>
              /\ job[p] # None /\ job'[p] # None
              /\ job'[p].hash = job[p].hash /\ job'[p].block = job[p].block
              /\ job'[p].tx = job[p].tx /\ job'[p].inp = job[p].inp + 1 /\ ~job'[p].found
         /\ AddOutputs(p) =>
              /\ job[p] # None /\ job'[p] # None
              /\ job'[p].hash = job[p].hash /\ job'[p].block = job[p].block
              /\ job'[p].tx = job[p].tx + 1 /\ job'[p].inp = 1
              /\ job'[p].found = job[p].found
<1>1. job[p] # None => job[p] \in Job
  BY JobTyped
<1>2. ASSUME SelectInput(p)
      PROVE  job[p] # None /\ job'[p] = [job[p] EXCEPT !.found = TRUE]
  BY <1>2 DEF SelectInput, AtInput, AtTx, Busy, TypeOK
<1>3. ASSUME DeleteInput(p)
      PROVE  job[p] # None /\ job'[p] = [job[p] EXCEPT !.found = FALSE, !.inp = @ + 1]
  BY <1>3 DEF DeleteInput, AtInput, AtTx, Busy, TypeOK
<1>4. ASSUME AddOutputs(p)
      PROVE  job[p] # None /\ job'[p] = [job[p] EXCEPT !.tx = @ + 1, !.inp = 1]
  BY <1>4 DEF AddOutputs, AtInput, AtTx, Busy, TypeOK
<1>5. job[p] # None => /\ [job[p] EXCEPT !.found = TRUE] \in Job
                      /\ [job[p] EXCEPT !.found = FALSE, !.inp = @ + 1] \in Job
                      /\ [job[p] EXCEPT !.tx = @ + 1, !.inp = 1] \in Job
  <2>1. job[p] # None => [job[p] EXCEPT !.found = TRUE] \in Job
    BY <1>1 DEF Job
  <2> QED
    BY <1>1, <2>1, JobAdvances
<1>6. SelectInput(p) => job'[p] # None
  BY <1>2, <1>5, NoCallAssumption
<1>7. DeleteInput(p) => job'[p] # None
  BY <1>3, <1>5, NoCallAssumption
<1>8. AddOutputs(p) => job'[p] # None
  BY <1>4, <1>5, NoCallAssumption
<1> QED
  BY <1>1, <1>2, <1>3, <1>4, <1>6, <1>7, <1>8 DEF Job

(* What an unfinished block has done is reached by it.                     *)
LEMMA DoneIsReached ==
  ASSUME TypeOK, NEW p \in Process
  PROVE  /\ JobDone(p) \subseteq Reached(p)
         /\ Spending(p) \subseteq Disturbed(Reached(p))
<1>1. CASE job[p] = None
  BY <1>1 DEF JobDone, Spending
<1>2. CASE job[p] # None
  <2> DEFINE txs == job[p].block.txs
             k == job[p].tx
  <2>1. txs \in Seq(TxId) /\ k \in Nat \ {0}
    BY <1>2, JobTyped DEF Job, Block
  <2>2. JobDone(p) \subseteq Reached(p)
    BY <1>2, <2>1 DEF JobDone, Reached
  <2>3. ASSUME k <= Len(txs)
        PROVE  txs[k] \in Reached(p) /\ Spending(p) \subseteq SpentBy(txs[k])
    <3>1. txs[k] \in Reached(p)
      BY <1>2, <2>1, <2>3 DEF Reached
    <3>2. Spending(p) \subseteq SpentBy(txs[k])
      BY <1>2, <2>1, <2>3 DEF Spending, SpentBy, CurrentTx
    <3> QED
      BY <3>1, <3>2
  <2>4. k > Len(txs) => Spending(p) = {}
    BY <1>2 DEF Spending
  <2>5. \A t \in Reached(p) : SpentBy(t) \subseteq Disturbed(Reached(p))
    BY DEF Disturbed, Spent
  <2> QED
    BY <2>1, <2>2, <2>3, <2>4, <2>5
<1> QED
  BY <1>1, <1>2

(* Starting a call changes nothing that has been applied.                  *)
LEMMA FreshJob ==
  ASSUME NEW p \in Process,
         \/ job[p] = None
         \/ job[p] # None /\ job[p].tx = 1 /\ job[p].inp = 1
  PROVE  JobDone(p) = {} /\ JobTwice(p) = {} /\ Spending(p) = {}
         /\ Applied(p) = StoredTxs /\ Repeated(p) = StoredTwice
<1>1. JobDone(p) = {}
  BY DEF JobDone
<1> QED
  BY <1>1 DEF JobTwice, Spending, Applied, Repeated

(* The transactions of an apply_block that is done are those of the block. *)
LEMMA AllDone ==
  ASSUME TypeOK, NEW p \in Process, Busy(p), ~AtTx(p)
  PROVE  JobDone(p) = TxsIn(job[p].block) /\ Spending(p) = {}
<1>1. /\ job[p] # None /\ job[p].tx \in Nat /\ job[p].block.txs \in Seq(TxId)
      /\ job[p].tx > Len(job[p].block.txs)
  BY JobTyped DEF Busy, AtTx, Job, Block
<1> QED
  BY <1>1 DEF JobDone, Spending, TxsIn

(* DELETE moves one outpoint to those that are gone.                       *)
LEMMA DeleteSpends ==
  ASSUME TypeOK, NEW p \in Process, DeleteInput(p)
  PROVE  /\ Applied(p)' = Applied(p) /\ Repeated(p)' = Repeated(p)
         /\ Spending(p)' = Spending(p) \cup {CurrentInput(p)}
         /\ JobDone(p)' = JobDone(p)
<1> DEFINE j == job[p]
           n == Len(InputsOf(CurrentTx(p)))
<1>1. /\ UNCHANGED blocks
      /\ job[p] # None /\ job'[p] # None
      /\ job'[p].block = job[p].block /\ job'[p].tx = job[p].tx /\ job'[p].inp = job[p].inp + 1
  BY JobMoves DEF DeleteInput
<1>2. /\ j.tx <= Len(j.block.txs) /\ j.inp \in 1 .. n
      /\ j.tx \in Nat /\ Len(j.block.txs) \in Nat
  <2>1. j \in Job /\ CurrentTx(p) \in TxId /\ AtInput(p) /\ AtTx(p)
    BY <1>1, JobTyped DEF DeleteInput, AtInput
  <2>2. Len(j.block.txs) \in Nat
    BY <2>1 DEF Job, Block
  <2>3. InputsOf(CurrentTx(p)) \in Seq((Tx \cup ({"coinbase", "genesis"} \X Nat)) \X Nat)
    BY <2>1, ChainAssumption DEF InputsOf, IsCoinbase
  <2> QED
    BY <2>1, <2>2, <2>3 DEF AtInput, AtTx, Job
<1>3. JobDone(p)' = JobDone(p) /\ JobTwice(p)' = JobTwice(p)
  BY <1>1 DEF JobDone, JobTwice
<1>4. StoredTxs' = StoredTxs /\ StoredTwice' = StoredTwice
  BY <1>1 DEF StoredTxs, StoredTwice, TxsIn
<1>5. CurrentTx(p)' = CurrentTx(p)
  BY <1>1 DEF CurrentTx
<1>6. InputsOf(CurrentTx(p))' = InputsOf(CurrentTx(p))
  BY <1>5 DEF InputsOf, IsCoinbase
<1>7. {k \in 1 .. n : k < j.inp + 1} = {k \in 1 .. n : k < j.inp} \cup {j.inp}
  BY <1>2
<1>8. Spending(p)' = {InputsOf(CurrentTx(p))[i] : i \in {k \in 1 .. n : k < j.inp + 1}}
  BY <1>1, <1>2, <1>6 DEF Spending
<1>9. Spending(p) = {InputsOf(CurrentTx(p))[i] : i \in {k \in 1 .. n : k < j.inp}}
  BY <1>1, <1>2 DEF Spending
<1>10. Spending(p)' = Spending(p) \cup {CurrentInput(p)}
  BY <1>7, <1>8, <1>9 DEF CurrentInput
<1> QED
  BY <1>3, <1>4, <1>10 DEF Applied, Repeated

(* add_outputs completes a transaction: all its inputs are gone, and if it *)
(* was applied before it is now applied twice.                             *)
LEMMA AddCompletes ==
  ASSUME TypeOK, NEW p \in Process, AddOutputs(p)
  PROVE  /\ Applied(p)' = Applied(p) \cup {CurrentTx(p)}
         /\ Repeated(p)' = Repeated(p) \cup ({CurrentTx(p)} \cap Applied(p))
         /\ Spending(p) = SpentBy(CurrentTx(p)) /\ Spending(p)' = {}
         /\ JobDone(p)' = JobDone(p) \cup {CurrentTx(p)}
<1> DEFINE txs == job[p].block.txs
           k == job[p].tx
           t == CurrentTx(p)
<1>1. /\ UNCHANGED blocks
      /\ job[p] # None /\ job'[p] # None
      /\ job'[p].block = job[p].block /\ job'[p].tx = k + 1 /\ job'[p].inp = 1
  BY JobMoves DEF AddOutputs
<1>2. /\ k \in 1 .. Len(txs) /\ Len(txs) \in Nat /\ t = txs[k]
      /\ job[p].inp \in Nat /\ ~(job[p].inp <= Len(InputsOf(t))) /\ Len(InputsOf(t)) \in Nat
  <2>1. job[p] \in Job /\ t \in TxId /\ AtTx(p) /\ ~AtInput(p)
    BY <1>1, JobTyped DEF AddOutputs
  <2>2. Len(txs) \in Nat
    BY <2>1 DEF Job, Block
  <2>3. InputsOf(t) \in Seq((Tx \cup ({"coinbase", "genesis"} \X Nat)) \X Nat)
    BY <2>1, ChainAssumption DEF InputsOf, IsCoinbase
  <2> QED
    BY <2>1, <2>2, <2>3 DEF AtInput, AtTx, Job, CurrentTx
<1>3. JobDone(p)' = JobDone(p) \cup {t}
  <2>1. {i \in 1 .. Len(txs) : i < k + 1} = {i \in 1 .. Len(txs) : i < k} \cup {k}
    BY <1>2
  <2> QED
    BY <1>1, <1>2, <2>1 DEF JobDone
<1>4. JobTwice(p)' = JobTwice(p) \cup ({t} \cap JobDone(p))
  <2>1. JobTwice(p)' = {u \in JobDone(p) \cup {t} : \E i, j \in 1 .. Len(txs) :
          i # j /\ i < k + 1 /\ j < k + 1 /\ txs[i] = u /\ txs[j] = u}
    BY <1>1, <1>3 DEF JobTwice
  <2>2. \A i \in 1 .. Len(txs) : i < k + 1 <=> i < k \/ i = k
    BY <1>2
  <2>3. \A u : (\E i \in 1 .. Len(txs) : i < k /\ txs[i] = u) <=> u \in JobDone(p)
    BY <1>1 DEF JobDone
  <2>4. ASSUME NEW u \in JobTwice(p)'
        PROVE  u \in JobTwice(p) \cup ({t} \cap JobDone(p))
    <3>1. PICK i, j \in 1 .. Len(txs) :
            i # j /\ i < k + 1 /\ j < k + 1 /\ txs[i] = u /\ txs[j] = u
      BY <2>1, <2>4
    <3>2. CASE i < k /\ j < k
      <4>1. u \in JobDone(p)
        BY <2>3, <3>1, <3>2
      <4> QED
        BY <1>1, <3>1, <3>2, <4>1 DEF JobTwice
    <3>3. CASE i = k \/ j = k
      BY <1>2, <2>2, <2>3, <3>1, <3>3
    <3> QED
      BY <2>2, <3>1, <3>2, <3>3
  <2>5. ASSUME NEW u \in JobTwice(p)
        PROVE  u \in JobTwice(p)'
    <3>1. PICK i, j \in 1 .. Len(txs) : i # j /\ i < k /\ j < k /\ txs[i] = u /\ txs[j] = u
      BY <1>1, <2>5 DEF JobTwice
    <3>2. u \in JobDone(p)
      BY <1>1, <2>5 DEF JobTwice
    <3> QED
      BY <2>1, <2>2, <3>1, <3>2
  <2>6. t \in JobDone(p) => t \in JobTwice(p)'
    <3> SUFFICES ASSUME t \in JobDone(p) PROVE t \in JobTwice(p)'
      OBVIOUS
    <3>1. PICK i \in 1 .. Len(txs) : i < k /\ txs[i] = t
      BY <2>3
    <3>2. i # k /\ i < k + 1 /\ k < k + 1 /\ k \in 1 .. Len(txs)
      BY <1>2, <3>1
    <3> HIDE DEF txs, k, t
    <3> QED
      BY <1>2, <2>1, <3>1, <3>2
  <2> QED
    BY <2>4, <2>5, <2>6
<1>5. StoredTxs' = StoredTxs /\ StoredTwice' = StoredTwice
  BY <1>1 DEF StoredTxs, StoredTwice, TxsIn
<1>6. Spending(p) = SpentBy(t)
  <2>1. {i \in 1 .. Len(InputsOf(t)) : i < job[p].inp} = 1 .. Len(InputsOf(t))
    BY <1>2
  <2> QED
    BY <1>1, <1>2, <2>1 DEF Spending, SpentBy
<1>7. Spending(p)' = {}
  BY <1>1 DEF Spending
<1> QED
  BY <1>3, <1>4, <1>5, <1>6, <1>7 DEF Applied, Repeated

(* Storing the block makes what its call has applied part of the chain.    *)
LEMMA StoreCompletes ==
  ASSUME TypeOK, ChainInv, LoneInv, NEW p \in Process, Process = {p}, StoreBlock(p)
  PROVE  /\ Applied(p)' = Applied(p) /\ Repeated(p)' = Repeated(p)
         /\ Spending(p)' = Spending(p)
         /\ job'[p] = None
<1> DEFINE h == job[p].hash
           b == job[p].block
           n == Len(b.txs)
<1>1. /\ job[p] # None /\ job'[p] = None
      /\ DOMAIN blocks' = DOMAIN blocks \cup {h} /\ blocks'[h] = b
      /\ h \notin DOMAIN blocks
      /\ \A g \in DOMAIN blocks : blocks'[g] = blocks[g]
  BY JobIsNew DEF StoreBlock, CommitBlock, Busy, TypeOK
<1>2. JobDone(p) = TxsIn(b) /\ Spending(p) = {} /\ job[p].tx > n /\ n \in Nat /\ job[p].tx \in Nat
  BY AllDone, JobTyped DEF StoreBlock, CommitBlock, Busy, AtTx, Job, Block
<1>3. JobDone(p)' = {} /\ JobTwice(p)' = {} /\ Spending(p)' = {}
  BY <1>1 DEF JobDone, JobTwice, Spending
<1>4. JobTwice(p) = {t \in TxsIn(b) : \E i, j \in 1 .. n : i # j /\ b.txs[i] = t /\ b.txs[j] = t}
  BY <1>1, <1>2 DEF JobTwice
<1> HIDE DEF h, b
<1>5. StoredTxs' = StoredTxs \cup TxsIn(b)
  BY <1>1 DEF StoredTxs, TxsIn
<1>6. StoredTwice' = StoredTwice \cup (StoredTxs \cap TxsIn(b)) \cup JobTwice(p)
  <2>1. ASSUME NEW t \in StoredTwice'
        PROVE  t \in StoredTwice \cup (StoredTxs \cap TxsIn(b)) \cup JobTwice(p)
    <3>1. PICK f, g \in DOMAIN blocks' :
            \E i \in 1 .. Len(blocks'[f].txs), j \in 1 .. Len(blocks'[g].txs) :
              <<f, i>> # <<g, j>> /\ blocks'[f].txs[i] = t /\ blocks'[g].txs[j] = t
      BY <2>1 DEF StoredTwice
    <3>2. PICK i \in 1 .. Len(blocks'[f].txs), j \in 1 .. Len(blocks'[g].txs) :
            <<f, i>> # <<g, j>> /\ blocks'[f].txs[i] = t /\ blocks'[g].txs[j] = t
      BY <3>1
    <3>3. f # h => f \in DOMAIN blocks /\ t \in TxsIn(blocks[f]) /\ t \in StoredTxs
      BY <1>1, <3>2 DEF TxsIn, StoredTxs
    <3>4. g # h => g \in DOMAIN blocks /\ t \in TxsIn(blocks[g]) /\ t \in StoredTxs
      BY <1>1, <3>2 DEF TxsIn, StoredTxs
    <3>5. f = h \/ g = h => t \in TxsIn(b)
      BY <1>1, <3>2 DEF TxsIn
    <3>6. CASE f # h /\ g # h
      BY <1>1, <3>2, <3>3, <3>4, <3>6 DEF StoredTwice
    <3>7. CASE f = h /\ g = h
      BY <1>1, <1>4, <3>2, <3>5, <3>7
    <3> QED
      BY <3>3, <3>4, <3>5, <3>6, <3>7
  <2>2. ASSUME NEW t \in StoredTwice
        PROVE  t \in StoredTwice'
    BY <1>1, <1>5, <2>2 DEF StoredTwice
  <2>3. ASSUME NEW t \in StoredTxs \cap TxsIn(b)
        PROVE  t \in StoredTwice'
    <3>1. PICK g \in DOMAIN blocks : \E i \in 1 .. Len(blocks[g].txs) : blocks[g].txs[i] = t
      BY <2>3 DEF StoredTxs, TxsIn
    <3>4. PICK i \in 1 .. Len(blocks[g].txs) : blocks[g].txs[i] = t
      BY <3>1
    <3>2. PICK j \in 1 .. n : b.txs[j] = t
      BY <2>3 DEF TxsIn
    <3>3. <<g, i>> # <<h, j>> /\ g \in DOMAIN blocks' /\ h \in DOMAIN blocks'
      BY <1>1
    <3> QED
      BY <1>1, <1>5, <2>3, <3>1, <3>2, <3>3, <3>4 DEF StoredTwice
  <2>4. ASSUME NEW t \in JobTwice(p)
        PROVE  t \in StoredTwice'
    <3>1. PICK i, j \in 1 .. n : i # j /\ b.txs[i] = t /\ b.txs[j] = t
      BY <1>4, <2>4
    <3>2. <<h, i>> # <<h, j>> /\ h \in DOMAIN blocks'
      BY <1>1, <3>1
    <3> QED
      BY <1>1, <1>4, <1>5, <2>4, <3>1, <3>2 DEF StoredTwice
  <2> QED
    BY <2>1, <2>2, <2>3, <2>4
<1> QED
  BY <1>1, <1>2, <1>3, <1>5, <1>6 DEF Applied, Repeated

(* Every step of the only process keeps the table right outside the damage.*)
LEMMA LedgerStep ==
  ASSUME TypeOK, ChainInv, LoneInv, NEW p \in Process, Process = {p}, LedgerInv(p), [Next]_vars
  PROVE  LedgerInv(p)'
<1>1. ASSUME UNCHANGED <<blocks, utxos, job, abandoned>>, job[p] = None \/ up' = up
      PROVE  LedgerInv(p)'
  <2>1. /\ Applied(p)' = Applied(p) /\ Repeated(p)' = Repeated(p)
        /\ Spending(p)' = Spending(p) /\ CurrentInput(p)' = CurrentInput(p)
    BY <1>1 DEF Applied, Repeated, StoredTxs, StoredTwice, JobDone, JobTwice, Spending, TxsIn,
                CurrentInput, CurrentTx, InputsOf, IsCoinbase
  <2>2. Damage(p)' = Damage(p)
    BY <1>1, <2>1 DEF Damage
  <2>3. job[p] # None => AtInput(p)' = AtInput(p)
    BY <1>1 DEF AtInput, AtTx, Busy, CurrentTx, InputsOf, IsCoinbase
  <2> QED
    BY <1>1, <2>1, <2>2, <2>3 DEF LedgerInv
<1>2. ASSUME Open(p)
      PROVE  LedgerInv(p)'
  BY <1>1, <1>2 DEF Open, durable, ChainInv, JobsOnTip
<1>3. ASSUME NEW h \in BlockHash, NEW b, Apply(p, h, b)
      PROVE  LedgerInv(p)'
  <2>1. /\ UNCHANGED <<blocks, utxos, abandoned>> /\ job[p] = None
        /\ job'[p] = [hash |-> h, block |-> b, tx |-> 1, inp |-> 1, found |-> FALSE]
    BY <1>3 DEF Apply, durable, TypeOK
  <2>2. /\ Applied(p) = StoredTxs /\ Repeated(p) = StoredTwice /\ Spending(p) = {}
    BY <2>1, FreshJob
  <2>3. job'[p].tx = 1 /\ job'[p].inp = 1 /\ ~job'[p].found
    BY <2>1
  <2>4. JobDone(p)' = {} /\ JobTwice(p)' = {} /\ Spending(p)' = {}
    BY <2>3 DEF JobDone, JobTwice, Spending
  <2>5. StoredTxs' = StoredTxs /\ StoredTwice' = StoredTwice
    BY <2>1 DEF StoredTxs, StoredTwice, TxsIn
  <2>6. Applied(p)' = Applied(p) /\ Damage(p)' = Damage(p)
    BY <2>1, <2>2, <2>4, <2>5 DEF Applied, Repeated, Damage
  <2> QED
    BY <2>1, <2>2, <2>3, <2>4, <2>6 DEF LedgerInv
<1>4. ASSUME SelectInput(p)
      PROVE  LedgerInv(p)'
  <2>1. /\ UNCHANGED <<blocks, utxos, abandoned, up>> /\ AtInput(p) /\ CurrentInput(p) \in utxos
        /\ job[p] # None /\ job'[p] # None
        /\ job'[p].block = job[p].block /\ job'[p].tx = job[p].tx /\ job'[p].inp = job[p].inp
    BY <1>4, JobMoves DEF SelectInput, durable, cache
  <2>2. /\ Applied(p)' = Applied(p) /\ Repeated(p)' = Repeated(p)
        /\ Spending(p)' = Spending(p) /\ CurrentInput(p)' = CurrentInput(p)
    <3>1. StoredTxs' = StoredTxs /\ StoredTwice' = StoredTwice
      BY <2>1 DEF StoredTxs, StoredTwice, TxsIn
    <3>2. JobDone(p)' = JobDone(p)
      BY <2>1 DEF JobDone
    <3>3. JobTwice(p)' = JobTwice(p)
      BY <2>1, <3>2 DEF JobTwice
    <3>4. CurrentTx(p)' = CurrentTx(p)
      BY <2>1 DEF CurrentTx
    <3>5. InputsOf(CurrentTx(p))' = InputsOf(CurrentTx(p))
      BY <3>4 DEF InputsOf, IsCoinbase
    <3>6. Spending(p)' = Spending(p) /\ CurrentInput(p)' = CurrentInput(p)
      BY <2>1, <3>5 DEF Spending, CurrentInput
    <3> QED
      BY <3>1, <3>2, <3>3, <3>6 DEF Applied, Repeated
  <2>3. Damage(p)' = Damage(p)
    BY <2>1, <2>2 DEF Damage
  <2>4. AtInput(p)'
    BY <2>1 DEF AtInput, AtTx, Busy, CurrentTx, InputsOf, IsCoinbase
  <2> QED
    BY <2>1, <2>2, <2>3, <2>4 DEF LedgerInv
<1>5. ASSUME DeleteInput(p)
      PROVE  LedgerInv(p)'
  <2>1. /\ Applied(p)' = Applied(p) /\ Repeated(p)' = Repeated(p)
        /\ Spending(p)' = Spending(p) \cup {CurrentInput(p)}
    BY <1>5, DeleteSpends
  <2>2. /\ utxos' = utxos \ {CurrentInput(p)} /\ abandoned' = abandoned
        /\ CurrentInput(p) \in utxos /\ ~job'[p].found
    BY <1>5, JobMoves DEF DeleteInput, LedgerInv
  <2>3. Agree(utxos', Applied(p), Spending(p)', Damage(p))
    BY <2>1, <2>2, AgreeDelete DEF LedgerInv
  <2>4. Damage(p)' = Damage(p)
    BY <2>1, <2>2 DEF Damage
  <2> QED
    BY <2>1, <2>2, <2>3, <2>4 DEF LedgerInv
<1>6. ASSUME AddOutputs(p)
      PROVE  LedgerInv(p)'
  <2> DEFINE t == CurrentTx(p)
  <2>1. /\ Applied(p)' = Applied(p) \cup {t}
        /\ Repeated(p)' = Repeated(p) \cup ({t} \cap Applied(p))
        /\ Spending(p) = SpentBy(t) /\ Spending(p)' = {}
    BY <1>6, AddCompletes
  <2>2. /\ utxos' = utxos \cup OutputsOf(t) /\ abandoned' = abandoned
    BY <1>6 DEF AddOutputs
  <2>3. job'[p] # None /\ ~job'[p].found
    BY <1>6, JobMoves DEF AddOutputs, LedgerInv
  <2> HIDE DEF t
  <2>4. Damage(p) \subseteq Damage(p)'
    BY <2>1, <2>2, MoreDisturbed DEF Damage
  <2>5. t \in Applied(p) => OutputsOf(t) \cup SpentBy(t) \subseteq Damage(p)'
    BY <2>1 DEF Damage, Disturbed, Created, Spent
  <2>6. Agree(utxos', Applied(p)', {}, Damage(p)')
    BY <2>1, <2>2, <2>4, <2>5, AgreeAdd DEF LedgerInv
  <2> QED
    BY <2>1, <2>3, <2>6 DEF LedgerInv
<1>7. ASSUME StoreBlock(p)
      PROVE  LedgerInv(p)'
  <2>1. /\ Applied(p)' = Applied(p) /\ Repeated(p)' = Repeated(p)
        /\ Spending(p)' = Spending(p) /\ job'[p] = None
        /\ UNCHANGED <<utxos, abandoned>>
    BY <1>7, StoreCompletes DEF StoreBlock, CommitBlock
  <2>2. Damage(p)' = Damage(p)
    BY <2>1 DEF Damage
  <2> QED
    BY <2>1, <2>2 DEF LedgerInv
<1>8. ASSUME RejectBlock(p) \/ Exit(p)
      PROVE  LedgerInv(p)'
  <2>1. /\ UNCHANGED <<blocks, utxos>> /\ job'[p] = None
        /\ abandoned' = abandoned \cup Reached(p)
    BY <1>8 DEF RejectBlock, Exit, durable, TypeOK
  <2>2. /\ StoredTxs' = StoredTxs /\ StoredTwice' = StoredTwice
        /\ JobDone(p)' = {} /\ JobTwice(p)' = {} /\ Spending(p)' = {}
    BY <2>1 DEF StoredTxs, StoredTwice, TxsIn, JobDone, JobTwice, Spending
  <2>3. Applied(p)' = StoredTxs /\ Damage(p)' = Disturbed(abandoned' \cup StoredTwice)
    BY <2>2 DEF Applied, Damage, Repeated
  <2>4. abandoned \cup Repeated(p) \subseteq abandoned' \cup StoredTwice
    BY <2>1, DoneIsReached DEF Repeated, JobTwice
  <2>5. Damage(p) \subseteq Damage(p)'
    BY <2>3, <2>4, MoreDisturbed DEF Damage
  <2>6. Spending(p) \subseteq Damage(p)'
    <3>1. Disturbed(Reached(p)) \subseteq Disturbed(abandoned' \cup StoredTwice)
      BY <2>1, MoreDisturbed
    <3> QED
      BY <2>3, <3>1, DoneIsReached
  <2>7. \A t \in Applied(p) \ StoredTxs : OutputsOf(t) \cup SpentBy(t) \subseteq Damage(p)'
    <3>1. Applied(p) \ StoredTxs \subseteq abandoned' \cup StoredTwice
      BY <2>1, DoneIsReached DEF Applied
    <3> QED
      BY <2>3, <3>1 DEF Disturbed, Created, Spent
  <2>8. StoredTxs \subseteq Applied(p)
    BY DEF Applied
  <2>9. Agree(utxos, StoredTxs, {}, Damage(p)')
    BY <2>5, <2>6, <2>7, <2>8, AgreeAbandon DEF LedgerInv
  <2> QED
    BY <2>1, <2>2, <2>3, <2>9 DEF LedgerInv
<1>9. CASE UNCHANGED vars
  BY <1>1, <1>9 DEF vars, durable, cache
<1>10. ASSUME NEW body \in Bodies, Mine(p, body)
       PROVE  LedgerInv(p)'
  BY <1>3, <1>10 DEF Mine, BlockHash
<1>11. ApplyGenesis(p) => LedgerInv(p)'
  BY <1>3 DEF ApplyGenesis, BlockHash
<1>12. CASE Next
  <2>1. \/ Open(p) \/ Exit(p) \/ ApplyGenesis(p)
        \/ (\E body \in Bodies : Mine(p, body)) \/ ApplyStep(p)
    BY <1>12 DEF Next
  <2> QED
    BY <1>2, <1>4, <1>5, <1>6, <1>7, <1>8, <1>10, <1>11, <2>1 DEF ApplyStep
<1> QED
  BY <1>9, <1>12

-----------------------------------------------------------------------------
(* Coinbases are first in their blocks, and nowhere else; their id fixes   *)
(* the height.                                                             *)
Shaped(b) ==
  /\ \A i \in 1 .. Len(b.txs) : IsCoinbase(b.txs[i]) <=> i = 1
  /\ b.txs[1] \in {Coinbase(b.height), GenesisTx}
  /\ b.txs[1] = GenesisTx => b.height = 0

ShapeInv(p) ==
  /\ \A h \in DOMAIN blocks : Shaped(blocks[h])
  /\ job[p] # None => Shaped(job[p].block)

LEMMA TemplateShaped ==
  ASSUME TypeOK, NEW p \in Process, NEW body \in Bodies
  PROVE  Shaped(Template(p, body))
<1> DEFINE n == height[p] + 1
           txs == <<Coinbase(n)>> \o body
<1>1. n \in Nat /\ body \in Seq(Tx)
  <2>1. height[p] \in Nat \cup {-1}
    BY DEF TypeOK
  <2> QED
    BY <2>1, ChainAssumption
<1>2. Coinbase(n) \notin Tx /\ Coinbase(n) # GenesisTx
  BY <1>1, ChainAssumption DEF Coinbase, GenesisTx
<1> HIDE DEF n
<1>3. /\ Len(txs) = Len(body) + 1 /\ txs[1] = Coinbase(n)
      /\ \A i \in 2 .. Len(txs) : txs[i] = body[i - 1] /\ i - 1 \in 1 .. Len(body)
  BY <1>1
<1>4. \A i \in 2 .. Len(txs) : txs[i] \in Tx
  BY <1>1, <1>3
<1>5. \A i \in 1 .. Len(txs) : i = 1 \/ i \in 2 .. Len(txs)
  BY <1>1, <1>3
<1> HIDE DEF txs
<1>6. \A i \in 1 .. Len(txs) : IsCoinbase(txs[i]) <=> i = 1
  BY <1>2, <1>3, <1>4, <1>5 DEF IsCoinbase
<1>7. Template(p, body).txs = txs /\ Template(p, body).height = n
  BY DEF Template, txs, n
<1> QED
  BY <1>2, <1>3, <1>6, <1>7 DEF Shaped

LEMMA ShapeStep ==
  ASSUME TypeOK, NEW p \in Process, Process = {p}, ShapeInv(p), [Next]_vars
  PROVE  ShapeInv(p)'
<1>1. ASSUME UNCHANGED blocks, job'[p] = None \/ (job[p] # None /\ job'[p].block = job[p].block)
                               \/ Shaped(job'[p].block)
      PROVE  ShapeInv(p)'
  BY <1>1 DEF ShapeInv, Shaped
<1>2. ASSUME NEW h \in BlockHash, NEW b, Apply(p, h, b), Shaped(b)
      PROVE  ShapeInv(p)'
  <2>1. UNCHANGED blocks /\ job'[p] = [hash |-> h, block |-> b, tx |-> 1, inp |-> 1, found |-> FALSE]
    BY <1>2 DEF Apply, durable, TypeOK
  <2>2. job'[p].block = b
    BY <2>1
  <2> QED
    BY <1>1, <1>2, <2>1, <2>2
<1>3. ASSUME ApplyGenesis(p)
      PROVE  ShapeInv(p)'
  <2> DEFINE g == [prev |-> None, height |-> 0, txs |-> <<GenesisTx>>]
  <2>1. IsCoinbase(GenesisTx)
    BY ChainAssumption DEF IsCoinbase, GenesisTx
  <2>2. Len(g.txs) = 1 /\ g.txs[1] = GenesisTx /\ g.height = 0
    OBVIOUS
  <2>3. Shaped(g)
    BY <2>1, <2>2 DEF Shaped
  <2> QED
    BY <1>2, <1>3, <2>3 DEF ApplyGenesis, BlockHash
<1>4. ASSUME NEW body \in Bodies, Mine(p, body)
      PROVE  ShapeInv(p)'
  BY <1>2, <1>4, TemplateShaped DEF Mine, BlockHash
<1>5. ASSUME Open(p) \/ Exit(p) \/ RejectBlock(p) \/ UNCHANGED vars
      PROVE  ShapeInv(p)'
  <2>1. UNCHANGED blocks /\ (job'[p] = None \/ job' = job)
    BY <1>5 DEF Open, Exit, RejectBlock, vars, durable, TypeOK
  <2> QED
    BY <1>1, <2>1
<1>6. ASSUME SelectInput(p) \/ DeleteInput(p) \/ AddOutputs(p)
      PROVE  ShapeInv(p)'
  <2>1. UNCHANGED blocks /\ job[p] # None /\ job'[p].block = job[p].block
    BY <1>6, JobMoves DEF SelectInput, DeleteInput, AddOutputs, durable
  <2> QED
    BY <1>1, <2>1
<1>7. ASSUME StoreBlock(p)
      PROVE  ShapeInv(p)'
  <2>1. /\ job[p] # None /\ job'[p] = None
        /\ DOMAIN blocks' = DOMAIN blocks \cup {job[p].hash}
        /\ \A h \in DOMAIN blocks' : blocks'[h] = job[p].block
                                    \/ (h \in DOMAIN blocks /\ blocks'[h] = blocks[h])
    BY <1>7 DEF StoreBlock, CommitBlock, Busy, TypeOK
  <2> QED
    BY <2>1 DEF ShapeInv, Shaped
<1>8. CASE Next
  <2>1. \/ Open(p) \/ Exit(p) \/ ApplyGenesis(p)
        \/ (\E body \in Bodies : Mine(p, body)) \/ ApplyStep(p)
    BY <1>8 DEF Next
  <2> QED
    BY <1>3, <1>4, <1>5, <1>6, <1>7, <2>1 DEF ApplyStep
<1> QED
  BY <1>5, <1>8

(* A coinbase that apply_block is at has not been applied before.          *)
LEMMA CoinbaseIsNew ==
  ASSUME TypeOK, ChainInv, LoneInv, NEW p \in Process, Process = {p}, ShapeInv(p),
         Busy(p), AtTx(p), IsCoinbase(CurrentTx(p))
  PROVE  CurrentTx(p) \notin Applied(p)
<1> DEFINE b == job[p].block
           t == CurrentTx(p)
<1>1. /\ job[p] # None /\ Shaped(b) /\ b.height \in Nat /\ Len(b.txs) \in Nat
      /\ job[p].tx \in 1 .. Len(b.txs) /\ t = b.txs[job[p].tx]
  BY JobTyped DEF Busy, AtTx, ShapeInv, CurrentTx, Job, Block
<1>2. job[p].tx = 1
  BY <1>1 DEF Shaped
<1>3. JobDone(p) = {}
  BY <1>2 DEF JobDone
<1>4. ASSUME NEW g \in DOMAIN blocks, NEW i \in 1 .. Len(blocks[g].txs), blocks[g].txs[i] = t
      PROVE  FALSE
  <2>1. Shaped(blocks[g]) /\ blocks[g].height \in Nat
    BY DEF ShapeInv, TypeOK, Block
  <2>2. blocks[g].txs[1] = t
    BY <1>4, <2>1 DEF Shaped
  <2>3. blocks[g].height < b.height
    BY <1>1, JobIsNew
  <2>4. t = Coinbase(b.height)
    BY <1>1, <1>2, <2>1, <2>3 DEF Shaped
  <2>5. t # GenesisTx
    BY <2>4 DEF Coinbase, GenesisTx
  <2>6. t = Coinbase(blocks[g].height)
    BY <2>1, <2>2, <2>5 DEF Shaped
  <2>7. b.height = blocks[g].height
    BY <2>4, <2>6 DEF Coinbase
  <2> QED
    BY <1>1, <2>1, <2>3, <2>7
<1>5. t \notin StoredTxs
  BY <1>4 DEF StoredTxs, TxsIn
<1> QED
  BY <1>3, <1>5 DEF Applied

(* As long as no block has failed, nothing is applied twice: a transaction *)
(* whose first input has been found is a new one.                          *)
OnceInv(p) ==
  abandoned = {} =>
    /\ Repeated(p) = {}
    /\ (job[p] # None /\ (job[p].found \/ job[p].inp > 1)) => CurrentTx(p) \notin Applied(p)

LEMMA OnceStep ==
  ASSUME TypeOK, ChainInv, LoneInv, NEW p \in Process, Process = {p}, ShapeInv(p), LedgerInv(p),
         \A t \in Tx : Ins[t] # << >>, OnceInv(p), [Next]_vars
  PROVE  OnceInv(p)'
<1> SUFFICES ASSUME abandoned' = {}
             PROVE  /\ Repeated(p)' = {}
                    /\ (job'[p] # None /\ (job'[p].found \/ job'[p].inp > 1))
                         => CurrentTx(p)' \notin Applied(p)'
  BY DEF OnceInv
<1>1. /\ abandoned = {} /\ Repeated(p) = {}
      /\ (job[p] # None /\ (job[p].found \/ job[p].inp > 1)) => CurrentTx(p) \notin Applied(p)
  <2>1. abandoned \subseteq abandoned'
    BY DEF Next, vars, ApplyStep, Open, Exit, ApplyGenesis, Mine, Apply, SelectInput,
           DeleteInput, RejectBlock, AddOutputs, StoreBlock, CommitBlock
  <2> QED
    BY <2>1 DEF OnceInv
<1>2. Damage(p) = {}
  BY <1>1 DEF Damage, Disturbed, Created, Spent
<1>3. ASSUME UNCHANGED <<blocks, job>>
      PROVE  OnceInv(p)'
  <2>1. StoredTxs' = StoredTxs /\ StoredTwice' = StoredTwice
    BY <1>3 DEF StoredTxs, StoredTwice, TxsIn
  <2>2. JobDone(p)' = JobDone(p) /\ CurrentTx(p)' = CurrentTx(p)
    BY <1>3 DEF JobDone, CurrentTx
  <2>3. JobTwice(p)' = JobTwice(p)
    BY <1>3, <2>2 DEF JobTwice
  <2> QED
    BY <1>1, <1>3, <2>1, <2>2, <2>3 DEF OnceInv, Applied, Repeated
<1>4. ASSUME NEW h \in BlockHash, NEW b, Apply(p, h, b)
      PROVE  OnceInv(p)'
  <2>1. /\ UNCHANGED blocks /\ job[p] = None
        /\ job'[p] = [hash |-> h, block |-> b, tx |-> 1, inp |-> 1, found |-> FALSE]
    BY <1>4 DEF Apply, durable, TypeOK
  <2>2. job'[p].tx = 1 /\ job'[p].inp = 1 /\ ~job'[p].found
    BY <2>1
  <2>3. JobDone(p)' = {} /\ JobTwice(p)' = {}
    BY <2>2 DEF JobDone, JobTwice
  <2>4. StoredTwice' = StoredTwice /\ StoredTwice = {}
    <3>1. StoredTwice' = StoredTwice
      BY <2>1 DEF StoredTxs, StoredTwice, TxsIn
    <3> QED
      BY <1>1, <3>1 DEF Repeated
  <2> QED
    BY <2>2, <2>3, <2>4 DEF OnceInv, Repeated
<1>5. ASSUME SelectInput(p)
      PROVE  OnceInv(p)'
  <2>1. /\ UNCHANGED blocks /\ AtInput(p) /\ CurrentInput(p) \in utxos
        /\ job[p] # None /\ job'[p] # None
        /\ job'[p].block = job[p].block /\ job'[p].tx = job[p].tx
    BY <1>5, JobMoves DEF SelectInput, durable
  <2>2. /\ StoredTxs' = StoredTxs /\ StoredTwice' = StoredTwice
    BY <2>1 DEF StoredTxs, StoredTwice, TxsIn
  <2>3. JobDone(p)' = JobDone(p) /\ CurrentTx(p)' = CurrentTx(p)
    BY <2>1 DEF JobDone, CurrentTx
  <2>4. JobTwice(p)' = JobTwice(p)
    BY <2>1, <2>3 DEF JobTwice
  <2>5. CurrentInput(p) \notin Spent(Applied(p))
    BY <1>2, <2>1 DEF LedgerInv, Agree
  <2>6. CurrentInput(p) \in SpentBy(CurrentTx(p))
    <3>1. job[p].inp \in 1 .. Len(InputsOf(CurrentTx(p)))
      <4>1. job[p].inp \in Nat \ {0} /\ CurrentTx(p) \in TxId
        BY <2>1, JobTyped DEF Job, AtInput
      <4>2. Len(InputsOf(CurrentTx(p))) \in Nat
        BY <4>1, ChainAssumption DEF InputsOf, IsCoinbase
      <4> QED
        BY <2>1, <4>1, <4>2 DEF AtInput
    <3> QED
      BY <3>1 DEF CurrentInput, SpentBy
  <2>7. CurrentTx(p) \notin Applied(p)
    BY <2>5, <2>6 DEF Spent
  <2> QED
    BY <1>1, <2>2, <2>3, <2>4, <2>7 DEF OnceInv, Applied, Repeated
<1>6. ASSUME DeleteInput(p)
      PROVE  OnceInv(p)'
  <2>1. /\ Applied(p)' = Applied(p) /\ Repeated(p)' = Repeated(p)
        /\ job[p] # None /\ job[p].found
        /\ job'[p].block = job[p].block /\ job'[p].tx = job[p].tx
    BY <1>6, DeleteSpends, JobMoves DEF DeleteInput
  <2>2. CurrentTx(p)' = CurrentTx(p)
    BY <2>1 DEF CurrentTx
  <2> QED
    BY <1>1, <2>1, <2>2 DEF OnceInv
<1>7. ASSUME AddOutputs(p)
      PROVE  OnceInv(p)'
  <2>1. /\ Repeated(p)' = Repeated(p) \cup ({CurrentTx(p)} \cap Applied(p))
        /\ job[p] # None /\ job'[p].inp = 1 /\ job'[p].found = job[p].found
    BY <1>7, AddCompletes, JobMoves
  <2>2. AtTx(p) /\ ~AtInput(p) /\ Busy(p)
    BY <1>7 DEF AddOutputs, AtTx
  <2>3. ~job[p].found
    BY <2>1, <2>2 DEF LedgerInv
  <2>4. CurrentTx(p) \notin Applied(p)
    <3>1. CASE job[p].inp > 1
      BY <1>1, <2>1, <3>1
    <3>2. CASE ~(job[p].inp > 1)
      <4>1. job[p].inp = 1 /\ CurrentTx(p) \in TxId
        BY <2>1, <2>2, <3>2, JobTyped DEF Job
      <4>2. ASSUME ~IsCoinbase(CurrentTx(p))
            PROVE  FALSE
        <5>1. /\ CurrentTx(p) \in Tx /\ InputsOf(CurrentTx(p)) = Ins[CurrentTx(p)]
              /\ Ins[CurrentTx(p)] \in Seq((Tx \cup ({"coinbase", "genesis"} \X Nat)) \X Nat)
          BY <4>2, ChainAssumption DEF IsCoinbase, InputsOf
        <5>2. Len(Ins[CurrentTx(p)]) >= 1
          BY <5>1
        <5> QED
          BY <2>2, <4>1, <5>1, <5>2 DEF AtInput
      <4> QED
        BY <2>2, <4>2, CoinbaseIsNew
    <3> QED
      BY <3>1, <3>2
  <2> QED
    BY <1>1, <2>1, <2>3, <2>4 DEF OnceInv
<1>8. ASSUME StoreBlock(p)
      PROVE  OnceInv(p)'
  BY <1>1, <1>8, StoreCompletes DEF OnceInv
<1>9. ASSUME RejectBlock(p) \/ Exit(p)
      PROVE  OnceInv(p)'
  <2>1. UNCHANGED blocks /\ job'[p] = None
    BY <1>9 DEF RejectBlock, Exit, durable, TypeOK
  <2>2. StoredTwice' = StoredTwice /\ JobDone(p)' = {} /\ JobTwice(p)' = {}
    BY <2>1 DEF StoredTxs, StoredTwice, TxsIn, JobDone, JobTwice
  <2> QED
    BY <1>1, <2>1, <2>2 DEF OnceInv, Repeated
<1>10. CASE Next
  <2>1. \/ Open(p) \/ Exit(p) \/ ApplyGenesis(p)
        \/ (\E body \in Bodies : Mine(p, body)) \/ ApplyStep(p)
    BY <1>10 DEF Next
  <2>2. Open(p) => OnceInv(p)'
    BY <1>3 DEF Open, durable
  <2>3. ApplyGenesis(p) => OnceInv(p)'
    BY <1>4 DEF ApplyGenesis, BlockHash
  <2>4. \A body \in Bodies : Mine(p, body) => OnceInv(p)'
    BY <1>4 DEF Mine, BlockHash
  <2>5. OnceInv(p)'
    BY <1>5, <1>6, <1>7, <1>8, <1>9, <2>1, <2>2, <2>3, <2>4 DEF ApplyStep
  <2> QED
    BY <2>5 DEF OnceInv
<1>11. CASE UNCHANGED vars
  BY <1>3, <1>11 DEF vars, durable, OnceInv
<1> QED
  BY <1>10, <1>11

LoneLedger(p) ==
  /\ LoneChain /\ LedgerInv(p) /\ ShapeInv(p)
  /\ (\A t \in Tx : Ins[t] # << >>) => OnceInv(p)

LEMMA LoneLedgerHolds ==
  ASSUME NEW p \in Process, Process = {p}
  PROVE  Spec => []LoneLedger(p)
<1>1. Init => LoneLedger(p)
  <2> SUFFICES ASSUME Init PROVE LoneLedger(p)
    OBVIOUS
  <2>1. StoredTxs = {} /\ StoredTwice = {} /\ JobDone(p) = {} /\ JobTwice(p) = {} /\ Spending(p) = {}
        /\ job[p] = None /\ utxos = {} /\ blocks = << >>
    BY DEF Init, StoredTxs, StoredTwice, JobDone, JobTwice, Spending
  <2>2. Applied(p) = {} /\ Repeated(p) = {}
    BY <2>1 DEF Applied, Repeated
  <2>3. LedgerInv(p)
    BY <2>1, <2>2 DEF LedgerInv, Agree, Created, Spent
  <2>4. ShapeInv(p) /\ OnceInv(p)
    BY <2>1, <2>2 DEF ShapeInv, OnceInv
  <2>5. LoneChain
    BY DEF Init, LoneChain, LoneInv, CacheIsTip, TipIsHighest, WholeChain, Chain
  <2> QED
    BY <2>3, <2>4, <2>5 DEF LoneLedger
<1>2. TypeOK /\ ChainInv /\ LoneLedger(p) /\ [Next]_vars => LoneLedger(p)'
  <2> SUFFICES ASSUME TypeOK, ChainInv, LoneLedger(p), [Next]_vars
               PROVE  LoneLedger(p)'
    OBVIOUS
  <2>1. LoneChain'
    BY LoneStep, LoneChainGrows DEF LoneLedger, LoneChain
  <2>2. LedgerInv(p)' /\ ShapeInv(p)'
    BY LedgerStep, ShapeStep DEF LoneLedger, LoneChain
  <2>3. (\A t \in Tx : Ins[t] # << >>) => OnceInv(p)'
    BY OnceStep DEF LoneLedger, LoneChain
  <2> QED
    BY <2>1, <2>2, <2>3 DEF LoneLedger
<1> QED
  BY <1>1, <1>2, TypeCorrect, ChainCorrect, PTL DEF Spec

(* What the chain of the durable tip holds is what is stored.              *)
LEMMA ChainIsStored ==
  ASSUME WholeChain
  PROVE  ChainTxs(tipHash) = StoredTxs /\ Twice(tipHash) = StoredTwice
<1>1. ChainTxs(tipHash) = StoredTxs
  BY DEF WholeChain, ChainTxs, StoredTxs
<1> QED
  BY <1>1 DEF WholeChain, Twice, StoredTwice

(* With one process, between calls of apply_block the unspent outputs are  *)
(* those of the chain outside the outpoints of failed blocks and of        *)
(* transactions mined twice, and until a block has failed there are none   *)
(* of either.                                                              *)
THEOREM DamageIsConfined ==
  ASSUME NEW p \in Process, Process = {p}
  PROVE  Spec => []DamageConfined
<1>1. LoneLedger(p) => DamageConfined
  <2> SUFFICES ASSUME LoneLedger(p), job[p] = None
               PROVE  LET damage == Disturbed(abandoned \cup Twice(tipHash))
                      IN /\ utxos \ damage = Ledger(tipHash) \ damage
                         /\ abandoned = {} /\ (\A t \in Tx : Ins[t] # << >>) => Twice(tipHash) = {}
    BY DEF DamageConfined
  <2>1. /\ Applied(p) = StoredTxs /\ Repeated(p) = StoredTwice /\ Spending(p) = {}
    BY FreshJob
  <2>2. ChainTxs(tipHash) = StoredTxs /\ Twice(tipHash) = StoredTwice
    BY ChainIsStored DEF LoneLedger, LoneChain
  <2>3. Damage(p) = Disturbed(abandoned \cup Twice(tipHash))
    BY <2>1, <2>2 DEF Damage
  <2>4. utxos \ Damage(p) = (Created(StoredTxs) \ Spent(StoredTxs)) \ Damage(p)
    BY <2>1 DEF LoneLedger, LedgerInv, Agree
  <2>5. utxos \ Damage(p) = Ledger(tipHash) \ Damage(p)
    BY <2>2, <2>4 DEF Ledger
  <2>6. abandoned = {} /\ (\A t \in Tx : Ins[t] # << >>) => Twice(tipHash) = {}
    BY <2>1, <2>2 DEF LoneLedger, OnceInv
  <2> QED
    BY <2>3, <2>5, <2>6
<1> QED
  BY <1>1, LoneLedgerHolds, PTL

-----------------------------------------------------------------------------
(* What the transactions of the current call have created and not spent is *)
(* in the table, what they have spent and not created is not.              *)
EffectInv(p) ==
  /\ Created(JobDone(p)) \ (Spent(JobDone(p)) \cup Spending(p)) \subseteq utxos
  /\ ((Spent(JobDone(p)) \cup Spending(p)) \ Created(JobDone(p))) \cap utxos = {}

LEMMA EffectStep ==
  ASSUME TypeOK, ChainInv, NEW p \in Process, Process = {p}, EffectInv(p), [Next]_vars
  PROVE  EffectInv(p)'
<1>1. ASSUME JobDone(p)' = {}, Spending(p)' = {}
      PROVE  EffectInv(p)'
  BY <1>1 DEF EffectInv, Created, Spent
<1>2. ASSUME job'[p] = None \/ (job'[p].tx = 1 /\ job'[p].inp = 1)
      PROVE  EffectInv(p)'
  <2>1. JobDone(p)' = {} /\ Spending(p)' = {}
    BY <1>2 DEF JobDone, Spending
  <2> QED
    BY <1>1, <2>1
<1>3. ASSUME Exit(p) \/ RejectBlock(p) \/ StoreBlock(p)
      PROVE  EffectInv(p)'
  BY <1>2, <1>3 DEF Exit, RejectBlock, StoreBlock, CommitBlock, TypeOK
<1>4. ASSUME NEW h \in BlockHash, NEW b, Apply(p, h, b)
      PROVE  EffectInv(p)'
  BY <1>2, <1>4 DEF Apply, TypeOK
<1>5. ASSUME UNCHANGED <<utxos, job>>
      PROVE  EffectInv(p)'
  <2>1. JobDone(p)' = JobDone(p)
    BY <1>5 DEF JobDone
  <2>2. CurrentTx(p)' = CurrentTx(p)
    BY <1>5 DEF CurrentTx
  <2>3. InputsOf(CurrentTx(p))' = InputsOf(CurrentTx(p))
    BY <2>2 DEF InputsOf, IsCoinbase
  <2>4. Spending(p)' = Spending(p)
    BY <1>5, <2>3 DEF Spending
  <2> QED
    BY <1>5, <2>1, <2>4 DEF EffectInv
<1>6. ASSUME SelectInput(p)
      PROVE  EffectInv(p)'
  <2>1. /\ utxos' = utxos /\ job[p] # None /\ job'[p] # None
        /\ job'[p].block = job[p].block /\ job'[p].tx = job[p].tx /\ job'[p].inp = job[p].inp
    BY <1>6, JobMoves DEF SelectInput, durable
  <2>2. JobDone(p)' = JobDone(p)
    BY <2>1 DEF JobDone
  <2>3. InputsOf(CurrentTx(p))' = InputsOf(CurrentTx(p))
    BY <2>1 DEF InputsOf, IsCoinbase, CurrentTx
  <2>4. Spending(p)' = Spending(p)
    BY <2>1, <2>3 DEF Spending
  <2> QED
    BY <2>1, <2>2, <2>4 DEF EffectInv
<1>7. ASSUME DeleteInput(p)
      PROVE  EffectInv(p)'
  <2>1. utxos' = utxos \ {CurrentInput(p)}
    BY <1>7 DEF DeleteInput
  <2> QED
    BY <1>7, <2>1, DeleteSpends DEF EffectInv
<1>8. ASSUME AddOutputs(p)
      PROVE  EffectInv(p)'
  <2>1. utxos' = utxos \cup OutputsOf(CurrentTx(p))
    BY <1>8 DEF AddOutputs
  <2>2. /\ JobDone(p)' = JobDone(p) \cup {CurrentTx(p)}
        /\ Spending(p) = SpentBy(CurrentTx(p)) /\ Spending(p)' = {}
    BY <1>8, AddCompletes
  <2>3. /\ Created(JobDone(p) \cup {CurrentTx(p)}) = Created(JobDone(p)) \cup OutputsOf(CurrentTx(p))
        /\ Spent(JobDone(p) \cup {CurrentTx(p)}) = Spent(JobDone(p)) \cup SpentBy(CurrentTx(p))
    BY OneMore
  <2>4. /\ Created(JobDone(p))' = Created(JobDone(p)) \cup OutputsOf(CurrentTx(p))
        /\ Spent(JobDone(p))' = Spent(JobDone(p)) \cup SpentBy(CurrentTx(p))
    <3>1. Created(JobDone(p))' = Created(JobDone(p) \cup {CurrentTx(p)})
      BY <2>2 DEF Created, OutputsOf, IsCoinbase
    <3>2. Spent(JobDone(p))' = Spent(JobDone(p) \cup {CurrentTx(p)})
      BY <2>2 DEF Spent, SpentBy, InputsOf, IsCoinbase
    <3> QED
      BY <2>3, <3>1, <3>2
  <2> QED
    BY <2>1, <2>2, <2>4 DEF EffectInv
<1>9. CASE Next
  <2>1. \/ Open(p) \/ Exit(p) \/ ApplyGenesis(p)
        \/ (\E body \in Bodies : Mine(p, body)) \/ ApplyStep(p)
    BY <1>9 DEF Next
  <2>2. Open(p) => EffectInv(p)'
    BY <1>5 DEF Open, durable
  <2>3. ApplyGenesis(p) => EffectInv(p)'
    BY <1>4 DEF ApplyGenesis, BlockHash
  <2>4. \A body \in Bodies : Mine(p, body) => EffectInv(p)'
    BY <1>4 DEF Mine, BlockHash
  <2> QED
    BY <1>3, <1>6, <1>7, <1>8, <2>1, <2>2, <2>3, <2>4 DEF ApplyStep
<1>10. CASE UNCHANGED vars
  BY <1>5, <1>10 DEF vars, durable
<1> QED
  BY <1>9, <1>10

(* With one process a block row is only written when all that the block    *)
(* spends is gone and all that it creates is there.                        *)
THEOREM StoredAfterItsEffects ==
  ASSUME NEW p \in Process, Process = {p}
  PROVE  Spec => StoredAfterEffects
<1>1. Init => EffectInv(p)
  BY DEF Init, EffectInv, JobDone, Spending, Created, Spent
<1>2. TypeOK /\ ChainInv /\ EffectInv(p) /\ [Next]_vars => EffectInv(p)'
  BY EffectStep
<1>3. TypeOK /\ ChainInv /\ EffectInv(p) /\ [Next]_vars
        => [\A h \in DOMAIN blocks' \ DOMAIN blocks : EffectsStored(blocks'[h])]_vars
  <2> SUFFICES ASSUME TypeOK, EffectInv(p), [Next]_vars,
                      NEW h \in DOMAIN blocks' \ DOMAIN blocks
               PROVE  EffectsStored(blocks'[h])
    OBVIOUS
  <2>1. StoreBlock(p)
    BY DEF Next, vars, ApplyStep, Open, Exit, ApplyGenesis, Mine, Apply, SelectInput,
           DeleteInput, RejectBlock, AddOutputs, durable, cache
  <2>2. blocks'[h] = job[p].block
    BY <2>1 DEF StoreBlock, CommitBlock
  <2>3. JobDone(p) = TxsIn(job[p].block) /\ Spending(p) = {}
    BY <2>1, AllDone DEF StoreBlock, CommitBlock
  <2> QED
    BY <2>2, <2>3 DEF EffectInv, EffectsStored
<1> QED
  BY <1>1, <1>2, <1>3, TypeCorrect, ChainCorrect, PTL DEF Spec, StoredAfterEffects
=============================================================================
