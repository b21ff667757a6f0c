----------------------------- MODULE NodeProofs -----------------------------
(***************************************************************************)
(* Proofs about a node.  NodeMining: a node is a ChainStore, its variables *)
(* keep their types, and no submitted transaction vanishes, for any number *)
(* of processes on the same files; for one process what mine_block leaves  *)
(* in agent_memory.db agrees with the chain database after any failed      *)
(* block and any crash.  NodeService: a served node is a node, and what    *)
(* the RPC server has answered stays true.                                 *)
(***************************************************************************)
EXTENDS NodeService, ChainStoreProofs


(* Hiding the mempool and the notes, every step of a node is a step of     *)
(* ChainStore or leaves the chain database and the caches alone.           *)
LEMMA NodeStep ==
  ASSUME [NodeNext]_allVars
  PROVE  [Next]_vars
<1>1. CASE UNCHANGED allVars
  BY <1>1 DEF allVars
<1>2. ASSUME NEW t \in Tx, SendTransaction(t) \/ ReceiveTransaction(t)
      PROVE  UNCHANGED vars
  BY <1>2 DEF SendTransaction, ReceiveTransaction, AddToMempool
<1>3. ASSUME NEW p \in Process, OpenNode(p) \/ EndNode(p) \/ StartNode(p)
      PROVE  Next
  BY <1>3 DEF OpenNode, EndNode, StartNode, Next
<1>4. ASSUME NEW p \in Process, MineBlock(p)
      PROVE  Next
  BY <1>4 DEF MineBlock, Selections, Next
<1>5. ASSUME NEW p \in Process, ApplyProgress(p) \/ Rejected(p) \/ Accepted(p)
      PROVE  Next
  BY <1>5 DEF ApplyProgress, Rejected, Accepted, Next, ApplyStep
<1>6. ASSUME NEW p \in Process, AfterStore(p)
      PROVE  UNCHANGED vars
  BY <1>6 DEF AfterStore, AddCheckpoint, ClearOne, SaveTipHash, SaveTipHeight
<1> QED
  BY <1>1, <1>2, <1>3, <1>4, <1>5, <1>6 DEF NodeNext, Mining

(* A node implements ChainStore, so what is proved of ChainStore holds of  *)
(* every node: mining never reaches the chain except through apply_block.  *)
THEOREM NodeRefinesChainStore == NodeSpec => ImplementsChainStore
<1>1. NodeInit => Init
  BY DEF NodeInit
<1>2. [NodeNext]_allVars => [Next]_vars
  BY NodeStep
<1> QED
  BY <1>1, <1>2, PTL DEF NodeSpec, Spec, ImplementsChainStore

-----------------------------------------------------------------------------
(* Types of the mempool, the notes and the calls of mine_block.            *)
NodeTypes ==
  /\ DOMAIN mempool \subseteq Tx /\ \A t \in DOMAIN mempool : mempool[t] \in Nat
  /\ checkpoints \subseteq BlockHash
  /\ savedTip \in BlockHash \cup {None} /\ savedHeight \in Nat \cup {-1}
  /\ call \in [Process -> Call \cup {None}]
  /\ submitted \subseteq Tx

(* Moving a call to another stage or past a cleared transaction keeps it   *)
(* typed.                                                                  *)
LEMMA CallAdvances ==
  ASSUME NEW c \in Call, NEW stage \in Stage
  PROVE  /\ [c EXCEPT !.stage = stage] \in Call
         /\ c.todo # << >> => [c EXCEPT !.todo = Tail(@)] \in Call
<1>1. c.todo # << >> => Tail(c.todo) \in Seq(Tx)
  BY DEF Call
<1> QED
  BY <1>1 DEF Call

(* A call that mine_block starts is typed.                                 *)
LEMMA MineTyped ==
  ASSUME TypeOK, NodeTypes, NEW p \in Process, MineBlock(p)
  PROVE  /\ call'[p] \in Call
         /\ call' \in [Process -> Call \cup {None}]
         /\ job'[p] # None => /\ call'[p].hash = job'[p].hash
                             /\ \A i \in 1 .. Len(call'[p].todo) :
                                  call'[p].todo[i] \in TxsIn(job'[p].block)
         /\ p \in up /\ call'[p].stage = "apply"
<1>1. PICK body \in Bodies :
        /\ Mine(p, body)
        /\ call' = [call EXCEPT ![p] =
             [stage |-> "apply", hash |-> job'[p].hash, height |-> job'[p].block.height,
              todo |-> body]]
  BY DEF MineBlock, Selections
<1>2. PICK h \in Hash : Apply(p, h, Template(p, body))
  BY <1>1 DEF Mine
<1>3. /\ job'[p].hash = h /\ job'[p].block = Template(p, body)
      /\ p \in up
  BY <1>2 DEF Apply, TypeOK
<1>4. Template(p, body) \in Block /\ Template(p, body).height \in Nat
  BY TemplateTyped DEF Block
<1>5. body \in Seq(Tx)
  BY ChainAssumption
<1>6. [stage |-> "apply", hash |-> job'[p].hash, height |-> job'[p].block.height,
       todo |-> body] \in Call
  BY <1>3, <1>4, <1>5 DEF Call, Stage, BlockHash
<1>7. call'[p] = [stage |-> "apply", hash |-> h,
                  height |-> Template(p, body).height, todo |-> body]
  BY <1>1, <1>3 DEF NodeTypes
<1>8. \A i \in 1 .. Len(body) : body[i] \in TxsIn(Template(p, body))
  <2> SUFFICES ASSUME NEW i \in 1 .. Len(body)
               PROVE  body[i] \in TxsIn(Template(p, body))
    OBVIOUS
  <2> DEFINE txs == <<Coinbase(height[p] + 1)>> \o body
  <2>1. txs[i + 1] = body[i] /\ i + 1 \in 1 .. Len(txs)
    BY <1>5
  <2> QED
    BY <2>1 DEF TxsIn, Template
<1> QED
  BY <1>1, <1>3, <1>6, <1>7, <1>8 DEF NodeTypes

(* Every step of a node keeps them.                                        *)
LEMMA NodeNextKeepsTypes ==
  ASSUME TypeOK, NodeTypes, [NodeNext]_allVars
  PROVE  NodeTypes'
<1>1. CASE UNCHANGED nodeVars
  BY <1>1 DEF NodeTypes, nodeVars, notes
<1>2. ASSUME NEW t \in Tx, SendTransaction(t) \/ ReceiveTransaction(t)
      PROVE  NodeTypes'
  <2>1. PICK fee \in Nat : AddToMempool(t, fee)
    BY <1>2, MiningAssumption DEF SendTransaction, ReceiveTransaction
  <2> QED
    BY <2>1 DEF AddToMempool, NodeTypes, notes
<1>3. ASSUME NEW p \in Process, MineBlock(p)
      PROVE  NodeTypes'
  BY <1>3, MineTyped DEF MineBlock, NodeTypes, notes
<1>4. ASSUME NEW p \in Process, EndNode(p) \/ Rejected(p)
      PROVE  NodeTypes'
  BY <1>4 DEF EndNode, Rejected, NodeTypes, notes
<1>5. ASSUME NEW p \in Process, Accepted(p)
      PROVE  NodeTypes'
  <2>1. CASE call[p] = None
    BY <1>5, <2>1 DEF Accepted, NodeTypes, notes
  <2>2. CASE call[p] # None
    <3>1. PICK stage \in Stage : call' = [call EXCEPT ![p].stage = stage]
      BY <1>5, <2>2 DEF Accepted, Stage
    <3>2. [call[p] EXCEPT !.stage = stage] \in Call
      BY <2>2, CallAdvances DEF NodeTypes
    <3> QED
      BY <1>5, <3>1, <3>2 DEF Accepted, NodeTypes, notes
  <2> QED
    BY <2>1, <2>2
<1>6. ASSUME NEW p \in Process, AddCheckpoint(p)
      PROVE  NodeTypes'
  <2>1. call[p] \in Call /\ call[p].hash \in BlockHash
    BY <1>6 DEF AddCheckpoint, At, NodeTypes, Call
  <2>2. [call[p] EXCEPT !.stage = "clear"] \in Call
    BY <2>1, CallAdvances DEF Stage
  <2> QED
    BY <1>6, <2>1, <2>2 DEF AddCheckpoint, NodeTypes
<1>7. ASSUME NEW p \in Process, ClearOne(p)
      PROVE  NodeTypes'
  <2>1. call[p] \in Call /\ call[p].todo # << >>
    BY <1>7 DEF ClearOne, At, NodeTypes
  <2>2. [call[p] EXCEPT !.todo = Tail(@)] \in Call
    BY <2>1, CallAdvances DEF Stage
  <2> QED
    BY <1>7, <2>2 DEF ClearOne, NodeTypes, notes
<1>8. ASSUME NEW p \in Process, SaveTipHash(p)
      PROVE  NodeTypes'
  <2>1. call[p] \in Call /\ call[p].hash \in BlockHash
    BY <1>8 DEF SaveTipHash, At, NodeTypes, Call
  <2>2. [call[p] EXCEPT !.stage = "height"] \in Call
    BY <2>1, CallAdvances DEF Stage
  <2> QED
    BY <1>8, <2>1, <2>2 DEF SaveTipHash, NodeTypes
<1>9. ASSUME NEW p \in Process, SaveTipHeight(p)
      PROVE  NodeTypes'
  <2>1. call[p].height \in Nat
    BY <1>9 DEF SaveTipHeight, At, NodeTypes, Call
  <2> QED
    BY <1>9, <2>1 DEF SaveTipHeight, NodeTypes
<1>10. ASSUME NEW p \in Process, OpenNode(p) \/ StartNode(p) \/ ApplyProgress(p)
       PROVE  NodeTypes'
  BY <1>10, <1>1 DEF OpenNode, StartNode, ApplyProgress
<1>11. CASE UNCHANGED allVars
  BY <1>1, <1>11 DEF allVars
<1> QED
  BY <1>2, <1>3, <1>4, <1>5, <1>6, <1>7, <1>8, <1>9, <1>10, <1>11
     DEF NodeNext, Mining, AfterStore

(* Every reachable state of a node is well typed.                          *)
THEOREM NodeTypeCorrect == NodeSpec => []NodeTypeOK
<1>1. NodeInit => NodeTypes
  BY DEF NodeInit, NodeTypes
<1>2. TypeOK /\ NodeTypes /\ [NodeNext]_allVars => NodeTypes'
  BY NodeNextKeepsTypes
<1>3. TypeOK /\ NodeTypes => NodeTypeOK
  BY DEF NodeTypes, NodeTypeOK
<1>4. NodeSpec => Spec
  BY NodeRefinesChainStore DEF ImplementsChainStore
<1> QED
  BY <1>1, <1>2, <1>3, <1>4, TypeCorrect, PTL DEF NodeSpec

-----------------------------------------------------------------------------
(* What is still to be cleared has been mined: it is in the block under    *)
(* application, or, once that is stored, in a stored block.                *)
TodoMinedBy(p) ==
  call[p] # None =>
    /\ (call[p].stage = "apply" /\ job[p] # None) =>
         \A i \in 1 .. Len(call[p].todo) : call[p].todo[i] \in TxsIn(job[p].block)
    /\ call[p].stage # "apply" =>
         \A i \in 1 .. Len(call[p].todo) : call[p].todo[i] \in StoredTxs

TodoMined == \A p \in Process : TodoMinedBy(p)

KeepInv == TodoMined /\ NoTxVanishes

(* Stored transactions stay stored.                                        *)
LEMMA StoredTxsGrow ==
  ASSUME TypeOK, ChainInv, [NodeNext]_allVars
  PROVE  StoredTxs \subseteq StoredTxs'
<1>1. [Tree!Extend]_<<blocks, tipHash>>
  BY NodeStep, NextExtendsTree
<1>2. \A g \in DOMAIN blocks : g \in DOMAIN blocks' /\ blocks'[g] = blocks[g]
  BY <1>1 DEF Tree!Extend
<1> QED
  BY <1>2 DEF StoredTxs, TxsIn

(* In a step of p only p's own work list needs looking at.                 *)
LEMMA OthersKeepTodo ==
  ASSUME TodoMined, NEW p \in Process, StoredTxs \subseteq StoredTxs',
         \A q \in Process \ {p} : job'[q] = job[q] /\ call'[q] = call[q],
         TodoMinedBy(p)'
  PROVE  TodoMined'
<1>1. ASSUME NEW q \in Process, q # p
      PROVE  TodoMinedBy(q)'
  <2>1. TodoMinedBy(q) /\ job'[q] = job[q] /\ call'[q] = call[q]
    BY <1>1 DEF TodoMined
  <2> QED
    BY <2>1 DEF TodoMinedBy, TxsIn
<1> QED
  BY <1>1 DEF TodoMined

(* A step that changes neither the mempool, nor the calls, nor the blocks  *)
(* under application keeps KeepInv.                                        *)
LEMMA QuietStepKeeps ==
  ASSUME KeepInv, StoredTxs \subseteq StoredTxs',
         UNCHANGED <<mempool, call, submitted>>,
         \A q \in Process :
           (call[q] # None /\ job'[q] # None) =>
             job[q] # None /\ job'[q].block = job[q].block
  PROVE  KeepInv'
<1>1. TodoMined'
  BY DEF KeepInv, TodoMined, TodoMinedBy
<1>2. NoTxVanishes'
  BY DEF KeepInv, NoTxVanishes
<1> QED
  BY <1>1, <1>2 DEF KeepInv

(* Every step keeps KeepInv.                                               *)
LEMMA NodeNextKeeps ==
  ASSUME TypeOK, NodeTypes, ChainInv, KeepInv, [NodeNext]_allVars
  PROVE  KeepInv'
<1> USE StoredTxsGrow
<1>1. CASE UNCHANGED allVars
  BY <1>1, QuietStepKeeps DEF allVars, vars, nodeVars
<1>2. ASSUME NEW t \in Tx, SendTransaction(t) \/ ReceiveTransaction(t)
      PROVE  KeepInv'
  <2>1. /\ DOMAIN mempool' = DOMAIN mempool \cup {t} /\ submitted' = submitted \cup {t}
        /\ UNCHANGED <<vars, call>>
    BY <1>2 DEF SendTransaction, ReceiveTransaction, AddToMempool
  <2>2. TodoMined'
    BY <2>1 DEF KeepInv, TodoMined, TodoMinedBy, vars, durable, StoredTxs, TxsIn
  <2>3. NoTxVanishes'
    BY <2>1 DEF KeepInv, NoTxVanishes
  <2> QED
    BY <2>2, <2>3 DEF KeepInv
<1>3. ASSUME NEW p \in Process, OpenNode(p) \/ StartNode(p) \/ ApplyProgress(p)
      PROVE  KeepInv'
  <2>1. UNCHANGED <<mempool, call, submitted>>
    BY <1>3 DEF OpenNode, StartNode, ApplyProgress, nodeVars
  <2>2. \A q \in Process \ {p} : job'[q] = job[q]
    BY <1>3 DEF OpenNode, StartNode, ApplyProgress, Open, ApplyGenesis, Apply, SelectInput,
                DeleteInput, AddOutputs, TypeOK
  <2>3. (call[p] # None /\ job'[p] # None) => job[p] # None /\ job'[p].block = job[p].block
    <3>1. OpenNode(p) => job' = job
      BY DEF OpenNode, Open
    <3>2. StartNode(p) => call[p] = None
      BY DEF StartNode
    <3>3. ASSUME ApplyProgress(p)
          PROVE  job[p] # None /\ job[p] \in Job /\ job'[p].block = job[p].block
      <4>1. job[p] # None /\ job[p] \in Job
        BY <3>3, JobTyped DEF ApplyProgress, SelectInput, DeleteInput, AddOutputs, AtInput,
                              AtTx, Busy
      <4>2. SelectInput(p) => job'[p] = [job[p] EXCEPT !.found = TRUE]
        BY DEF SelectInput, TypeOK
      <4>3. DeleteInput(p) => job'[p] = [job[p] EXCEPT !.found = FALSE, !.inp = @ + 1]
        BY DEF DeleteInput, TypeOK
      <4>4. AddOutputs(p) => job'[p] = [job[p] EXCEPT !.tx = @ + 1, !.inp = 1]
        BY DEF AddOutputs, TypeOK
      <4> QED
        BY <3>3, <4>1, <4>2, <4>3, <4>4 DEF ApplyProgress, Job
    <3> QED
      BY <1>3, <3>1, <3>2, <3>3
  <2> QED
    BY <2>1, <2>2, <2>3, QuietStepKeeps
<1>4. ASSUME NEW p \in Process, MineBlock(p)
      PROVE  KeepInv'
  <2>1. /\ UNCHANGED <<mempool, submitted>>
        /\ \A q \in Process \ {p} : job'[q] = job[q] /\ call'[q] = call[q]
    BY <1>4 DEF MineBlock, Mine, Apply, TypeOK, NodeTypes
  <2>2. /\ call'[p].stage = "apply"
        /\ job'[p] # None => \A i \in 1 .. Len(call'[p].todo) :
                               call'[p].todo[i] \in TxsIn(job'[p].block)
    BY <1>4, MineTyped
  <2>3. TodoMined'
    BY <2>1, <2>2, OthersKeepTodo DEF KeepInv, TodoMinedBy, TxsIn
  <2>4. NoTxVanishes'
    BY <2>1 DEF KeepInv, NoTxVanishes
  <2> QED
    BY <2>3, <2>4 DEF KeepInv
<1>5. ASSUME NEW p \in Process, EndNode(p) \/ Rejected(p)
      PROVE  KeepInv'
  <2>1. /\ UNCHANGED <<mempool, submitted>> /\ call'[p] = None
        /\ \A q \in Process \ {p} : job'[q] = job[q] /\ call'[q] = call[q]
    BY <1>5 DEF EndNode, Rejected, Exit, RejectBlock, TypeOK, NodeTypes
  <2>2. TodoMined'
    BY <2>1, OthersKeepTodo DEF KeepInv, TodoMinedBy
  <2>3. NoTxVanishes'
    BY <2>1 DEF KeepInv, NoTxVanishes
  <2> QED
    BY <2>2, <2>3 DEF KeepInv
<1>6. ASSUME NEW p \in Process, Accepted(p)
      PROVE  KeepInv'
  <2>1. /\ UNCHANGED <<mempool, submitted>>
        /\ \A q \in Process \ {p} : job'[q] = job[q] /\ call'[q] = call[q]
    BY <1>6 DEF Accepted, StoreBlock, CommitBlock, TypeOK, NodeTypes
  <2>2. job[p] # None /\ job[p].hash \in DOMAIN blocks' /\ blocks'[job[p].hash] = job[p].block
    BY <1>6 DEF Accepted, StoreBlock, CommitBlock, Busy
  <2>3. TxsIn(job[p].block) \subseteq StoredTxs'
    BY <2>2 DEF StoredTxs, TxsIn
  <2>4. CASE call[p] = None
    <3>1. call' = call
      BY <1>6, <2>4 DEF Accepted
    <3>2. TodoMined'
      BY <2>1, <2>4, <3>1, OthersKeepTodo DEF KeepInv, TodoMinedBy
    <3> QED
      BY <2>1, <3>2 DEF KeepInv, NoTxVanishes
  <2>5. CASE call[p] # None
    <3>1. call[p] \in Call
      BY <2>5 DEF NodeTypes
    <3>2. call'[p].todo = call[p].todo /\ call'[p].stage # "apply"
      BY <1>6, <2>5, <3>1 DEF Accepted, NodeTypes, Call
    <3>3. \A i \in 1 .. Len(call[p].todo) : call[p].todo[i] \in StoredTxs'
      BY <2>2, <2>3, <2>5 DEF KeepInv, TodoMined, TodoMinedBy
    <3>4. TodoMined'
      BY <2>1, <3>2, <3>3, OthersKeepTodo DEF KeepInv, TodoMinedBy
    <3> QED
      BY <2>1, <3>4 DEF KeepInv, NoTxVanishes
  <2> QED
    BY <2>4, <2>5
<1>7. ASSUME NEW p \in Process, AddCheckpoint(p) \/ SaveTipHash(p) \/ SaveTipHeight(p)
      PROVE  KeepInv'
  <2>1. /\ UNCHANGED <<vars, mempool, submitted>>
        /\ \A q \in Process \ {p} : call'[q] = call[q]
    BY <1>7 DEF AddCheckpoint, SaveTipHash, SaveTipHeight, NodeTypes
  <2>2. call[p] \in Call /\ call[p] # None /\ call[p].stage # "apply"
    BY <1>7 DEF AddCheckpoint, SaveTipHash, SaveTipHeight, At, NodeTypes
  <2>3. \/ call'[p] = None
        \/ call'[p].todo = call[p].todo /\ call'[p].stage # "apply"
    <3>1. AddCheckpoint(p) => call'[p] = [call[p] EXCEPT !.stage = "clear"]
      BY DEF AddCheckpoint, NodeTypes
    <3>2. SaveTipHash(p) => call'[p] = [call[p] EXCEPT !.stage = "height"]
      BY DEF SaveTipHash, NodeTypes
    <3>3. SaveTipHeight(p) => call'[p] = None
      BY DEF SaveTipHeight, NodeTypes
    <3> QED
      BY <1>7, <2>2, <3>1, <3>2, <3>3 DEF Call
  <2>4. TodoMinedBy(p)'
    BY <2>2, <2>3 DEF KeepInv, TodoMined, TodoMinedBy
  <2>5. TodoMined'
    BY <2>1, <2>4, OthersKeepTodo DEF KeepInv, vars
  <2>6. NoTxVanishes'
    BY <2>1 DEF KeepInv, NoTxVanishes
  <2> QED
    BY <2>5, <2>6 DEF KeepInv
<1>8. ASSUME NEW p \in Process, ClearOne(p)
      PROVE  KeepInv'
  <2> DEFINE todo == call[p].todo
  <2>1. /\ UNCHANGED <<vars, submitted>>
        /\ \A q \in Process \ {p} : call'[q] = call[q]
        /\ DOMAIN mempool' = DOMAIN mempool \ {Head(todo)}
    BY <1>8 DEF ClearOne, NodeTypes
  <2>2. /\ call[p] \in Call /\ call[p] # None /\ call[p].stage = "clear"
        /\ todo \in Seq(Tx) /\ todo # << >>
    BY <1>8 DEF ClearOne, At, NodeTypes, Call
  <2>3. \A i \in 1 .. Len(todo) : todo[i] \in StoredTxs
    BY <2>2 DEF KeepInv, TodoMined, TodoMinedBy
  <2>4. call'[p].todo = Tail(todo) /\ call'[p].stage = "clear"
    BY <1>8, <2>2 DEF ClearOne, NodeTypes, Call
  <2> HIDE DEF todo
  <2>5. \A i \in 1 .. Len(Tail(todo)) : Tail(todo)[i] \in StoredTxs
    BY <2>2, <2>3
  <2>6. Head(todo) \in StoredTxs
    BY <2>2, <2>3
  <2>7. TodoMined'
    <3>1. TodoMinedBy(p)'
      BY <2>4, <2>5 DEF TodoMinedBy
    <3> QED
      BY <2>1, <3>1, OthersKeepTodo DEF KeepInv, vars
  <2>8. NoTxVanishes'
    BY <2>1, <2>6 DEF KeepInv, NoTxVanishes
  <2> QED
    BY <2>7, <2>8 DEF KeepInv
<1> QED
  BY <1>1, <1>2, <1>3, <1>4, <1>5, <1>6, <1>7, <1>8 DEF NodeNext, Mining, AfterStore

(* A transaction once submitted is in the mempool or in a stored block,    *)
(* whatever processes mine, fail, die and reopen.                          *)
THEOREM NothingVanishes == NodeSpec => []NoTxVanishes
<1>1. NodeInit => KeepInv
  BY DEF NodeInit, KeepInv, TodoMined, TodoMinedBy, NoTxVanishes
<1>2. TypeOK /\ NodeTypes /\ ChainInv /\ KeepInv /\ [NodeNext]_allVars => KeepInv'
  BY NodeNextKeeps
<1>3. NodeTypeOK => TypeOK /\ NodeTypes
  BY DEF NodeTypes, NodeTypeOK
<1>4. KeepInv => NoTxVanishes
  BY DEF KeepInv
<1>5. NodeSpec => Spec
  BY NodeRefinesChainStore DEF ImplementsChainStore
<1> QED
  BY <1>1, <1>2, <1>3, <1>4, <1>5, NodeTypeCorrect, ChainCorrect, PTL DEF NodeSpec

-----------------------------------------------------------------------------
(* What a block under application takes along is waiting in the mempool or *)
(* stored already: another process may have cleared it in the meantime.    *)
WorkWaits ==
  \A p \in Process : job[p] # None =>
    TxsIn(job[p].block) \cap Tx \subseteq DOMAIN mempool \cup StoredTxs

(* Only mine_block and start_node give a process another block to apply.   *)
LEMMA JobsKeepBlock ==
  ASSUME TypeOK, NEW p \in Process,
         \/ OpenNode(p) \/ EndNode(p) \/ Mining(p)
         \/ \E t \in Tx : SendTransaction(t) \/ ReceiveTransaction(t)
  PROVE  \A q \in Process :
           job'[q] # None => job[q] # None /\ job'[q].block = job[q].block
<1>1. ASSUME NEW t \in Tx, SendTransaction(t) \/ ReceiveTransaction(t)
      PROVE  job' = job
  BY <1>1 DEF SendTransaction, ReceiveTransaction, AddToMempool, vars
<1>2. OpenNode(p) \/ AfterStore(p) => job' = job
  BY DEF OpenNode, Open, AfterStore, AddCheckpoint, ClearOne, SaveTipHash, SaveTipHeight, vars
<1>3. EndNode(p) \/ Rejected(p) \/ Accepted(p) => job' = [job EXCEPT ![p] = None]
  BY DEF EndNode, Exit, Rejected, RejectBlock, Accepted, StoreBlock, CommitBlock
<1>4. ASSUME ApplyProgress(p)
      PROVE  /\ job[p] # None /\ job'[p].block = job[p].block
             /\ \A q \in Process \ {p} : job'[q] = job[q]
  <2>1. job[p] # None /\ job[p] \in Job
    BY <1>4, JobTyped DEF ApplyProgress, SelectInput, DeleteInput, AddOutputs, AtInput,
                          AtTx, Busy
  <2>2. SelectInput(p) => job' = [job EXCEPT ![p].found = TRUE]
    BY DEF SelectInput
  <2>3. DeleteInput(p) => job' = [job EXCEPT ![p].found = FALSE, ![p].inp = @ + 1]
    BY DEF DeleteInput
  <2>4. AddOutputs(p) => job' = [job EXCEPT ![p].tx = @ + 1, ![p].inp = 1]
    BY DEF AddOutputs
  <2> QED
    BY <1>4, <2>1, <2>2, <2>3, <2>4 DEF ApplyProgress, Job, TypeOK
<1> QED
  BY <1>1, <1>2, <1>3, <1>4 DEF Mining, TypeOK

(* Storing a block adds its transactions to the stored ones.               *)
LEMMA StoreAddsTxs ==
  ASSUME TypeOK, ChainInv, NEW p \in Process, Accepted(p)
  PROVE  /\ job[p] # None
         /\ StoredTxs' = StoredTxs \cup TxsIn(job[p].block)
<1>1. /\ job[p] # None
      /\ DOMAIN blocks' = DOMAIN blocks \cup {job[p].hash}
      /\ blocks'[job[p].hash] = job[p].block
      /\ \A g \in DOMAIN blocks \ {job[p].hash} : blocks'[g] = blocks[g]
      /\ job[p].hash \in DOMAIN blocks => blocks[job[p].hash] = job[p].block
  BY DEF Accepted, StoreBlock, CommitBlock, Busy, ChainInv, JobsOnTip, Names
<1> QED
  BY <1>1 DEF StoredTxs, TxsIn

(* The block that mine_block starts on takes its transactions from the     *)
(* mempool; the genesis block has none.                                    *)
LEMMA NewWorkWaits ==
  ASSUME TypeOK, NEW p \in Process, MineBlock(p) \/ StartNode(p)
  PROVE  /\ job'[p] # None => TxsIn(job'[p].block) \cap Tx \subseteq DOMAIN mempool
         /\ \A q \in Process \ {p} : job'[q] = job[q]
         /\ UNCHANGED <<mempool, submitted, blocks>>
<1>1. CASE StartNode(p)
  <2>1. /\ job'[p].block = [prev |-> None, height |-> 0, txs |-> <<GenesisTx>>]
        /\ \A q \in Process \ {p} : job'[q] = job[q]
    BY <1>1 DEF StartNode, ApplyGenesis, Apply, TypeOK
  <2>2. TxsIn(job'[p].block) = {GenesisTx}
    BY <2>1 DEF TxsIn
  <2>3. GenesisTx \notin Tx
    BY ChainAssumption DEF GenesisTx
  <2> QED
    BY <1>1, <2>1, <2>2, <2>3
       DEF StartNode, ApplyGenesis, Apply, nodeVars, durable
<1>2. CASE MineBlock(p)
  <2>1. PICK body \in Selections : Mine(p, body)
    BY <1>2 DEF MineBlock
  <2>2. /\ job'[p].block = Template(p, body)
        /\ \A q \in Process \ {p} : job'[q] = job[q]
    BY <2>1 DEF Mine, Apply, TypeOK
  <2>3. body \in Seq(Tx) /\ \A i \in 1 .. Len(body) : body[i] \in DOMAIN mempool
    <3>1. PICK w \in Windows : ToSet(body) \subseteq w
      BY <2>1 DEF Selections
    <3>2. body \in Seq(Tx)
      BY <2>1, ChainAssumption DEF Selections
    <3> QED
      BY <3>1, <3>2 DEF Windows, ToSet
  <2>4. TxsIn(Template(p, body)) \cap Tx \subseteq DOMAIN mempool
    <3>1. Coinbase(height[p] + 1) \notin Tx
      <4>1. height[p] + 1 \in Nat
        BY DEF TypeOK
      <4> QED
        BY <4>1, ChainAssumption DEF Coinbase
    <3> DEFINE txs == <<Coinbase(height[p] + 1)>> \o body
    <3>2. \A i \in 1 .. Len(txs) : txs[i] = Coinbase(height[p] + 1) \/ txs[i] \in DOMAIN mempool
      BY <2>3
    <3> QED
      BY <3>1, <3>2 DEF Template, TxsIn
  <2> QED
    BY <1>2, <2>2, <2>4 DEF MineBlock, Mine, Apply, durable
<1> QED
  BY <1>1, <1>2

(* Every step of a node is a step of TxLifecycle or leaves its three sets  *)
(* alone, and keeps WorkWaits.                                             *)
LEMMA LifecycleStep ==
  ASSUME TypeOK, NodeTypes, ChainInv, KeepInv, WorkWaits, [NodeNext]_allVars
  PROVE  [Lifecycle!Next]_Lifecycle!lifecycle /\ WorkWaits'
<1> USE StoredTxsGrow
<1> DEFINE waiting == DOMAIN mempool \cup StoredTxs
<1>1. CASE UNCHANGED allVars
  BY <1>1 DEF allVars, vars, durable, nodeVars, Lifecycle!lifecycle, WorkWaits, StoredTxs, TxsIn
<1>2. ASSUME NEW p \in Process, MineBlock(p) \/ StartNode(p)
      PROVE  [Lifecycle!Next]_Lifecycle!lifecycle /\ WorkWaits'
  <2>1. WorkWaits'
    BY <1>2, NewWorkWaits DEF WorkWaits, StoredTxs, TxsIn
  <2> QED
    BY <1>2, <2>1, NewWorkWaits DEF Lifecycle!lifecycle, StoredTxs, TxsIn
<1>3. ASSUME NEW p \in Process, OpenNode(p) \/ EndNode(p) \/ Mining(p)
      PROVE  [Lifecycle!Next]_Lifecycle!lifecycle /\ WorkWaits'
  <2>1. ASSUME waiting \subseteq waiting'
        PROVE  WorkWaits'
    BY <1>3, <2>1, JobsKeepBlock DEF WorkWaits, TxsIn
  <2>2. CASE UNCHANGED <<blocks, mempool, submitted>>
    BY <2>1, <2>2 DEF Lifecycle!lifecycle, StoredTxs, TxsIn
  <2>3. CASE Accepted(p)
    <3>1. UNCHANGED <<mempool, submitted>>
      BY <2>3 DEF Accepted
    <3> DEFINE txs == TxsIn(job[p].block) \cap Tx
    <3>2. txs \subseteq DOMAIN mempool \cup (StoredTxs \cap Tx)
      BY <2>3, StoreAddsTxs DEF WorkWaits
    <3>3. (StoredTxs \cap Tx)' = (StoredTxs \cap Tx) \cup txs
      BY <2>3, StoreAddsTxs
    <3>4. Lifecycle!Confirm(txs)
      BY <3>1, <3>2, <3>3 DEF Lifecycle!Confirm
    <3> QED
      BY <2>1, <3>1, <3>4 DEF Lifecycle!Next
  <2>4. CASE ClearOne(p)
    <3> DEFINE t == Head(call[p].todo)
    <3>1. call[p] \in Call /\ call[p].stage = "clear" /\ call[p] # None /\ call[p].todo # << >>
      BY <2>4 DEF ClearOne, At, NodeTypes
    <3>2. call[p].todo \in Seq(Tx) /\ \A i \in 1 .. Len(call[p].todo) : call[p].todo[i] \in StoredTxs
      BY <3>1 DEF Call, KeepInv, TodoMined, TodoMinedBy
    <3>3. t \in StoredTxs \cap Tx
      BY <3>1, <3>2
    <3>4. UNCHANGED <<blocks, submitted>> /\ DOMAIN mempool' = DOMAIN mempool \ {t}
      BY <2>4 DEF ClearOne, vars, durable
    <3>5. StoredTxs' = StoredTxs
      BY <3>4 DEF StoredTxs, TxsIn
    <3>6. Lifecycle!Release(t)
      BY <3>3, <3>4, <3>5 DEF Lifecycle!Release
    <3> QED
      BY <2>1, <3>3, <3>4, <3>5, <3>6 DEF Lifecycle!Next
  <2> QED
    BY <1>3, <2>2, <2>3, <2>4
       DEF OpenNode, EndNode, Open, Exit, Mining, AfterStore, AddCheckpoint, SaveTipHash,
           SaveTipHeight, Rejected, RejectBlock, ApplyProgress, SelectInput, DeleteInput,
           AddOutputs, nodeVars, vars, durable
<1>4. ASSUME NEW t \in Tx, SendTransaction(t) \/ ReceiveTransaction(t)
      PROVE  [Lifecycle!Next]_Lifecycle!lifecycle /\ WorkWaits'
  <2>1. /\ DOMAIN mempool' = DOMAIN mempool \cup {t} /\ submitted' = submitted \cup {t}
        /\ UNCHANGED vars
    BY <1>4 DEF SendTransaction, ReceiveTransaction, AddToMempool
  <2>2. StoredTxs' = StoredTxs
    BY <2>1 DEF StoredTxs, TxsIn, vars, durable
  <2>3. Lifecycle!Submit(t)
    BY <2>1, <2>2 DEF Lifecycle!Submit
  <2>4. WorkWaits'
    BY <2>1, <2>2 DEF WorkWaits, TxsIn, vars
  <2> QED
    BY <2>3, <2>4 DEF Lifecycle!Next
<1> QED
  BY <1>1, <1>2, <1>3, <1>4 DEF NodeNext

(* For any number of processes, whatever they mine, fail and leave half    *)
(* done, every transaction lives the life of TxLifecycle.                  *)
THEOREM LifecycleRefinement == NodeSpec => ImplementsLifecycle
<1>1. NodeInit => KeepInv /\ WorkWaits /\ Lifecycle!Init
  BY DEF NodeInit, Init, KeepInv, TodoMined, TodoMinedBy, NoTxVanishes, WorkWaits,
         Lifecycle!Init, StoredTxs
<1>2. TypeOK /\ NodeTypes /\ ChainInv /\ KeepInv /\ WorkWaits /\ [NodeNext]_allVars
        => KeepInv' /\ WorkWaits' /\ [Lifecycle!Next]_Lifecycle!lifecycle
  BY NodeNextKeeps, LifecycleStep
<1>3. NodeTypeOK => TypeOK /\ NodeTypes
  BY DEF NodeTypes, NodeTypeOK
<1>4. NodeSpec => Spec
  BY NodeRefinesChainStore DEF ImplementsChainStore
<1> QED
  BY <1>1, <1>2, <1>3, <1>4, NodeTypeCorrect, ChainCorrect, PTL
     DEF NodeSpec, ImplementsLifecycle, Lifecycle!Spec

-----------------------------------------------------------------------------
(* One node on its own files.                                              *)


(* All that is proved of a single process of ChainStore holds of a node.   *)
LEMMA LoneNodeHolds ==
  ASSUME NEW p \in Process, Process = {p}
  PROVE  NodeSpec => [](TypeOK /\ NodeTypes /\ ChainInv /\ LoneChain)
<1>1. NodeSpec => Spec
  BY NodeRefinesChainStore DEF ImplementsChainStore
<1>2. NodeTypeOK => TypeOK /\ NodeTypes
  BY DEF NodeTypes, NodeTypeOK
<1> QED
  BY <1>1, <1>2, NodeTypeCorrect, ChainCorrect, LoneChainHolds, PTL

(* The chain of a single process holds all that is stored, so what does    *)
(* not vanish is in the mempool or in the current chain.                   *)
THEOREM NothingLeavesChain ==
  ASSUME NEW p \in Process, Process = {p}
  PROVE  NodeSpec => []NoTxLeavesChain
<1>1. LoneChain /\ NoTxVanishes => NoTxLeavesChain
  BY ChainIsStored DEF LoneChain, NoTxVanishes, NoTxLeavesChain
<1> QED
  BY <1>1, LoneNodeHolds, NothingVanishes, PTL

-----------------------------------------------------------------------------
(* The tip saved in agent_memory.db.                                       *)

(* Until the block of a mine_block is stored it is the block under         *)
(* application; from then until the tip is saved it is the durable tip.    *)
CallInv(p) ==
  call[p] # None =>
    /\ p \in up
    /\ call[p].stage = "apply" =>
         /\ job[p] # None
         /\ call[p].hash = job[p].hash /\ call[p].height = job[p].block.height
    /\ call[p].stage # "apply" =>
         /\ job[p] = None
         /\ call[p].hash = tipHash /\ tipHash \in DOMAIN blocks
         /\ call[p].height = blocks[tipHash].height
    /\ call[p].stage = "height" => savedTip = tipHash

SavedInv ==
  /\ savedTip # None => savedTip \in DOMAIN blocks
  /\ savedHeight # -1 => savedTip # None /\ savedHeight <= blocks[savedTip].height

(* Stored blocks are never lost or changed.                                *)
LEMMA BlocksStay ==
  ASSUME TypeOK, ChainInv, [NodeNext]_allVars
  PROVE  \A g \in DOMAIN blocks : g \in DOMAIN blocks' /\ blocks'[g] = blocks[g]
<1>1. [Tree!Extend]_<<blocks, tipHash>>
  BY NodeStep, NextExtendsTree
<1> QED
  BY <1>1 DEF Tree!Extend

LEMMA CallStep ==
  ASSUME TypeOK, NodeTypes, ChainInv, LoneChain, NEW p \in Process, Process = {p},
         CallInv(p), [NodeNext]_allVars
  PROVE  CallInv(p)'
<1>1. CASE UNCHANGED <<vars, nodeVars>>
  BY <1>1 DEF CallInv, vars, durable, cache, nodeVars, notes
<1>2. ASSUME NEW t \in Tx, SendTransaction(t) \/ ReceiveTransaction(t)
      PROVE  CallInv(p)'
  BY <1>2 DEF SendTransaction, ReceiveTransaction, AddToMempool, CallInv, vars, durable, cache,
              notes
<1>3. CASE EndNode(p) \/ Rejected(p)
  BY <1>3 DEF EndNode, Rejected, CallInv, NodeTypes
<1>4. CASE OpenNode(p) \/ StartNode(p)
  <2>1. OpenNode(p) => call[p] = None
    BY DEF OpenNode, Open, CallInv
  <2>2. call[p] = None /\ call' = call
    BY <1>4, <2>1 DEF OpenNode, StartNode, nodeVars
  <2> QED
    BY <2>2 DEF CallInv
<1>5. CASE MineBlock(p)
  <2>1. PICK body \in Bodies :
          /\ Mine(p, body)
          /\ call' = [call EXCEPT ![p] =
               [stage |-> "apply", hash |-> job'[p].hash, height |-> job'[p].block.height,
                todo |-> body]]
    BY <1>5 DEF MineBlock, Selections
  <2>2. PICK h \in Hash : Apply(p, h, Template(p, body))
    BY <2>1 DEF Mine
  <2>3. p \in up /\ up' = up
        /\ job'[p] = [hash |-> h, block |-> Template(p, body), tx |-> 1, inp |-> 1,
                      found |-> FALSE]
    BY <2>2 DEF Apply, cache, TypeOK
  <2>4. Template(p, body) \in Block /\ h \in BlockHash
    BY TemplateTyped DEF BlockHash
  <2>5. job'[p] # None
    <3>1. [hash |-> h, block |-> Template(p, body), tx |-> 1, inp |-> 1, found |-> FALSE] \in Job
      BY <2>4 DEF Job
    <3> QED
      BY <2>3, <3>1, NoCallAssumption
  <2> QED
    BY <2>1, <2>3, <2>5 DEF CallInv, NodeTypes
<1>6. CASE ApplyProgress(p)
  <2>1. /\ UNCHANGED <<up, blocks, tipHash, call, savedTip>>
        /\ job[p] # None
    BY <1>6 DEF ApplyProgress, SelectInput, DeleteInput, AddOutputs, AtInput, AtTx, Busy,
                durable, cache, nodeVars, notes
  <2>2. /\ job'[p] # None
        /\ job'[p].hash = job[p].hash /\ job'[p].block = job[p].block
    BY <1>6, JobMoves DEF ApplyProgress
  <2> QED
    BY <2>1, <2>2 DEF CallInv
<1>7. CASE Accepted(p)
  <2>1. /\ job[p] # None /\ job'[p] = None
        /\ tipHash' = job[p].hash /\ blocks'[job[p].hash] = job[p].block
        /\ tipHash' \in DOMAIN blocks' /\ up' = up
    BY <1>7 DEF Accepted, StoreBlock, CommitBlock, Busy, TypeOK
  <2>2. CASE call[p] # None
    <3>1. /\ call[p].stage = "apply" /\ call[p] \in Call /\ p \in up
          /\ call[p].hash = job[p].hash /\ call[p].height = job[p].block.height
      BY <2>1, <2>2 DEF CallInv, NodeTypes
    <3>2. PICK stage \in {"checkpoint", "clear"} : call' = [call EXCEPT ![p].stage = stage]
      BY <1>7, <2>2 DEF Accepted
    <3>3. call'[p].stage = stage /\ call'[p].hash = call[p].hash /\ call'[p].height = call[p].height
      BY <3>1, <3>2 DEF Call, NodeTypes
    <3> QED
      BY <2>1, <3>1, <3>3 DEF CallInv
  <2> QED
    BY <1>7, <2>2 DEF Accepted, CallInv
<1>8. CASE AfterStore(p)
  <2>1. /\ UNCHANGED <<up, blocks, tipHash, job>>
        /\ call[p] # None /\ call[p] \in Call /\ call[p].stage # "apply"
    BY <1>8 DEF AfterStore, AddCheckpoint, ClearOne, SaveTipHash, SaveTipHeight, At, vars,
                durable, cache, NodeTypes
  <2>2. CASE AddCheckpoint(p) \/ ClearOne(p)
    <3>1. /\ call'[p].hash = call[p].hash /\ call'[p].height = call[p].height
          /\ call'[p].stage = "clear"
      BY <2>1, <2>2 DEF AddCheckpoint, ClearOne, At, NodeTypes, Call
    <3> QED
      BY <2>1, <3>1 DEF CallInv
  <2>3. CASE SaveTipHash(p)
    <3>1. /\ call'[p].hash = call[p].hash /\ call'[p].height = call[p].height
          /\ call'[p].stage = "height" /\ savedTip' = call[p].hash
      BY <2>1, <2>3 DEF SaveTipHash, NodeTypes, Call
    <3> QED
      BY <2>1, <3>1 DEF CallInv
  <2>4. CASE SaveTipHeight(p)
    BY <2>4 DEF SaveTipHeight, CallInv, NodeTypes
  <2> QED
    BY <1>8, <2>2, <2>3, <2>4 DEF AfterStore
<1> QED
  BY <1>1, <1>2, <1>3, <1>4, <1>5, <1>6, <1>7, <1>8 DEF NodeNext, Mining, allVars

LEMMA SavedStep ==
  ASSUME TypeOK, NodeTypes, ChainInv, LoneChain, NEW p \in Process, Process = {p},
         CallInv(p), SavedInv, [NodeNext]_allVars
  PROVE  SavedInv'
<1>1. \A g \in DOMAIN blocks : g \in DOMAIN blocks' /\ blocks'[g] = blocks[g]
  BY BlocksStay
<1>2. CASE SaveTipHash(p)
  <2>1. /\ savedTip' = tipHash /\ tipHash \in DOMAIN blocks
        /\ UNCHANGED <<savedHeight, blocks>>
    BY <1>2 DEF SaveTipHash, At, CallInv, vars, durable
  <2>2. ASSUME savedHeight # -1
        PROVE  savedHeight <= blocks[tipHash].height
    <3>1. savedTip \in DOMAIN blocks /\ savedHeight <= blocks[savedTip].height
      BY <2>2 DEF SavedInv
    <3>2. blocks[savedTip].height <= blocks[tipHash].height
      BY <3>1 DEF LoneChain, LoneInv, TipIsHighest
    <3>3. blocks[savedTip].height \in Nat /\ blocks[tipHash].height \in Nat /\ savedHeight \in Int
      BY <2>1, <3>1 DEF TypeOK, Block, NodeTypes
    <3> QED
      BY <3>1, <3>2, <3>3
  <2>3. tipHash # None
    BY <2>1 DEF ChainInv, TipStored
  <2> QED
    BY <2>1, <2>2, <2>3 DEF SavedInv
<1>3. CASE SaveTipHeight(p)
  <2>1. /\ savedTip' = savedTip /\ blocks' = blocks
        /\ savedTip = tipHash /\ tipHash \in DOMAIN blocks
        /\ savedHeight' = blocks[tipHash].height
    BY <1>3 DEF SaveTipHeight, At, CallInv, vars, durable
  <2>2. tipHash # None /\ blocks[tipHash].height \in Nat
    BY <2>1 DEF ChainInv, TipStored, TypeOK, Block
  <2> QED
    BY <2>1, <2>2 DEF SavedInv
<1>4. CASE UNCHANGED <<savedTip, savedHeight>>
  BY <1>1, <1>4 DEF SavedInv
<1>5. SaveTipHash(p) \/ SaveTipHeight(p) \/ UNCHANGED <<savedTip, savedHeight>>
  <2>1. (\E t \in Tx : SendTransaction(t) \/ ReceiveTransaction(t))
          => UNCHANGED <<savedTip, savedHeight>>
    BY DEF SendTransaction, ReceiveTransaction, AddToMempool, notes
  <2>2. OpenNode(p) \/ StartNode(p) \/ ApplyProgress(p) \/ UNCHANGED allVars
          => UNCHANGED <<savedTip, savedHeight>>
    BY DEF OpenNode, StartNode, ApplyProgress, allVars, nodeVars, notes
  <2>3. EndNode(p) \/ MineBlock(p) \/ Rejected(p) \/ Accepted(p)
          => UNCHANGED <<savedTip, savedHeight>>
    BY DEF EndNode, MineBlock, Rejected, Accepted, notes
  <2>4. AddCheckpoint(p) \/ ClearOne(p) => UNCHANGED <<savedTip, savedHeight>>
    BY DEF AddCheckpoint, ClearOne, notes
  <2> QED
    BY <2>1, <2>2, <2>3, <2>4 DEF NodeNext, Mining, AfterStore
<1> QED
  BY <1>2, <1>3, <1>4, <1>5

(* The work of a node whose files no other process shares.                 *)
WorkInv == (\A p \in Process : CallInv(p)) /\ SavedInv

LEMMA NodeWork ==
  ASSUME NEW p \in Process, Process = {p}
  PROVE  NodeSpec => []WorkInv
<1>1. NodeInit => WorkInv
  BY DEF NodeInit, WorkInv, CallInv, SavedInv
<1>2. TypeOK /\ NodeTypes /\ ChainInv /\ LoneChain /\ WorkInv /\ [NodeNext]_allVars => WorkInv'
  <2>1. WorkInv <=> CallInv(p) /\ SavedInv
    BY DEF WorkInv
  <2>2. WorkInv' <=> CallInv(p)' /\ SavedInv'
    BY DEF WorkInv
  <2> QED
    BY <2>1, <2>2, CallStep, SavedStep
<1> QED
  BY <1>1, <1>2, LoneNodeHolds, PTL DEF NodeSpec

(* The tip that agent_memory.db remembers may lag behind the chain         *)
(* database after a crash, but is always a block of its chain, and a block *)
(* under application is higher.                                            *)
THEOREM SavedTipIsOnChain ==
  ASSUME NEW p \in Process, Process = {p}
  PROVE  NodeSpec => []SavedTipOnChain
<1>1. TypeOK /\ ChainInv /\ LoneChain /\ WorkInv => SavedTipOnChain
  <2> SUFFICES ASSUME TypeOK, ChainInv, LoneChain, CallInv(p), SavedInv
               PROVE  SavedTipOnChain
    BY DEF WorkInv
  <2>1. Chain(tipHash) = DOMAIN blocks
    BY DEF LoneChain, WholeChain
  <2>2. ASSUME call[p] # None, call[p].stage = "apply", savedTip # None
        PROVE  blocks[savedTip].height < call[p].height
    <3>1. job[p] # None /\ call[p].height = job[p].block.height /\ savedTip \in DOMAIN blocks
      BY <2>2 DEF CallInv, SavedInv
    <3> QED
      BY <3>1, JobIsNew DEF LoneChain
  <2> QED
    BY <2>1, <2>2 DEF SavedTipOnChain, SavedInv, TypeOK
<1> QED
  BY <1>1, LoneNodeHolds, NodeWork, PTL

-----------------------------------------------------------------------------
(* Before a node has failed to apply a block, its chain spends no outpoint *)
(* twice and holds no transaction twice.  (NoDoubleSpend fails once a      *)
(* block has failed.)                                                      *)
THEOREM DoubleSpendNeedsFailure ==
  ASSUME NEW p \in Process, Process = {p}, \A t \in Tx : Ins[t] # << >>
  PROVE  NodeSpec => []SpentOnceUntilFailure
<1>1. LoneLedger(p) => SpentOnceUntilFailure
  <2> SUFFICES ASSUME LoneLedger(p), abandoned = {}
               PROVE  NoDoubleSpend /\ Twice(tipHash) = {}
    BY DEF SpentOnceUntilFailure
  <2>1. ChainTxs(tipHash) = StoredTxs /\ Twice(tipHash) = StoredTwice
    BY ChainIsStored DEF LoneLedger, LoneChain
  <2>2. Repeated(p) = {}
    BY DEF LoneLedger, OnceInv
  <2>3. Damage(p) = {}
    BY <2>2 DEF Damage, Disturbed, Created, Spent
  <2>4. ASSUME NEW t \in ChainTxs(tipHash), NEW u \in ChainTxs(tipHash), t # u
        PROVE  SpentBy(t) \cap SpentBy(u) = {}
    <3>1. t \in Applied(p) /\ u \in Applied(p)
      BY <2>1 DEF Applied
    <3> QED
      BY <2>3, <2>4, <3>1 DEF LoneLedger, LedgerInv, Agree
  <2>5. Twice(tipHash) = {}
    BY <2>1, <2>2 DEF Repeated
  <2> QED
    BY <2>4, <2>5 DEF NoDoubleSpend
<1>2. NodeSpec => Spec
  BY NodeRefinesChainStore DEF ImplementsChainStore
<1> QED
  BY <1>1, <1>2, LoneLedgerHolds, PTL

-----------------------------------------------------------------------------
(* The RPC server.                                                         *)
Answer == {"accepted", "found", "error"} \cup BlockHash \cup Nat \cup {-1}

Exchange == [state : {"idle", "sent", "done", "failed", "lost"}, batch : Seq(Request),
             valid : BOOLEAN, replies : Seq(Answer)]

ServiceTypes ==
  /\ exchange \in [Client -> Exchange]
  /\ serving \in Client \cup {None}

(* What is left of the batch that is served begins with the call after     *)
(* those that have been answered.                                          *)
LEMMA NextCall ==
  ASSUME ServiceTypes, NEW method, AtCall(method)
  PROVE  LET x == exchange[serving]
         IN /\ serving \in Client
            /\ Len(x.replies) + 1 \in 1 .. Len(x.batch)
            /\ Head(Remaining) = x.batch[Len(x.replies) + 1]
            /\ Head(Remaining) \in Request
            /\ Head(Remaining).method = method
<1> DEFINE batch == exchange[serving].batch
           n == Len(exchange[serving].replies)
<1>1. serving \in Client /\ Remaining # << >> /\ Head(Remaining).method = method
  BY DEF AtCall, ServiceTypes
<1>2. exchange[serving] \in Exchange
  BY <1>1 DEF ServiceTypes
<1>3. batch \in Seq(Request) /\ exchange[serving].replies \in Seq(Answer)
  BY <1>2 DEF Exchange
<1>4. n \in Nat
  BY <1>3
<1>5. Remaining = SubSeq(batch, n + 1, Len(batch))
  BY DEF Remaining
<1> HIDE DEF batch, n
<1>6. n + 1 \in 1 .. Len(batch)
  BY <1>1, <1>3, <1>4, <1>5
<1>7. Head(Remaining) = batch[n + 1] /\ batch[n + 1] \in Request
  BY <1>3, <1>4, <1>5, <1>6
<1> QED
  BY <1>1, <1>6, <1>7 DEF batch, n

(* Answering a call keeps the exchanges typed.                             *)
LEMMA ReplyTyped ==
  ASSUME ServiceTypes, serving \in Client, NEW r \in Answer, Reply(r)
  PROVE  ServiceTypes'
<1>1. exchange[serving] \in Exchange
  BY DEF ServiceTypes
<1>2. Append(exchange[serving].replies, r) \in Seq(Answer)
  BY <1>1 DEF Exchange
<1>3. [exchange[serving] EXCEPT !.replies = Append(@, r)] \in Exchange
  BY <1>1, <1>2 DEF Exchange
<1> QED
  BY <1>3 DEF Reply, ServiceTypes

(* Only the server's calls answer, and each with an answer of its kind.    *)
LEMMA ServiceTypesStep ==
  ASSUME TypeOK, NodeTypes, ServiceTypes, [ServiceNext]_serverVars
  PROVE  ServiceTypes'
<1>1. ASSUME UNCHANGED <<exchange, serving>>
      PROVE  ServiceTypes'
  BY <1>1 DEF ServiceTypes
<1>2. CASE OpenService \/ StartGenesis \/ Listen \/ BeginStop \/ StartMining \/ ContinueMining
  BY <1>1, <1>2 DEF OpenService, StartGenesis, Listen, BeginStop, StartMining, ContinueMining,
                    serviceVars
<1>3. ASSUME HangUp
      PROVE  ServiceTypes'
  <2>1. ASSUME NEW x \in Exchange
        PROVE  [x EXCEPT !.state = "lost", !.replies = << >>] \in Exchange
    <3>1. << >> \in Seq(Answer)
      OBVIOUS
    <3> QED
      BY <3>1 DEF Exchange
  <2> QED
    BY <1>3, <2>1 DEF HangUp, ServiceTypes
<1>4. ASSUME NEW t \in Tx, Arrive(t)
      PROVE  ServiceTypes'
  BY <1>1, <1>4 DEF Arrive, serviceVars
<1>5. ASSUME NEW c \in Client, NEW batch \in Seq(Request), NEW valid \in BOOLEAN,
             Ask(c, batch, valid)
      PROVE  ServiceTypes'
  <2>1. [state |-> "sent", batch |-> batch, valid |-> valid, replies |-> << >>] \in Exchange
    BY DEF Exchange
  <2> QED
    BY <1>5, <2>1 DEF Ask, ServiceTypes
<1>6. ASSUME NEW c \in Client, Forget(c)
      PROVE  ServiceTypes'
  <2>1. Quiet \in Exchange
    BY DEF Quiet, Exchange
  <2> QED
    BY <1>6, <2>1 DEF Forget, ServiceTypes
<1>7. ASSUME NEW c \in Client, Read(c)
      PROVE  ServiceTypes'
  <2>1. <<"error">> \in Seq(Answer)
    BY DEF Answer
  <2>2. [exchange[c] EXCEPT !.state = "done", !.replies = <<"error">>] \in Exchange
    BY <2>1 DEF ServiceTypes, Exchange
  <2> QED
    BY <1>7, <2>2 DEF Read, ServiceTypes
<1>8. CASE NotAnObject \/ Respond
  <2>1. serving \in Client /\ serving' = None
    BY <1>8 DEF NotAnObject, Respond, Dispatch, AtCall, ServiceTypes
  <2>2. ASSUME NEW x \in Exchange
        PROVE  /\ [x EXCEPT !.state = "failed", !.replies = << >>] \in Exchange
               /\ [x EXCEPT !.state = "done"] \in Exchange
    <3>1. << >> \in Seq(Answer)
      OBVIOUS
    <3> QED
      BY <3>1 DEF Exchange
  <2>3. exchange[serving] \in Exchange
    BY <2>1 DEF ServiceTypes
  <2>4. CASE NotAnObject
    <3> DEFINE x == [exchange[serving] EXCEPT !.state = "failed", !.replies = << >>]
    <3>1. exchange' = [exchange EXCEPT ![serving] = x]
      BY <2>4 DEF NotAnObject
    <3>2. x \in Exchange
      BY <2>2, <2>3
    <3> QED
      BY <2>1, <3>1, <3>2 DEF ServiceTypes
  <2>5. CASE Respond
    <3> DEFINE x == [exchange[serving] EXCEPT !.state = "done"]
    <3>1. exchange' = [exchange EXCEPT ![serving] = x]
      BY <2>5 DEF Respond
    <3>2. x \in Exchange
      BY <2>2, <2>3
    <3> QED
      BY <2>1, <3>1, <3>2 DEF ServiceTypes
  <2> QED
    BY <1>8, <2>4, <2>5
<1>9. CASE SendRawTransaction \/ GetRawTransaction \/ GetBlockCount \/ MethodNotFound
           \/ MiningFails \/ MiningReturns
  <2>1. serving \in Client
    BY <1>9 DEF SendRawTransaction, GetRawTransaction, GetBlockCount, MethodNotFound, MiningFails,
                MiningReturns, Dispatch, AtCall, ServiceTypes
  <2>2. height[Server] \in Answer
    BY ServiceAssumption DEF TypeOK, Answer
  <2>3. SaveTipHeight(Server) => call[Server].hash \in Answer
    BY ServiceAssumption DEF SaveTipHeight, At, NodeTypes, Call, Answer
  <2>4. PICK r \in Answer : Reply(r)
    BY <1>9, <2>2, <2>3
       DEF SendRawTransaction, GetRawTransaction, GetBlockCount, MethodNotFound, MiningFails,
           MiningReturns, Answer
  <2> QED
    BY <2>1, <2>4, ReplyTyped
<1>10. CASE UNCHANGED serverVars
  BY <1>1, <1>10 DEF serverVars, serviceVars
<1>11. \A c \in Client : Batches[c] \subseteq Seq(Request)
  BY ServiceAssumption
<1>12. << >> \in Seq(Request)
  OBVIOUS
<1> QED
  BY <1>2, <1>3, <1>4, <1>5, <1>6, <1>7, <1>8, <1>9, <1>10, <1>11, <1>12
     DEF ServiceNext, Running, Handler, EndStop, Kill

(* A running node with its RPC server and its clients is a node: requests  *)
(* reach the files only through NodeMining's operations.                   *)
LEMMA ServiceStep ==
  ASSUME ServiceTypes, [ServiceNext]_serverVars
  PROVE  [NodeNext]_allVars
<1> USE ServiceAssumption
<1>1. CASE SendRawTransaction
  <2> DEFINE t == Head(Remaining).tx
  <2>1. AtCall("send") /\ AddToMempool(t, 0)
    BY <1>1 DEF SendRawTransaction, Dispatch
  <2>2. Head(Remaining) \in Request /\ Head(Remaining).method = "send"
    BY <2>1, NextCall
  <2>3. t \in Tx
    BY <2>2 DEF Request
  <2> QED
    BY <2>1, <2>3 DEF NodeNext, ReceiveTransaction
<1>2. CASE OpenService \/ StartGenesis \/ Kill \/ EndStop \/ StartMining
  BY <1>2 DEF OpenService, StartGenesis, Kill, EndStop, StartMining, NodeNext
<1>3. CASE ContinueMining \/ MiningReturns
  BY <1>3 DEF ContinueMining, MiningReturns, NodeNext, Mining, AfterStore
<1>4. ASSUME NEW t \in Tx, Arrive(t)
      PROVE  NodeNext
  BY <1>4 DEF Arrive, NodeNext
<1>5. CASE Listen \/ BeginStop \/ GetRawTransaction \/ GetBlockCount \/ MethodNotFound
           \/ MiningFails \/ NotAnObject \/ Respond \/ UNCHANGED serverVars
  BY <1>5 DEF Listen, BeginStop, GetRawTransaction, GetBlockCount, MethodNotFound, MiningFails,
              NotAnObject, Respond, serverVars
<1>6. ASSUME NEW c \in Client, NEW batch, NEW valid, Ask(c, batch, valid) \/ Read(c) \/ Forget(c)
      PROVE  UNCHANGED allVars
  BY <1>6 DEF Ask, Read, Forget
<1> QED
  BY <1>1, <1>2, <1>3, <1>4, <1>5, <1>6 DEF ServiceNext, Running, Handler

(* A node behind the RPC server, with its requests hidden, is a node of    *)
(* NodeMining, and its requests and answers keep their types: what is      *)
(* proved of NodeMining holds of it.                                       *)
THEOREM ServiceRefinesNode == ServiceSpec => NodeSpec /\ []ServiceTypes
<1>1. ServiceInit => NodeInit /\ ServiceTypes
  <2>1. Quiet \in Exchange
    BY DEF Quiet, Exchange
  <2> QED
    BY <2>1 DEF ServiceInit, ServiceTypes
<1>2. NodeInit => TypeOK /\ NodeTypes
  BY DEF NodeInit, Init, TypeOK, NodeTypes
<1>3. TypeOK /\ NodeTypes /\ ServiceTypes /\ [ServiceNext]_serverVars
        => [NodeNext]_allVars /\ TypeOK' /\ NodeTypes' /\ ServiceTypes'
  BY ServiceStep, ServiceTypesStep, NodeStep, NextKeepsTypes, NodeNextKeepsTypes
<1> QED
  BY <1>1, <1>2, <1>3, PTL DEF ServiceSpec, NodeSpec

-----------------------------------------------------------------------------
(* What an answer promises, of the transactions ever submitted, the stored *)
(* blocks and the durable tip: each of the three only grows.               *)
Kept(asked, reply, txs, stored, top) ==
  /\ asked.method \in {"send", "find"} => (reply # "error" => asked.tx \in txs)
  /\ asked.method = "mine" => (reply # "error" => reply \in DOMAIN stored)
  /\ asked.method = "count" =>
       reply \in Int /\ top \in DOMAIN stored /\ reply <= stored[top].height
  /\ asked.method \notin {"send", "find", "mine", "count"} => reply = "error"

AllKept(x, txs, stored, top) ==
  x.valid => /\ Len(x.replies) <= Len(x.batch)
             /\ \A i \in 1 .. Len(x.replies) : Kept(x.batch[i], x.replies[i], txs, stored, top)

Grows(txs, stored, top, moreTxs, moreStored, newTop) ==
  /\ txs \subseteq moreTxs
  /\ \A h \in DOMAIN stored : h \in DOMAIN moreStored /\ moreStored[h] = stored[h]
  /\ top \in DOMAIN stored =>
       /\ newTop \in DOMAIN moreStored
       /\ stored[top].height \in Int /\ moreStored[newTop].height \in Int
       /\ stored[top].height <= moreStored[newTop].height

LEMMA KeptStays ==
  ASSUME NEW x, NEW txs, NEW stored, NEW top, NEW moreTxs, NEW moreStored, NEW newTop,
         AllKept(x, txs, stored, top), Grows(txs, stored, top, moreTxs, moreStored, newTop)
  PROVE  AllKept(x, moreTxs, moreStored, newTop)
<1>1. ASSUME NEW asked, NEW reply, Kept(asked, reply, txs, stored, top)
      PROVE  Kept(asked, reply, moreTxs, moreStored, newTop)
  BY <1>1 DEF Kept, Grows
<1> QED
  BY <1>1 DEF AllKept

(* An answer that holds joins those that do.                               *)
LEMMA ReplyKeeps ==
  ASSUME ServiceTypes, NEW method, AtCall(method), NEW r \in Answer, Reply(r),
         NEW txs, NEW stored, NEW top,
         \A c \in Client : AllKept(exchange[c], txs, stored, top),
         Kept(Head(Remaining), r, txs, stored, top)
  PROVE  \A c \in Client : AllKept(exchange'[c], txs, stored, top)
<1> DEFINE x == exchange[serving]
           n == Len(x.replies)
<1>1. /\ serving \in Client /\ n + 1 \in 1 .. Len(x.batch)
      /\ Head(Remaining) = x.batch[n + 1]
  BY NextCall
<1>2. x \in Exchange
  BY <1>1 DEF ServiceTypes
<1>3. x.replies \in Seq(Answer) /\ x.batch \in Seq(Request)
  BY <1>2 DEF Exchange
<1>4. exchange' = [exchange EXCEPT ![serving].replies = Append(@, r)]
  BY DEF Reply
<1>5. /\ exchange'[serving].valid = x.valid /\ exchange'[serving].batch = x.batch
      /\ exchange'[serving].replies = Append(x.replies, r)
  BY <1>1, <1>2, <1>4 DEF ServiceTypes, Exchange
<1>6. \A c \in Client \ {serving} : exchange'[c] = exchange[c]
  BY <1>4 DEF ServiceTypes
<1>7. AllKept(x, txs, stored, top)
  BY <1>1
<1> HIDE DEF x, n
<1>8. /\ n = Len(x.replies) /\ Len(Append(x.replies, r)) = n + 1 /\ Append(x.replies, r)[n + 1] = r
      /\ n \in Nat /\ \A i \in 1 .. n : Append(x.replies, r)[i] = x.replies[i]
  BY <1>3 DEF n
<1>9. AllKept(exchange'[serving], txs, stored, top)
  <2> SUFFICES ASSUME x.valid
               PROVE  /\ n + 1 <= Len(x.batch)
                      /\ \A i \in 1 .. n + 1 :
                           Kept(x.batch[i], Append(x.replies, r)[i], txs, stored, top)
    BY <1>5, <1>8 DEF AllKept
  <2>1. \A i \in 1 .. n : Kept(x.batch[i], x.replies[i], txs, stored, top)
    BY <1>7, <1>8 DEF AllKept
  <2>2. Kept(x.batch[n + 1], r, txs, stored, top)
    BY <1>1
  <2>3. \A i \in 1 .. n + 1 : i \in 1 .. n \/ i = n + 1
    BY <1>8
  <2> QED
    BY <1>1, <1>3, <1>8, <2>1, <2>2, <2>3
<1> QED
  BY <1>6, <1>9

ServeInv ==
  /\ DOMAIN mempool \subseteq submitted
  /\ phase # "down" => Server \in up /\ height[Server] \in Nat
  /\ serving # None => phase # "down"
  /\ \A c \in Client : AllKept(exchange[c], submitted, blocks, tipHash)

(* Nothing that an answer rests on is ever taken back.                     *)
LEMMA NodeGrows ==
  ASSUME TypeOK, TypeOK', ChainInv, ChainInv', LoneChain', [NodeNext]_allVars
  PROVE  Grows(submitted, blocks, tipHash, submitted', blocks', tipHash')
<1>1. submitted \subseteq submitted'
  <2>1. (\E t \in Tx : SendTransaction(t) \/ ReceiveTransaction(t)) => submitted \subseteq submitted'
    BY DEF SendTransaction, ReceiveTransaction, AddToMempool
  <2>2. ASSUME NEW p \in Process,
               OpenNode(p) \/ StartNode(p) \/ ApplyProgress(p) \/ UNCHANGED allVars
        PROVE  submitted' = submitted
    BY <2>2 DEF OpenNode, StartNode, ApplyProgress, allVars, nodeVars
  <2>3. ASSUME NEW p \in Process,
               EndNode(p) \/ MineBlock(p) \/ Rejected(p) \/ Accepted(p) \/ AfterStore(p)
        PROVE  submitted' = submitted
    BY <2>3 DEF EndNode, MineBlock, Rejected, Accepted, AfterStore, AddCheckpoint, ClearOne,
                SaveTipHash, SaveTipHeight
  <2> QED
    BY <2>1, <2>2, <2>3 DEF NodeNext, Mining, allVars, nodeVars
<1>2. \A h \in DOMAIN blocks : h \in DOMAIN blocks' /\ blocks'[h] = blocks[h]
  BY BlocksStay
<1>3. ASSUME tipHash \in DOMAIN blocks
      PROVE  /\ tipHash' \in DOMAIN blocks'
             /\ blocks[tipHash].height \in Int /\ blocks'[tipHash'].height \in Int
             /\ blocks[tipHash].height <= blocks'[tipHash'].height
  <2>1. tipHash \in DOMAIN blocks' /\ blocks'[tipHash] = blocks[tipHash]
    BY <1>2, <1>3
  <2>2. tipHash' \in DOMAIN blocks'
    BY <2>1 DEF ChainInv, TipStored
  <2>3. blocks'[tipHash].height <= blocks'[tipHash'].height
    BY <2>1 DEF LoneChain, LoneInv, TipIsHighest
  <2>4. \A h \in DOMAIN blocks' : blocks'[h].height \in Nat
    BY DEF TypeOK, Block
  <2> QED
    BY <2>1, <2>2, <2>3, <2>4
<1> QED
  BY <1>1, <1>2, <1>3 DEF Grows

(* What is in the mempool has been submitted.                              *)
LEMMA PoolSubmitted ==
  ASSUME DOMAIN mempool \subseteq submitted, [NodeNext]_allVars
  PROVE  DOMAIN mempool' \subseteq submitted'
<1>1. ASSUME NEW t \in Tx, SendTransaction(t) \/ ReceiveTransaction(t)
      PROVE  DOMAIN mempool' \subseteq submitted'
  BY <1>1 DEF SendTransaction, ReceiveTransaction, AddToMempool
<1>2. ASSUME NEW p \in Process, ClearOne(p)
      PROVE  DOMAIN mempool' \subseteq submitted'
  BY <1>2 DEF ClearOne
<1>3. ASSUME NEW p \in Process,
             \/ OpenNode(p) \/ StartNode(p) \/ ApplyProgress(p) \/ EndNode(p) \/ MineBlock(p)
             \/ Rejected(p) \/ Accepted(p) \/ AddCheckpoint(p) \/ SaveTipHash(p)
             \/ SaveTipHeight(p)
      PROVE  UNCHANGED <<mempool, submitted>>
  BY <1>3 DEF OpenNode, StartNode, ApplyProgress, nodeVars, EndNode, MineBlock, Rejected,
              Accepted, AddCheckpoint, SaveTipHash, SaveTipHeight
<1>4. CASE UNCHANGED allVars
  BY <1>4 DEF allVars, nodeVars
<1> QED
  BY <1>1, <1>2, <1>3, <1>4 DEF NodeNext, Mining, AfterStore

(* A step of the service that neither starts nor ends it leaves its        *)
(* process open and its cached height a height.                            *)
LEMMA ServerStaysUp ==
  ASSUME TypeOK, Server \in up, height[Server] \in Nat,
         \/ Handler \/ BeginStop
         \/ \E t \in Tx : Arrive(t)
         \/ \E c \in Client : Read(c) \/ Forget(c) \/ \E batch, valid : Ask(c, batch, valid)
         \/ UNCHANGED serverVars
  PROVE  Server \in up' /\ height'[Server] \in Nat
<1> USE ServiceAssumption
<1>1. ASSUME UNCHANGED <<up, height>>
      PROVE  Server \in up' /\ height'[Server] \in Nat
  BY <1>1
<1>2. ASSUME UNCHANGED vars
      PROVE  UNCHANGED <<up, height>>
  BY <1>2 DEF vars, cache
<1>3. CASE Accepted(Server)
  <2>1. job[Server] \in Job
    BY <1>3, JobTyped DEF Accepted, StoreBlock, CommitBlock, Busy
  <2>2. job[Server].block.height \in Nat
    BY <2>1 DEF Job, Block
  <2> QED
    BY <1>3, <2>2 DEF Accepted, StoreBlock, CommitBlock, TypeOK
<1>4. CASE StartMining \/ MiningReturns
  BY <1>1, <1>4 DEF StartMining, MineBlock, Mine, Apply, MiningReturns, SaveTipHeight, Rejected,
                    RejectBlock, vars, cache
<1>5. CASE ContinueMining
  <2>1. ApplyProgress(Server) => UNCHANGED <<up, height>>
    BY DEF ApplyProgress, SelectInput, DeleteInput, AddOutputs, cache
  <2>2. AddCheckpoint(Server) \/ ClearOne(Server) \/ SaveTipHash(Server) => UNCHANGED <<up, height>>
    BY DEF AddCheckpoint, ClearOne, SaveTipHash, vars, cache
  <2> QED
    BY <1>1, <1>3, <1>5, <2>1, <2>2 DEF ContinueMining
<1>6. CASE \E t \in Tx : Arrive(t)
  BY <1>1, <1>2, <1>6 DEF Arrive, SendTransaction, ReceiveTransaction, AddToMempool
<1>7. CASE SendRawTransaction
  BY <1>1, <1>2, <1>7 DEF SendRawTransaction, AddToMempool
<1>8. CASE GetRawTransaction \/ GetBlockCount \/ MethodNotFound \/ MiningFails \/ NotAnObject
           \/ Respond \/ BeginStop \/ UNCHANGED serverVars
  BY <1>1, <1>2, <1>8 DEF GetRawTransaction, GetBlockCount, MethodNotFound, MiningFails,
                          NotAnObject, Respond, BeginStop, serverVars, allVars
<1>9. CASE \E c \in Client : Read(c) \/ Forget(c) \/ \E batch, valid : Ask(c, batch, valid)
  BY <1>1, <1>2, <1>9 DEF Read, Forget, Ask, allVars
<1> QED
  BY <1>3, <1>4, <1>5, <1>6, <1>7, <1>8, <1>9 DEF Handler

(* Every step of the service keeps ServeInv.                               *)
LEMMA ServeStep ==
  ASSUME TypeOK, TypeOK', NodeTypes, ChainInv, ChainInv', LoneChain, LoneChain',
         Process = {Server}, CallInv(Server), ServiceTypes, ServeInv, [ServiceNext]_serverVars
  PROVE  ServeInv'
<1> USE ServiceAssumption
<1>1. [NodeNext]_allVars
  BY ServiceStep
<1>2. Grows(submitted, blocks, tipHash, submitted', blocks', tipHash')
  BY <1>1, NodeGrows
<1>3. DOMAIN mempool' \subseteq submitted'
  BY <1>1, PoolSubmitted DEF ServeInv
<1>4. \A c \in Client : AllKept(exchange[c], submitted', blocks', tipHash')
  BY <1>2, KeptStays DEF ServeInv
<1> DEFINE Up == phase # "down" => Server \in up /\ height[Server] \in Nat
           Served == serving # None => phase # "down"
           Held == \A c \in Client : AllKept(exchange'[c], submitted', blocks', tipHash')
<1>5. ASSUME phase' = phase,
             \/ Handler
             \/ \E t \in Tx : Arrive(t)
             \/ \E c \in Client : Read(c) \/ Forget(c) \/ \E batch, valid : Ask(c, batch, valid)
             \/ UNCHANGED serverVars
      PROVE  Up'
  BY <1>5, ServerStaysUp DEF ServeInv
<1>6. ASSUME exchange' = exchange
      PROVE  Held
  BY <1>4, <1>6
<1>7. ASSUME NEW c \in Client, NEW x, exchange' = [exchange EXCEPT ![c] = x],
             AllKept(x, submitted', blocks', tipHash')
      PROVE  Held
  BY <1>4, <1>7 DEF ServiceTypes
<1>8. ASSUME NEW x, x.replies = << >> \/ ~x.valid, x.batch \in Seq(Request)
      PROVE  AllKept(x, submitted', blocks', tipHash')
  BY <1>8 DEF AllKept
<1> HIDE DEF Held
<1>9. ASSUME HangUp
      PROVE  Up' /\ Served' /\ Held
  <2>1. ASSUME NEW c \in Client
        PROVE  AllKept(exchange'[c], submitted', blocks', tipHash')
    <3>1. CASE exchange[c].state = "sent"
      <4>1. exchange[c] \in Exchange /\ exchange[c].batch \in Seq(Request)
        BY DEF ServiceTypes, Exchange
      <4>2. exchange'[c].replies = << >> /\ exchange'[c].batch = exchange[c].batch
        BY <1>9, <3>1, <4>1 DEF HangUp, Exchange
      <4> QED
        BY <4>1, <4>2 DEF AllKept
    <3>2. CASE exchange[c].state # "sent"
      BY <1>4, <1>9, <3>2 DEF HangUp
    <3> QED
      BY <3>1, <3>2
  <2> QED
    BY <1>9, <2>1 DEF HangUp, Held
<1>10. CASE EndStop \/ Kill
  BY <1>3, <1>9, <1>10 DEF EndStop, Kill, ServeInv, Held
<1>11. CASE OpenService \/ StartGenesis \/ Listen \/ BeginStop
  <2>1. exchange' = exchange /\ serving' = serving
    BY <1>11 DEF OpenService, StartGenesis, Listen, BeginStop, serviceVars
  <2>2. CASE OpenService \/ StartGenesis
    <3>1. phase' = "down"
      BY <2>2 DEF OpenService, StartGenesis, serviceVars, OpenNode, Open, ServeInv
    <3>2. phase = "down"
      BY <2>2, <3>1 DEF OpenService, StartGenesis, serviceVars
    <3> QED
      BY <1>3, <1>6, <2>1, <3>1, <3>2 DEF ServeInv, Held
  <2>3. CASE Listen
    <3>1. Server \in up /\ height[Server] \in Nat /\ UNCHANGED <<up, height>> /\ phase' = "running"
      BY <2>3 DEF Listen, allVars, vars, cache, TypeOK
    <3> QED
      BY <1>3, <1>6, <2>1, <3>1 DEF ServeInv, Held
  <2>4. CASE BeginStop
    <3>1. phase = "running" /\ phase' = "stopping"
      BY <2>4 DEF BeginStop
    <3>2. Up'
      BY <2>4, <3>1, ServerStaysUp DEF ServeInv
    <3> QED
      BY <1>3, <1>6, <2>1, <3>1, <3>2 DEF ServeInv, Held
  <2> QED
    BY <1>11, <2>2, <2>3, <2>4
<1>12. CASE \/ UNCHANGED serverVars
            \/ \E t \in Tx : Arrive(t)
  <2>1. UNCHANGED serviceVars
    BY <1>12 DEF serverVars, Arrive
  <2>2. Up'
    BY <1>5, <1>12, <2>1 DEF serviceVars
  <2> QED
    BY <1>3, <1>6, <2>1, <2>2 DEF ServeInv, Held, serviceVars
<1>13. ASSUME NEW c \in Client, NEW batch \in Seq(Request), NEW valid, Ask(c, batch, valid)
       PROVE  ServeInv'
  <2> DEFINE x == [state |-> "sent", batch |-> batch, valid |-> valid, replies |-> << >>]
  <2>1. exchange' = [exchange EXCEPT ![c] = x] /\ UNCHANGED <<phase, serving>>
    BY <1>13 DEF Ask
  <2>2. x.replies = << >> /\ x.batch \in Seq(Request)
    OBVIOUS
  <2> HIDE DEF x
  <2>3. Held
    BY <1>7, <1>8, <2>1, <2>2
  <2>4. Up'
    BY <1>5, <1>13, <2>1
  <2> QED
    BY <1>3, <2>1, <2>3, <2>4 DEF ServeInv, Held
<1>14. ASSUME NEW c \in Client, Forget(c)
       PROVE  ServeInv'
  <2>1. exchange' = [exchange EXCEPT ![c] = Quiet] /\ UNCHANGED <<phase, serving>>
    BY <1>14 DEF Forget
  <2>2. Quiet.replies = << >> /\ Quiet.batch \in Seq(Request)
    BY DEF Quiet
  <2>3. Held
    BY <1>7, <1>8, <2>1, <2>2
  <2>4. Up'
    BY <1>5, <1>14, <2>1
  <2> QED
    BY <1>3, <2>1, <2>3, <2>4 DEF ServeInv, Held
<1>15. ASSUME NEW c \in Client, Read(c)
       PROVE  ServeInv'
  <2>1. phase' = phase /\ phase \in {"running", "stopping"}
    BY <1>15 DEF Read
  <2>2. Held
    <3>1. CASE exchange[c].valid
      BY <1>6, <1>15, <3>1 DEF Read
    <3>2. CASE ~exchange[c].valid
      <4> DEFINE x == [exchange[c] EXCEPT !.state = "done", !.replies = <<"error">>]
      <4>1. exchange[c] \in Exchange /\ exchange' = [exchange EXCEPT ![c] = x]
        BY <1>15, <3>2 DEF Read, ServiceTypes
      <4>2. ~x.valid /\ x.batch \in Seq(Request)
        BY <3>2, <4>1 DEF Exchange
      <4> HIDE DEF x
      <4> QED
        BY <1>7, <1>8, <4>1, <4>2
    <3> QED
      BY <3>1, <3>2
  <2>3. Up'
    BY <1>5, <1>15, <2>1
  <2> QED
    BY <1>3, <2>1, <2>2, <2>3 DEF ServeInv, Held
<1>16. CASE StartMining \/ ContinueMining
  <2>1. UNCHANGED serviceVars /\ Handler
    BY <1>16 DEF StartMining, ContinueMining, Handler
  <2>2. Up'
    BY <1>5, <2>1 DEF serviceVars
  <2> QED
    BY <1>3, <1>6, <2>1, <2>2 DEF ServeInv, Held, serviceVars
<1>17. CASE NotAnObject \/ Respond
  <2>1. /\ serving \in Client /\ serving' = None /\ phase' = phase
        /\ Handler
    BY <1>17 DEF NotAnObject, Respond, Dispatch, AtCall, ServiceTypes, Handler
  <2>2. exchange[serving] \in Exchange
    BY <2>1 DEF ServiceTypes
  <2>3. ASSUME NotAnObject
        PROVE  Held
    <3> DEFINE x == [exchange[serving] EXCEPT !.state = "failed", !.replies = << >>]
    <3>1. exchange' = [exchange EXCEPT ![serving] = x]
      BY <2>3 DEF NotAnObject
    <3>2. x.replies = << >> /\ x.batch \in Seq(Request)
      BY <2>2 DEF Exchange
    <3> HIDE DEF x
    <3> QED
      BY <1>7, <1>8, <2>1, <3>1, <3>2
  <2>4. ASSUME Respond
        PROVE  Held
    <3> DEFINE x == [exchange[serving] EXCEPT !.state = "done"]
    <3>1. exchange' = [exchange EXCEPT ![serving] = x]
      BY <2>4 DEF Respond
    <3>2. /\ x.replies = exchange[serving].replies /\ x.batch = exchange[serving].batch
          /\ x.valid = exchange[serving].valid
      BY <2>2 DEF Exchange
    <3>3. AllKept(exchange[serving], submitted', blocks', tipHash')
      BY <1>4, <2>1
    <3> HIDE DEF x
    <3>4. AllKept(x, submitted', blocks', tipHash')
      BY <3>2, <3>3 DEF AllKept
    <3> QED
      BY <1>7, <2>1, <3>1, <3>4
  <2>5. Held
    BY <1>17, <2>3, <2>4
  <2>6. Up'
    BY <1>5, <2>1
  <2> QED
    BY <1>3, <2>1, <2>5, <2>6 DEF ServeInv, Held
<1>18. ASSUME NEW method, AtCall(method), NEW r \in Answer, Reply(r), Handler,
              Kept(Head(Remaining), r, submitted', blocks', tipHash')
       PROVE  ServeInv'
  <2>1. Held
    BY <1>4, <1>18, ReplyKeeps DEF Held
  <2>2. UNCHANGED <<phase, serving>>
    BY <1>18 DEF Reply
  <2>3. Up'
    BY <1>5, <1>18, <2>2
  <2> QED
    BY <1>3, <2>1, <2>2, <2>3 DEF ServeInv, Held
<1>19. \A method : AtCall(method) => /\ Head(Remaining) \in Request
                                     /\ Head(Remaining).method = method
  BY NextCall
<1>20. CASE SendRawTransaction
  <2>1. AtCall("send") /\ Reply("accepted") /\ Head(Remaining).tx \in submitted' /\ Handler
    BY <1>20 DEF SendRawTransaction, Dispatch, AddToMempool, Handler
  <2>2. Kept(Head(Remaining), "accepted", submitted', blocks', tipHash')
    BY <1>19, <2>1 DEF Kept
  <2> QED
    BY <1>18, <2>1, <2>2 DEF Answer
<1>21. CASE GetRawTransaction
  <2>1. PICK w \in Windows : Reply(IF Head(Remaining).tx \in w THEN "found" ELSE "error")
    BY <1>21 DEF GetRawTransaction
  <2> DEFINE r == IF Head(Remaining).tx \in w THEN "found" ELSE "error"
  <2>2. AtCall("find") /\ Handler
    BY <1>21 DEF GetRawTransaction, Dispatch, Handler
  <2>3. r # "error" => Head(Remaining).tx \in submitted'
    BY <1>21 DEF Windows, ServeInv, GetRawTransaction, allVars, nodeVars
  <2>4. r \in Answer /\ Reply(r)
    BY <2>1 DEF Answer
  <2> HIDE DEF r
  <2>5. Kept(Head(Remaining), r, submitted', blocks', tipHash')
    BY <1>19, <2>2, <2>3 DEF Kept
  <2> QED
    BY <1>18, <2>2, <2>4, <2>5
<1>22. CASE GetBlockCount
  <2>1. AtCall("count") /\ Reply(height[Server]) /\ Handler /\ UNCHANGED <<blocks, tipHash>>
    BY <1>22 DEF GetBlockCount, Dispatch, Handler, allVars, vars, durable
  <2>2. Server \in up /\ height[Server] \in Nat
    BY <2>1 DEF AtCall, ServeInv
  <2>3. tip[Server] = tipHash
    BY <2>2 DEF LoneChain, LoneInv, CacheIsTip
  <2>4. tipHash \in DOMAIN blocks /\ height[Server] = blocks[tipHash].height
    BY <2>2, <2>3 DEF ChainInv, CachesStored
  <2>5. Kept(Head(Remaining), height[Server], submitted', blocks', tipHash')
    BY <1>19, <2>1, <2>2, <2>4 DEF Kept
  <2>6. height[Server] \in Answer
    BY <2>2 DEF Answer
  <2> QED
    BY <1>18, <2>1, <2>5, <2>6
<1>23. CASE MethodNotFound \/ MiningFails
  <2>1. PICK method \in {"unknown", "mine"} : AtCall(method)
    BY <1>23 DEF MethodNotFound, MiningFails, Dispatch
  <2>2. Reply("error") /\ Handler
    BY <1>23 DEF MethodNotFound, MiningFails, Handler
  <2>3. Kept(Head(Remaining), "error", submitted', blocks', tipHash')
    BY <1>19, <2>1 DEF Kept
  <2> QED
    BY <1>18, <2>1, <2>2, <2>3 DEF Answer
<1>24. CASE MiningReturns
  <2>1. AtCall("mine") /\ Handler
    BY <1>24 DEF MiningReturns, Handler
  <2>2. CASE Reply("error")
    <3>1. Kept(Head(Remaining), "error", submitted', blocks', tipHash')
      BY <1>19, <2>1 DEF Kept
    <3> QED
      BY <1>18, <2>1, <2>2, <3>1 DEF Answer
  <2>3. CASE SaveTipHeight(Server) /\ Reply(call[Server].hash)
    <3>1. /\ call[Server].hash = tipHash /\ tipHash \in DOMAIN blocks
          /\ UNCHANGED blocks
      BY <2>3 DEF SaveTipHeight, At, CallInv, vars, durable
    <3>2. Kept(Head(Remaining), call[Server].hash, submitted', blocks', tipHash')
      BY <1>19, <2>1, <3>1 DEF Kept
    <3>3. call[Server].hash \in Answer
      BY <3>1 DEF TypeOK, Answer
    <3> QED
      BY <1>18, <2>1, <2>3, <3>2, <3>3
  <2> QED
    BY <1>24, <2>2, <2>3 DEF MiningReturns
<1>25. \A c \in Client : Batches[c] \subseteq Seq(Request)
  OBVIOUS
<1>26. << >> \in Seq(Request)
  OBVIOUS
<1> QED
  BY <1>10, <1>11, <1>12, <1>13, <1>14, <1>15, <1>16, <1>17, <1>20, <1>21, <1>22, <1>23, <1>24,
     <1>25, <1>26 DEF ServiceNext, Running, Handler

(* With one process, whatever the RPC server answers holds when the client *)
(* reads it and for ever after, across failed blocks, kills and restarts.  *)
THEOREM RepliesStayTrue ==
  ASSUME Process = {Server}
  PROVE  ServiceSpec => []RepliesHold
<1>1. ServiceInit => ServeInv
  <2>1. Len(<< >>) = 0
    OBVIOUS
  <2>2. Quiet.replies = << >> /\ Quiet.batch = << >>
    BY DEF Quiet
  <2> QED
    BY <2>1, <2>2 DEF ServiceInit, NodeInit, ServeInv, AllKept
<1> DEFINE Base == TypeOK /\ NodeTypes /\ ChainInv /\ LoneChain
<1>2. NodeSpec => [](Base /\ WorkInv /\ NoTxLeavesChain)
  <2>1. NodeSpec => []Base
    BY LoneNodeHolds, ServiceAssumption
  <2>2. NodeSpec => []WorkInv
    BY NodeWork, ServiceAssumption
  <2>3. NodeSpec => []NoTxLeavesChain
    BY NothingLeavesChain, ServiceAssumption
  <2> QED
    BY <2>1, <2>2, <2>3, PTL
<1>3. Base /\ Base' /\ WorkInv /\ ServiceTypes /\ ServeInv /\ [ServiceNext]_serverVars => ServeInv'
  BY ServeStep, ServiceAssumption DEF WorkInv
<1>4. Base /\ NoTxLeavesChain /\ ServiceTypes /\ ServeInv => RepliesHold
  <2> SUFFICES ASSUME Base, NoTxLeavesChain, ServiceTypes, ServeInv,
                      NEW c \in Client, exchange[c].valid,
                      NEW i \in DOMAIN exchange[c].replies
               PROVE  LET asked == exchange[c].batch[i]
                          reply == exchange[c].replies[i]
                      IN CASE asked.method \in {"send", "find"} ->
                                reply # "error" => asked.tx \in DOMAIN mempool \cup ChainTxs(tipHash)
                           [] asked.method = "mine" -> reply # "error" => reply \in Chain(tipHash)
                           [] asked.method = "count" -> reply <= blocks[tipHash].height
                           [] OTHER -> reply = "error"
    BY DEF RepliesHold
  <2>1. exchange[c] \in Exchange
    BY DEF ServiceTypes
  <2>2. i \in 1 .. Len(exchange[c].replies)
    BY <2>1 DEF Exchange
  <2>3. Kept(exchange[c].batch[i], exchange[c].replies[i], submitted, blocks, tipHash)
    BY <2>2 DEF ServeInv, AllKept
  <2>4. Chain(tipHash) = DOMAIN blocks /\ submitted \subseteq DOMAIN mempool \cup ChainTxs(tipHash)
    BY DEF LoneChain, WholeChain, NoTxLeavesChain
  <2> QED
    BY <2>3, <2>4 DEF Kept
<1> HIDE DEF Base
<1> QED
  BY <1>1, <1>2, <1>3, <1>4, ServiceRefinesNode, PTL DEF ServiceSpec
=============================================================================
