# Bitchchain verification

TLA+ models of Bitchchain, the TLC runs that check them on small instances and
the theorems that the TLA+ proof system (TLAPS) checks for instances of any
size. Paths of documents, tests and sources are relative to `src/`;
`blockchain_core.py`, `consensus_engine.py`, `network_node.py` and
`privacy_layer.py` are in `agent/modules/`, `orchestrator.py`, `rpc_server.py`
and `main.py` in `agent/`, `knowledge_updater.py` and `llm_client.py` in
`tools/`.

To repeat a run: `tlc -workers 2 -config MCChainStore_single.cfg MCChainStore`.
To repeat the proofs: `tlapm ChainStoreProofs.tla` (and `NodeProofs`,
`FinalityProofs`, `PeerNetworkProofs`, `ArithmeticProofs`, `DifficultyProofs`,
`ConfidentialProofs`, `ResearchProofs`). `PROJECT.json` lists the runs, the
theorems, and for every definition the lines it stands for.

## 1. The system

A node is one Python process; so is every other command of `main.py` (mine,
send, stake, vote, ...). They share three files: `chain.db` (blocks, unspent
outputs, validators, checkpoints), `agent_memory.db` (mempool, key-value store,
events) and the Markdown file of the knowledge updater. There is no lock
between them beyond what SQLite does for a single commit, and the program makes
many commits per operation. That, the asyncio peer network, and the arithmetic
of confidential transactions and difficulty are where it can go wrong.

| Component | State | Operations | Hard behaviour | What makes it correct |
|---|---|---|---|---|
| Chain database (`Blockchain`, `UTXOSet`) | blocks, `chain_meta.tip_hash`, utxos; cached tip and height | open, validate_block, apply_block, genesis | two connections commit separately; a stale cached tip; failure or end inside apply_block | stored blocks are linked and permanent; the tip is stored and highest; the unspent outputs match the chain except where an unfinished block has been |
| Mining and mempool (`MiningEngine`, `Orchestrator.mine_block`, `MemoryManager`) | mempool, saved tip, checkpoint rows | send, receive, template, mine, submit, clear, save | two databases, a commit per row; retries of a rejected block | no transaction is lost; the saved tip is on the chain; what can be mined is mined |
| Finality (`ValidatorRegistry`, `HybridConsensus`) | validators, checkpoints | register, submit_vote, slash, submit_block | read-change-write of a row in several queries; processes race and end | no vote counts twice, only equivocators are slashed, finality is permanent and needs two thirds |
| Peer network (`BitchchainNode`) | `_peers`, `_writers`, `_known_blocks` | dial, accept, handshake, broadcast, peer loop, stop | coroutines interleave at awaits; keys are reused; connections die | the table names exactly the live connections; blocks go to every shaken peer |
| Difficulty and reward | bits and times of the chain | get_next_bits, target_to_bits, compute_block_reward | compact form, clamps, clocks that go back | the target moves with the pace and within bounds; the issue is capped |
| Confidential transactions (`privacy_layer.py`) | none between calls; a transaction travels from sender to verifier to recipient | build, verify_balance, verify_range_proofs, decode, sign, verify | zero draws, points at infinity, group order, nonces that are drawn again | honest ones verify, altered ones do not, signatures verify, decoding is right |
| Knowledge updater and research sync (`KnowledgeUpdater`, `run_research_sync`) | the Markdown file, seen hashes; `research.latest_synthesis` | fetch, rank, append, mark; ask, fall back, store | failing sources, ends between write and mark, two updaters, models that fail | no row twice, nothing lost, a synthesis whose papers are on record, an end of every sync |
| LLM client | the provider and the attempt of a call | ask, ask_json | retries and fallback nest | every call ends with an answer or a text that says there is none |
| Node lifecycle and JSON-RPC server (`start_node`, `stop_node`, `JSONRPCServer`) | running flag, sockets, the request being served | start, stop, single calls and batches | ends inside a request, a batch that fails half done, requests that wait while a block is mined | what was answered stays true, every request ends |
| Wallet, scripts and HTLC, model manager, benchmark, command line | keys; strings; model cache | | | not modelled (section 8) |

How they interact: the orchestrator calls the miner, which reads the
blockchain's cached tip and difficulty; `submit_block` calls `apply_block` and
then opens a checkpoint; the orchestrator clears the mempool, saves the tip and
creates a broadcast task on the event loop. The peer network calls back
`_on_block_received` (which only logs) and `_on_tx_received` (which fills the
mempool, in a thread of the pool). An RPC handler calls the orchestrator in the
event loop and waits for nothing, so mining holds up all other requests.
Commands in other processes meet the node only through the files.

## 2. Modules

| Module | Models | |
|---|---|---|
| `BlockTree` | what a block store promises | abstract specification of `ChainStore`, twice: a tree for any number of processes, a log for one |
| `ChainStore` | `Blockchain`, `UTXOSet`, processes opening and ending | `MCChainStore` |
| `TxLifecycle` | what becomes of an ordinary transaction | abstract specification of `NodeMining` |
| `NodeMining` | `Orchestrator.mine_block`, mempool, notes after the block; EXTENDS `ChainStore` and runs its actions | `MCNodeMining` |
| `NodeService` | `start_node`, `stop_node`, the JSON-RPC server and its clients; EXTENDS `NodeMining` and runs its actions | `MCNodeService` |
| `FinalityRules` | the finality layer with every call in one step | abstract specification of `Finality` |
| `Finality` | the same calls query by query, by several processes | `MCFinality` |
| `PeerNetwork` | several `BitchchainNode`s and TCP | `MCPeerNetwork` |
| `Confidential` | `privacy_layer.py` from sender to recipient | `MCConfidential` |
| `Difficulty` | compact bits, retargets, rewards | `MCDifficulty` |
| `KnowledgeUpdater` | updaters over one file | checked through `ResearchSync` |
| `ResearchSync` | `run_research_sync` and `llm_client.py` beside crawlers; EXTENDS `KnowledgeUpdater` and runs its actions | `MCResearchSync` |
| `Arithmetic` | powers; EXTENDed by `Confidential` and `Difficulty` | checked with `Difficulty` |
| `ChainStoreProofs`, `FinalityProofs`, `PeerNetworkProofs`, `DifficultyProofs`, `ConfidentialProofs` | theorems about the module of that name (section 7) | |
| `NodeProofs` | theorems about `NodeMining` and `NodeService` | |
| `ResearchProofs` | theorems about `KnowledgeUpdater` and `ResearchSync` | |
| `ArithmeticProofs` | lemmas on powers, sums over sets and remainders, for `FinalityProofs`, `DifficultyProofs` and `ConfidentialProofs` | |

An action is one handler up to the next point at which something else can
happen: a commit, an await, the end of the process. Definitions that a comment
calls a *variant* are never part of a specification. Each is a plausible bug in
the definition that follows it and the comment names the property that
catches it when it takes that definition's place.

**ChainStore.** `blocks`, `tipHash` and `utxos` are durable; `tip` and `height`
are the cache of `Blockchain`, `job` is the `apply_block` a process is in.
`Open` is `_load_tip`; `Mine` proposes a block on the cached tip with any body
offered; `SelectInput` and `DeleteInput` are the two statements of
`spend_input`; `AddOutputs` is one commit per transaction; `StoreBlock` is the
commit of the row and the tip and the update of the cache; `RejectBlock` is
`return False` on a missing input. `Exit` ends a process anywhere. `abandoned`
is a ghost: the transactions that unfinished calls had reached. Hashes are
opaque, and one name always means one block.

**NodeMining.** `MineBlock` takes the window `get_mempool` returns, drops what
`TxInput(**i)` cannot rebuild, sorts and fills as `build_block_template` does
(with its size estimate, and with the fee that a `Transaction` does not have),
and starts `apply_block`. Then `AddCheckpoint`, `ClearOne`, `SaveTipHash` and
`SaveTipHeight` each commit on their own. `EndNode` may come between any two.
`ImplementsLifecycle` maps it to `TxLifecycle`: the pool is the ordinary part
of the mempool, and what is mined is what the stored blocks hold; storing a
block is `Confirm`, `ClearOne` is `Release`.

**NodeService.** One process owns the port. `exchange` is each client's last
request with the replies made so far; `serving` is the client the event loop
is at. `Read` is `_handle_rpc` up to the parsed body, `Handler` one call of
`_dispatch` at a time; `startmining` is many steps, since the node can be
killed within it and other processes act meanwhile, but no other request is
served before it ends. `NotAnObject` is the element of a batch at which
`request.get` raises. `BeginStop` and `EndStop` are `stop_node`: what is being
served is finished, and what waits is dropped if it is not read in between;
`Kill` may come anywhere. `spoiled` is a ghost: a kill cut `mine_block` off, or
a transaction was sent again.

**Finality.** `BeginVote`, `ReadTotal`, `ReadRow` and then `Slash`,
`IgnoreRepeated` or `RecordVote` are the queries of `submit_vote` and
`process_vote`; the last writes the whole row that was read back. `StoreBlock`
and `OpenCheckpoint` are the two commits of `submit_block`. The two thirds are
compared exactly; for stakes below the coin supply the double comparison of the
code gives the same answers.

**PeerNetwork.** What a coroutine does between two awaits is one step. `link`,
`live` and `wire` are TCP: a connection is queued, dialing, open, accepted; its
ends are read by peer loops; bytes arrive in order or are lost when an end
closes. `peers` is `_peers` with `_writers`. A broadcast keeps its copy of
`_writers` (`todo`) and the drain it waits for (`pending`). `met` and `heard`
are ghosts.

**Confidential.** The point r\*G + v\*H is the pair of its coefficients, modulo
the order: exactly what can be computed by someone who does not know the
logarithm of H. The point at infinity has no encoding, so a commitment at
infinity raises. Challenges and the draws of the prover are arbitrary.
`received` is what the verifier and the recipients get: what was built, or that
with one value altered (`Alter`: a commitment, any value of one bit's proof, the
last bit lost, another form of proof), or with the proofs dropped as
`CTTransaction.to_dict` drops them (`ToDict`). A proof is of one of the forms
that `verify_range_proofs` tells apart: `RangeProofData`, nothing, a string that
begins as a stub, another string. As in the code a stub is accepted, and of a
proof the verifier checks no more than `RangeProof.verify` does. For the
signature the abscissas of the multiples of G are those of a real curve of the
same order, so that r can be zero or wrap; a nonce is a pair, the first draw
and the one made if the first is unusable.

**Difficulty.** A hex digit has base `Digit` and a target `Digits` of them, so
that the rounding and masking of the compact form happen with small numbers.
Mining and regtest mining append a block with any pace of the clock. `Power`
of `Arithmetic` is exponentiation, written out because the proof system knows
little of `^`; `MCDifficulty` compares the two. `Confidential` uses it too.

**KnowledgeUpdater.** A paper is its URL; a run asks the listings one after the
other, ranks, appends one section, and marks. A source may fail anywhere in its
answer. `Torn` papers are those whose URL the pattern of `_load_seen_hashes`
cuts short. The ranking is over positions of the papers found (`Top`,
`Ranked`), because a paper found twice is ranked twice.

**ResearchSync.** `StartSync`, `RunUpdater` and the actions of the updater are
the first half of `run_research_sync`, `AskAboutNew` to `StoreSynthesis` the
second. `prompt` is a call of `ask`: `Retry` is the loop of `_call_provider`,
`FallBack` that of `ask` with the text at its end. A sync can be killed at any
step. Crawlers of other processes run beside it on the same file.

## 3. Runs

| Run | Instance | Shows |
|---|---|---|
| `chain_single` | 1 process, 3 hashes, 4 transactions (a family of three generations, one that needs two parents), 2 per block, height 2 | `ImplementsLog`; `TipIsHighest`; `StoredAfterEffects`; `DamageConfined`: the unspent outputs differ from those of the chain only on outpoints of transactions that a failed or cut block had reached or that the chain has twice, and it has none twice before a block has failed |
| `node_single` | 1 process, 3 hashes, two conflicting and one confidential transaction, window 2, a block that holds only some | `NoTxLeavesChain`: what is submitted is in the mempool or on the chain; `SavedTipOnChain`; `SpentOnceUntilFailure`: no outpoint is spent twice, and nothing is mined twice, before a block has failed |
| `node_shared` | 2 processes, 2 hashes, height 1 | `NodeTypeOK`, `ChainInv`, `ImplementsTree`, `ImplementsLifecycle` |
| `node_live` | 1 node, an operator and a user, single calls and batches (with an unknown method and an element that is no object), two independent transactions, height 2, window 1, one stop or kill | `RepliesHold`, `RequestAnswered`, `SubmittedIsMined` |
| `votes_shared` | 2 processes, 2 validators, 2 sources, stakes 1 and 2, one checkpoint | `TypeOK`, `OneVoteEach`, `TallySound`, `OnlyEquivocatorsSlashed` |
| `votes_single` | 1 process, 2 validators, stakes 1, 2, 4, a checkpoint and another block | `AtomicVotes`, `FinalIsFinal`, `FinalizedHasActiveQuorum`, `FinalizedWhenMet` |
| `network` | 2 nodes, 2 connections or attempts, 1 block, 2 seeds, `MaxPeers` 1 | `TypeOK`, `TableExact`, `KnownWasSent`, `BlockAfterHandshake`, `Delivered` |
| `confidential` | order 13 (the curve y² = x³ + 14 modulo 19), 2 bits, amounts 0, 2, 3, 4, one pair of inputs (4 and 2), up to 2 outputs, draws 0 and 5, three pairs of nonces, every alteration of one value to a draw or one of two points | `TypeOK`, `HonestVerifies`, `AlteredRefused`, `SignatureHolds`, `DecodeSound` |
| `difficulty` | bytes of base 4, interval 2, halving every 2, height 6, pace -1, 2, 8, 200 | `TypeOK`, `RewardCapped`, `TargetBounded` |
| `knowledge` | 1 syncing node and 1 crawler, 2 listings, 2 papers (one listed twice, one torn), 2 new entries, 3 sections, 2 providers (one without a key), 2 attempts | `TypeOK`, `NoRowTwice`, `SeenIsRecorded`, `SynthesisRecorded`, `SyncEnds` |
| `double_spend` | 1 process, a family of 4 transactions, height 2 | a violation of `NoDoubleSpend` |
| `retarget` | as `difficulty` | a violation of `PaceKept` |

Why these bounds are enough. Height 2 and three hashes give a genesis block, a
block on it, a block on that, and a competitor for each; a body of two lets a
block fail after its first transaction has taken effect, and a transaction with
two inputs lets it fail in the middle of one. Two processes suffice for a race,
since the code compares a process's cached or read values only with the file;
the proofs do not bound them. `votes_single` registers
stakes of 2 and 4 (1 is below the minimum), so that 4 of 6 are exactly two
thirds of the active stake, 2 of 4 and 2 of 6 are less, and a validator that is
alone has all of it. `votes_shared` has no exact two thirds. In the network two nodes can dial each other at
the same time, or one can dial the other twice, which are the cases with two
connections between one pair. An
interval of 2 with height 6 has three retargets; `Pace` has a clock that goes
back and periods under a quarter of the plan and above four times it. In the
confidential run a range proof of 2 bits has one free and one computed
blinding and amount 4 is just out of range. The search for an amount ends at
its giant step; that steps past zero of the group yield nothing is left to the
theorem `DecodedIsSent`, which covers the amounts above `max_value`. The two
points of `Others` are another commitment and one with no blinding; the nonces are one that is good at once (and yields an s of zero for one of the
digests), one that must be drawn again, and two that both fail. In `node_live`
a window of one lets a transaction wait behind another, and one end of the node
can hit every request in every state. A paper listed twice and two new entries
are enough for a row to be dropped, kept twice, or forgotten, and three
sections for a restart between two of them.
Bounds are constants named in the modules: `MaxHeight`, `MaxEnds`, `Batches`,
`Bodies`, `Conn`, `Block`, `MaxSections`, `MaxOutputs`, `Random`, `Amounts`,
`Inputs`, `Keys`, `Others`, `Nonces`, `Pace`, `Stake`.

Deadlock is checked where processes can always reopen or end. It is not in
`network`, `confidential`, `difficulty`, `knowledge`, `node_live` and
`double_spend`, where the system comes to rest at a bound: all blocks
broadcast, a transaction decoded, the chain at its height, the file full.

Symmetry is used for hashes, processes, validators and sources, which the code
only compares; never in a run with a liveness property.

## 4. What was assumed of the environment

* SQLite: a commit is atomic and durable and commits are ordered.
* One process is one thread that makes one call at a time on the chain
  (`ChainStore`, `Finality`). The RPC server and the peer loops of a node run
  in the same event loop.
* One process owns the RPC port (`NodeService`): a second node could not bind
  it. Other processes still mine, send and vote in the other runs.
* Scores do not change while the updater's model runs, and a section is written
  at once: it is one `write` to an open file.
* `KnownSpec` (run `votes_single`): votes are cast for blocks that are stored.
  Without it a vote may make a row before the block exists, and opening the
  checkpoint replaces it (section 6).
* `network`: seeds do not give a node its own address (it would connect to
  itself, and both ends would have entries of their own). Two seeds may give it
  one address, and then two of its connections can share a key (`Shared`);
  `TableExact` for the caller, `KnownWasSent` and `Delivered` except those.
* `calm` (in two properties of `votes_single`): they speak of the time before
  anyone is slashed or registers a second time.

## 5. Fairness

* `ServiceSpec` (`RequestAnswered`, `SubmittedIsMined`): weak fairness of the
  node's own steps, which are the event loop going on and the node being started
  again after it has ended; strong fairness of reading each client's request
  (the loop serves other requests in between) and of a mining request that
  finds a nonce (it may fail, but not for ever); weak fairness of the operator,
  who looks at the answers and asks for a block while there is something to
  mine. The code mines only when asked, so without an operator nothing is
  mined. Stops and kills have no fairness and are bounded by `MaxEnds`.
  `SubmittedIsMined` lets the obligation go once a kill has cut `mine_block`
  off or a transaction has been sent a second time, and none of its
  transactions conflicts with another: what happens otherwise is in section 6.
* `FairSpec` (`Delivered`): weak fairness of the next step of a broadcast, of
  accepting a caller, of reading what has arrived, and of the return of
  a drain *once the other end has read the bytes*. Those are what an event loop
  and TCP guarantee to a program that keeps running. Nobody is assumed to dial,
  to mine, to close or to stop. `Delivered` lets the obligation go when an end
  of the connection is gone.
* `ResearchSpec` (`SyncEnds`): weak fairness of the syncing node's next step.
  Every request to a listing or a model has a timeout, so each of them returns
  or raises; which it does is not constrained.

## 6. Where the program and its documents disagree

Shown by a run:

* **One outpoint is spent twice** (`double_spend`). `SECOND-KNOWLEDGE-BRAIN.md:13`
  says each output can be referenced once. A block whose second transaction
  lacks its input leaves the outputs of its first in the table
  (`blockchain_core.py:353`). In the trace the block with `fund` and `late` is
  rejected, because `late` spends an output of `grab`, which has not arrived;
  the output of `fund` is left behind. Then `grab` arrives, and since the
  template is sorted by value it comes first: the block `grab`, `fund`, `late`,
  `again` is accepted. `grab` spends the output that was left behind, `fund`
  makes it a second time (`INSERT OR REPLACE`, `:190`) and `again` spends it a
  second time, all in that one block.
* **Difficulty moves the wrong way** (`retarget`). `SECOND-KNOWLEDGE-BRAIN.md:17`
  says it maintains the average block time. `get_next_bits` scales the target
  of the block one interval back instead of the one in force
  (`blockchain_core.py:405`; at the first retarget this is the genesis block's
  easy target), and `target_to_bits` drops bits.

Met while modelling and part of the models, without a run of their own:

* `apply_block` is not atomic, against the comment at `blockchain_core.py:349`;
  `DamageConfined` says what holds instead. The damage spreads: once a failed
  block has brought an outpoint back, its spender and that one's descendants
  can be mined again, and each of them may differ too.
* A second process with an older cached tip mines on it and moves the durable
  tip to a lower block; `TipIsHighest` holds for one process only. Two
  processes may both find one row of the unspent outputs and both delete it
  (`blockchain_core.py:204-210`), so that both spends succeed; no property here
  speaks of the unspent outputs of several processes.
* A transaction whose input is gone is never evicted and fails every later
  block (`orchestrator.py:131`; `PROJECT-DEVELOPMENT-PHASE-TRACKING.md:64`
  lists mempool eviction). Confidential transactions are never mined
  (`orchestrator.py:113`; `tests/test-scenarios.md:24`).
* The template is ordered by output value, not by fee rate, and its size
  estimate omits the list separators (`consensus_engine.py:234-241`).
* A slashed validator's votes keep their weight; after a slashing a checkpoint
  may have two thirds and not be final, or be final without
  (`consensus_engine.py:178`, `:190`). Votes for two blocks of one height are
  both counted (`:176`), and votes finalize targets that are no checkpoints
  (`:189`).
* A vote that another process records between the read and the write of a
  row is lost (`consensus_engine.py:186`), and the two thirds are taken of a
  total that may have changed since it was read (`:330`).
* Opening a checkpoint replaces its row (`consensus_engine.py:318`): a vote of
  another process that came between the block and its checkpoint, and even the
  finalization it caused, is undone.
* Two dials of one address end with one entry and two connections; the peer
  loop that ends first removes the other's entry; that connection stays open,
  its messages are ignored and it gets no block
  (`network_node.py:207`, `:256`; `PROJECT-detail.md:83`).
* Amounts up to 10,000,000 are decoded one too low (`privacy_layer.py:361-364`);
  larger multiples of the table size are not decoded at all (`:344`). A fee of
  zero raises (`:218`).
* `verify_balance` accepts any nonzero excess (`privacy_layer.py:452-454`),
  whatever the amounts, and so also a tampered output.
  `PROJECT-DEVELOPMENT-PHASE-TRACKING.md:49` says that the balance proof fails
  for tampered outputs, and `privacy_layer.py:6` that it means equal sums. The
  test for it (`tests/test_agent.py:298`) asks `verify_range_proofs`, as
  `AlteredRefused` does.
* `privacy_layer.py:7` says that a range proof shows each bit to be 0 or 1. What
  `verify_range_proofs` accepts shows less: any string that begins with
  `STUB_RANGE_PROOF_v0:` is accepted with a warning (`:469`), and
  `RangeProof.verify` (`:284-310`) recomputes no challenge and asks neither for
  the number of the bits nor for their values. Acceptance therefore says
  nothing about a proof that `create` did not make, and no property here says
  that an accepted amount is in range. `AlteredRefused` is about what `create`
  made, with one alteration.
* `CTTransaction.to_dict` puts the word "embedded" in the place of every proof
  (`privacy_layer.py:387`), so a transaction that is read back from it is
  refused (`:472`).
* The knowledge file gets a paper twice when it is in two listings of one run,
  when two updaters have read the file before either wrote, or when its URL
  holds a character the pattern stops at (`knowledge_updater.py:58`, `:234`).
* `verify_live_crawl` takes every new entry of its second run for a duplicate
  (`knowledge_updater.py:316`); with listings that fail, a second run finds
  papers that the first has not seen.
* The result of a crawl has titles, links and scores only
  (`knowledge_updater.py:258`), so the abstracts and authors in the prompt of
  the synthesis are empty (`llm_client.py:65`). The synthesis goes to the
  key-value store (`orchestrator.py:239`), not into the knowledge file
  (`PROJECT-DEVELOPMENT-PHASE-TRACKING.md:113`). When no model answers, the
  text that says so replaces an earlier synthesis. Papers of a sync that ended
  before the synthesis was stored are in no later one.
* `rpc_server.py:49` promises batches and error handling as in JSON-RPC 2.0. An
  element that is no object fails the whole batch (`rpc_server.py:257`), after
  the calls before it have taken effect and without their results.
* A transaction that is sent again after it was mined, as by a client whose
  connection was lost, goes back into the mempool (`rpc_server.py:162`) and
  then spoils every block.
* `stop_node` closes the memory's connection and then logs to it
  (`orchestrator.py:100`, `:103`). An interrupt of `start-node` need not reach
  its `except` (`main.py:54`), which is in a coroutine; the node then ends
  without `stop_node` (`Kill`).
* Decoding an address drops its leading zero byte and does not put it back
  (`wallet.py:113-122`), so the checksum of every main-net address fails,
  against the docstring at `wallet.py:107`. The commands never decode one.

## 7. What is proved

The constants are arbitrary within the named assumptions of the modules: any
number of processes, blocks, transactions, clients, validators, stakes, nodes,
connections, papers, listings and providers, any length of a block and of a
chain. What the assumptions say is that names of different kinds differ
(`ChainAssumption`, `NoneAssumption`, `NoCallAssumption`, `NoLinkAssumption`),
the kind of each parameter, that an interval, a halving and a number of
attempts are not zero, and for `Confidential` that the group has a prime order
larger than the amounts.

A theorem for one process says so in its hypothesis, `Process = {p}`; with two
the statement is false, as sections 3 and 6 say.

**ChainStore.** `TypeCorrect` is inductive by itself, with lemmas on the type
of a job. `ChainCorrect` proves `ChainInv`, whose four parts need each other: a
stored block is linked because the job that stored it builds on its process's
tip (`JobsOnTip`) and that tip is a stored block of the cached height
(`CachesStored`); a cache stays right because stored blocks never change, for
which a hash that is stored again must name the same block (`Names`). From it
every step is a step or a stutter of `BlockTree` (`TreeRefinement`). For one
process `LoneInv` adds that the cache equals the durable tip and that no block
is higher; it gives `LogRefinement` and `LoneTipHighest`.

*The ledger of one process.* `DamageIsConfined` needs to know what the table
holds in the middle of a block. `LedgerInv` says so with `Agree`: outside the
damage an outpoint is in the table exactly if a transaction that has been
applied creates it and none that has been applied spends it, where those of the
current job up to its position count as applied (`JobDone`) and the inputs of
the transaction at hand up to the next one as spent (`Spending`). Beside it
stand `WholeChain` (all stored blocks are on the chain), `ShapeInv` (a body
begins with the coinbase of its height, so a coinbase occurs once) and
`OnceInv`: as long as nothing was abandoned nothing occurs twice, because the
first input of a second occurrence would have been missing.
`StoredAfterItsEffects` follows from `EffectInv`, which speaks of the job alone.

**NodeMining.** Every step is a `ChainStore` step or leaves its variables alone
(`NodeRefinesChainStore`), so all theorems above carry over.
`NodeTypeCorrect` also needs the call and the job of a process to agree.
`NothingVanishes` is `NoTxVanishes` for any number of processes; alone it is
not inductive, since clearing the mempool could lose a transaction, so
`KeepInv` adds `TodoMined`: what a process has still to clear is in a stored
block, or in the block it is applying. `LifecycleRefinement` shows every step
to be one of `TxLifecycle` or a stutter. For `Confirm` it needs `WorkWaits`:
what is in a block that is being applied is in the mempool or in a stored
block, which other processes keep true by clearing only what they have stored.
For one process, `NothingLeavesChain` combines this with `WholeChain`;
`SavedTipIsOnChain` needs `CallInv`, which says at each stage of `mine_block`
how far the saved hash and height may be behind the chain.
`DoubleSpendNeedsFailure` is the other half of the run `double_spend`: if every
transaction spends something, no outpoint is spent twice on the chain, and no
transaction is on it twice, unless some call of `apply_block` failed or was cut
before.

**NodeService.** `ServiceRefinesNode`: every step is one of `NodeMining` or
leaves it alone, so the theorems above hold of the node that clients see.
`RepliesStayTrue` is `RepliesHold`, for a node that no other process disturbs.
What a reply promises (`Kept`) is true when it is given and grows with the
mempool, the chain and the height; that these only grow (`Grows`) is
`NoTxVanishes` and `TipIsHighest` seen as steps. `ServeInv` also covers the
replies that are computed and not yet sent.

**Finality.** `TypeCorrect`; `OneVotePerRow`, by `OnceInv`, which says the same
of the copies of rows that calls hold and write back later; `OnlyGuiltySlashed`, by `CastInv`: every vote in
a row or a copy was cast by its validator, with its source. With one process
`LoneVotesAtomic` proves that the staged calls implement `FinalityRules`: by
`LoneInv` what a call has read is still what is stored when it writes, and the
step that writes maps to `CastVote`, all others to stutters.

*The tallies.* A tally is a sum over a set of votes by a fold. The library's
induction theorems cannot be used here, so what is needed of sums (that a sum
is that of the rest and one element, whichever it is; that equal weights give
equal sums; that a sum over a part is no more) is proved by taking the least
size of a counterexample. `TallyAddsUp` is then proved for any number of
processes: `SoundInv` says the same of every row and of every copy that a call
holds, namely that its tally is the sum of the weights of its votes and, while
`calm`, the stake of its voters; `StakesMove`, `RowsMove` and `BallotsMove` are
its three kinds of step. For one process `MetIsFinal` needs `MetInv`, which
holds also while a vote is under way (the tally that reaches two thirds is
written together with the flag), `FinalityIsBacked` shows the two thirds of the
active stake at the step that finalizes, and `FinalityStays` is permanence under
`KnownSpec`, by `FreshInv`: a block whose checkpoint is yet to be opened has no
row.

**PeerNetwork.** One invariant, `NetInv`, carries four properties:
`NetworkTypes`, `TableStaysExact`, `HandshakeBeforeBlock` and `NotedWasSent`.
`LinkOK` fixes, for each stage of a connection, which ends may be live and what
may be on the wire; `TableInv` that table entries and live ends match; `CastOK`
that the writers a broadcast has copied are still those of their keys, even if
their connections have ended since; `SentInv` where a block is that was written. Two connections of a
caller to one address (`Shared`) are the difficulty. That they are shared may
stop being true when one of them is forgotten, so the invariant is stated with `Twin`,
which looks at the present state, and each action shows what it does to twins.

**Difficulty.** `TargetStaysBounded` rests on lemmas on `Power` (it obeys its
recursion and is positive) and on the compact form: encoding never yields a
larger target than it was given, and decoding stays in the naturals. The clamp
of the elapsed time then gives the factor of four.
`CoinsAreCapped` needs `CapInv`, which carries the amount issued so far through
the halvings: each period pays at most half of what the one before it could
pay. It is multiplied out, since the shift rounds down.

**Confidential.** The lemmas of `ArithmeticProofs` are the base: remainders,
sums of congruent terms, and that every number below a prime has an inverse,
since the least positive combination of the two divides both. So the last bit's
blinding exists, which `TypeCorrect` needs. `CTInv` keeps, from the sender's
draw to the recipient, how each commitment was made of an amount and a
blinding, that what arrives is what was built, or that with one alteration, or
that without its proofs (`ArrivedOK`), and what each check has answered.
`AlteredIsRefused` is `AlteredRefused` for every group, number of bits and
alteration. Both what was built and what has arrived would have to satisfy the
same equations, which differ in one value; that value is multiplied by a power
of two, a challenge or a blinding factor, all with inverses modulo the order, so
it cancels to the value that was built (`Cancels`, `BitCompares`, `SameSummand`).
A lost last bit is a summand that is not zero (`LastBitCounts`). A challenge or
a blinding that was drawn as zero has no inverse, and the property excepts it
(`Binding`). `DecodedIsSent` shows that the search of `decode` returns the amount or
nothing: two multiples of H that are equal have equal factors modulo the order.

`SignedCanBeVerified` needs `SignInv` (a signature was made with a key, or with
the excess of the transaction it stands in): the public nonce is recovered from
s and from its negative alike, and the two sides of a transaction differ by the
excess in their blinding factors (`SumsOfSides`). `HonestPasses` shows that
create's proofs verify, because the bits of a value in their places add up to
it (`BitsAddUp`) and their blindings to that of the commitment
(`BlindingsAddUp`). Its hypothesis is that no inputs are worth as much as the
order of the group: a side that added up to the point at infinity would be
refused. The order is near 2^256 and all coins are under 2^52, and an amount of
zero is excluded by the fee, which must not be zero.

**Research sync.** `SyncIsUpdater`: every step of a sync is one of the updater
or leaves it alone, so what is proved of one holds of the other; `TypeCorrect`.
`SeenRecorded` is proved from `SeenInv`, which adds that an updater about to
mark has its entries in the file. `NoSecondRow` needs `OnceInv`: the rows of a
process in the file are seen by its updater or torn (`OwnRowsSeen`, for which
what is written but not yet marked counts as seen), and what a run has found
and not yet written was unseen when the run began (`FoundIsUnseen`); a row
could otherwise be repeated between the write and the mark. `SynthesisOnRecord`
follows from `PromptInv`, which carries one section through the mark, the
prompt and the stored synthesis.

**Only model-checked.** Liveness (`SubmittedIsMined`, `RequestAnswered`,
`Delivered`, `SyncEnds`) is out of the proof system's reach. `NoDoubleSpend` and
`PaceKept` are false. All other properties of the runs are theorems.

## 8. What is not modelled

* **Foreign blocks.** `_on_block_received` only logs, so `apply_block` sees the
  node's own blocks; the proof-of-work, root and timestamp checks of
  `validate_block` always pass for them.
* **Other methods of the RPC server** only read and answer; they are like
  `getrawtransaction` and `getblockcount`; `stopmining` does nothing.
* **Wallet.** Nothing in the program makes a `Wallet`; the commands take
  addresses as text. Derivation and encoding are pure functions of hash
  libraries. Its signing is `_ecdsa_sign`, which `Confidential` models.
* **Scripts and HTLC.** Strings, built for the benchmark; nothing executes a
  script.
* **LLM client.** `stream`, which has no fallback, and the other prompts,
  which are `ask` with another text.
* **Model manager, benchmark, command line.** A cache of models that libraries
  load and nothing else calls; measurements with throw-away files, whose report
  in the knowledge file holds no URL; parsing and printing.
* **`broadcast_tx`**, which nothing calls, and the replies to ping, getaddr and
  inv, which change no state.
* **Hash-to-curve** of the generator H and the text form of points.

## 9. Plan

Done, in this order: the chain database, mining over it, finality, their
proofs; the network, confidential transactions, difficulty and the updater;
the life cycle of a transaction, the node as its clients see it, the research
sync with its models and the signature; the proofs of the life cycle and of the
sync; the proofs of the ledger, of the replies, of the network, of the tallies
and of all of `Difficulty` and `Confidential`. What is left:

1. Properties for the hazards that have none, once the code is such that one
   holds: confidential transactions that stay in the mempool for ever
   (`orchestrator.py:113`), the separators that the template's size leaves out
   (`consensus_engine.py:239`), votes for two blocks of one height
   (`consensus_engine.py:176`), a stale total (`:330`), and one row that two
   processes delete (`blockchain_core.py:204`).
2. The parts that section 8 names; of these only foreign blocks would change
   the chain.
