---------------------------- MODULE NodeService ----------------------------
(***************************************************************************)
(* A running node as its users see it: start_node and stop_node of         *)
(* src/agent/orchestrator.py around the JSON-RPC server of                 *)
(* src/agent/rpc_server.py, over NodeMining's mempool and mine_block.      *)
(*                                                                         *)
(* One process owns the port.  Its event loop answers one HTTP request at  *)
(* a time, a single call or a batch: no handler waits for anything after   *)
(* the body has been read, so startmining holds the loop until its block   *)
(* is stored and cleared or refused.  Transactions from peers come through *)
(* a thread pool and from other commands through the files, in between.    *)
(* The node may be stopped or killed at any point; its clients lose their  *)
(* connections and try again, or do not.                                   *)
(***************************************************************************)
EXTENDS NodeMining

CONSTANTS
  Server,    \* the process that runs start-node
  Client,    \* clients of the RPC port, one connection each
  Operator,  \* the client that asks for blocks
  Batches,   \* Client -> the bodies it may post, sequences of calls
  MaxEnds    \* bound: times the node is stopped or killed

(* A call of a batch; "junk" stands for what is not an object.             *)
Request == [method : {"send", "find"}, tx : Tx]
             \cup [method : {"mine", "count", "unknown", "junk"}]

ASSUME ServiceAssumption ==
  /\ Server \in Process /\ Operator \in Client /\ None \notin Client
  /\ Batches \in [Client -> SUBSET Seq(Request)]
  /\ MaxEnds \in Nat

VARIABLES
  phase,     \* the node: "down", "running" or "stopping"
  serving,   \* the client whose request the loop is at, or None
  exchange,  \* each client's last request and what came back
  ends,      \* times the node has ended
  spoiled    \* ghost: a kill cut mine_block off, or a call sent a transaction again

serviceVars == <<phase, serving, exchange, ends, spoiled>>
serverVars == <<allVars, serviceVars>>

(* "sent" is a request that waits or is served, "done" one with a response,*)
(* "failed" HTTP 500, "lost" a connection that was closed.                 *)
Quiet == [state |-> "idle", batch |-> << >>, valid |-> TRUE, replies |-> << >>]

ServiceInit ==
  /\ NodeInit
  /\ phase = "down" /\ serving = None
  /\ exchange = [c \in Client |-> Quiet]
  /\ ends = 0 /\ spoiled = FALSE

-----------------------------------------------------------------------------
(* The life of the node.                                                   *)

OpenService == OpenNode(Server) /\ UNCHANGED serviceVars

(* start_node: the genesis block on an empty chain, then the sockets.      *)
StartGenesis == phase = "down" /\ StartNode(Server) /\ UNCHANGED serviceVars

Listen ==
  /\ phase = "down" /\ Server \in up /\ job[Server] = None
  /\ height[Server] >= 0
  /\ phase' = "running"
  /\ UNCHANGED <<allVars, serving, exchange, ends, spoiled>>

(* Every connection is closed; what was on its way is lost.                *)
HangUp ==
  /\ phase' = "down" /\ serving' = None
  /\ exchange' = [c \in Client |->
       IF exchange[c].state = "sent"
       THEN [exchange[c] EXCEPT !.state = "lost", !.replies = << >>] ELSE exchange[c]]
  /\ ends < MaxEnds /\ ends' = ends + 1

(* A signal ends the process anywhere, also inside mine_block.             *)
Kill ==
  /\ EndNode(Server) /\ HangUp
  /\ spoiled' = (spoiled \/ call[Server] # None)

(* stop_node: the RPC server takes no new request and finishes or drops    *)
(* the ones it has; then the databases are closed under the process, and   *)
(* the log_event that follows ends it.                                     *)
BeginStop ==
  /\ phase = "running" /\ serving = None /\ ends < MaxEnds
  /\ phase' = "stopping"
  /\ UNCHANGED <<allVars, serving, exchange, ends, spoiled>>

EndStop ==
  /\ phase = "stopping" /\ serving = None
  /\ EndNode(Server) /\ HangUp /\ UNCHANGED spoiled

-----------------------------------------------------------------------------
(* Clients.                                                                *)

(* A request with wrong credentials or unparsable text has valid = FALSE.  *)
Ask(c, batch, valid) ==
  /\ phase = "running" /\ exchange[c].state = "idle"
  /\ exchange' = [exchange EXCEPT ![c] =
       [state |-> "sent", batch |-> batch, valid |-> valid, replies |-> << >>]]
  /\ UNCHANGED <<allVars, phase, serving, ends, spoiled>>

(* The client has seen how its request ended.                              *)
Forget(c) ==
  /\ exchange[c].state \in {"done", "failed", "lost"}
  /\ exchange' = [exchange EXCEPT ![c] = Quiet]
  /\ UNCHANGED <<allVars, phase, serving, ends, spoiled>>

(* Somebody may ask for blocks at any time; this operator does it when the *)
(* mempool, or its own batch, has something to mine.                       *)
OperatorAsks(batch) ==
  /\ height[Server] < MaxHeight
  /\ batch[1].method = "send" \/ DOMAIN mempool \cap Plain # {}
  /\ Ask(Operator, batch, TRUE)

-----------------------------------------------------------------------------
(* The server's loop.                                                      *)

(* _handle_rpc has the body of a request.                                  *)
Read(c) ==
  /\ phase \in {"running", "stopping"} /\ serving = None
  /\ exchange[c].state = "sent"
  /\ IF exchange[c].valid
     THEN serving' = c /\ UNCHANGED exchange
     ELSE /\ exchange' = [exchange EXCEPT ![c].state = "done", ![c].replies = <<"error">>]
          /\ UNCHANGED serving
  /\ UNCHANGED <<allVars, phase, ends, spoiled>>

(* Variant without an answer to what is not an object (RequestAnswered).   *)
Unanswered == serving # None /\ UNCHANGED serverVars

Remaining ==
  LET x == exchange[serving]
  IN SubSeq(x.batch, Len(x.replies) + 1, Len(x.batch))

(* _dispatch is at a call of this method.                                  *)
AtCall(method) == serving # None /\ Remaining # << >> /\ Head(Remaining).method = method
Dispatch(method) == AtCall(method) /\ call[Server] = None

Reply(r) ==
  /\ exchange' = [exchange EXCEPT ![serving].replies = Append(@, r)]
  /\ UNCHANGED <<phase, serving, ends>>

(* sendrawtransaction: the fee column is 0.                                *)
SendRawTransaction ==
  /\ Dispatch("send")
  /\ LET t == Head(Remaining).tx
     IN AddToMempool(t, 0) /\ spoiled' = (spoiled \/ t \in submitted)
  /\ Reply("accepted")

(* getrawtransaction looks among the rows of get_mempool.                  *)
GetRawTransaction ==
  /\ Dispatch("find")
  /\ \E w \in Windows : Reply(IF Head(Remaining).tx \in w THEN "found" ELSE "error")
  /\ UNCHANGED <<allVars, spoiled>>

(* getblockcount, from the cached height.                                  *)
GetBlockCount ==
  /\ Dispatch("count") /\ Reply(height[Server])
  /\ UNCHANGED <<allVars, spoiled>>

(* A method that is unknown, or called with wrong parameters.              *)
MethodNotFound ==
  /\ Dispatch("unknown") /\ Reply("error")
  /\ UNCHANGED <<allVars, spoiled>>

(* startmining.  propose_block may run out of nonces, and validate_block   *)
(* refuses a block over the size limit before anything is written.         *)
StartMining == Dispatch("mine") /\ MineBlock(Server) /\ UNCHANGED serviceVars

MiningFails == Dispatch("mine") /\ Reply("error") /\ UNCHANGED <<allVars, spoiled>>

ContinueMining ==
  /\ ApplyProgress(Server) \/ Accepted(Server) \/ AddCheckpoint(Server)
     \/ ClearOne(Server) \/ SaveTipHash(Server)
  /\ UNCHANGED serviceVars

(* Variant that reports a refused block as mined (RepliesHold).            *)
MiningReportsAnyway ==
  /\ AtCall("mine")
  /\ \/ SaveTipHeight(Server) /\ Reply(call[Server].hash)
     \/ Rejected(Server) /\ Reply(call[Server].hash)
  /\ UNCHANGED spoiled

(* mine_block returns, and startmining with it.                            *)
MiningReturns ==
  /\ AtCall("mine")
  /\ \/ SaveTipHeight(Server) /\ Reply(call[Server].hash)
     \/ Rejected(Server) /\ Reply("error")
  /\ UNCHANGED spoiled

(* _dispatch takes request.get("id") before it tests that the request is   *)
(* an object: the exception leaves _handle_rpc and the whole batch fails,  *)
(* whatever its earlier calls have done.                                   *)
NotAnObject ==
  /\ Dispatch("junk")
  /\ exchange' = [exchange EXCEPT ![serving].state = "failed", ![serving].replies = << >>]
  /\ serving' = None
  /\ UNCHANGED <<allVars, phase, ends, spoiled>>

Respond ==
  /\ serving # None /\ Remaining = << >>
  /\ exchange' = [exchange EXCEPT ![serving].state = "done"]
  /\ serving' = None
  /\ UNCHANGED <<allVars, phase, ends, spoiled>>

Handler ==
  \/ SendRawTransaction \/ GetRawTransaction \/ GetBlockCount \/ MethodNotFound
  \/ StartMining \/ MiningFails \/ ContinueMining \/ MiningReturns
  \/ NotAnObject \/ Respond

(* _on_tx_received in a thread of the pool, or a command of another        *)
(* process, at any point of a handler.                                     *)
Arrive(t) ==
  /\ t \notin submitted
  /\ SendTransaction(t) \/ (phase = "running" /\ ReceiveTransaction(t))
  /\ UNCHANGED serviceVars

Running == OpenService \/ StartGenesis \/ Listen \/ EndStop \/ Handler

ServiceNext ==
  \/ Running \/ BeginStop \/ Kill
  \/ \E t \in Tx : Arrive(t)
  \/ \E c \in Client :
       \/ Read(c) \/ Forget(c)
       \/ \E batch \in Batches[c] :
            (c = Operator => OperatorAsks(batch)) /\ Ask(c, batch, TRUE)
       \/ c # Operator /\ Ask(c, << >>, FALSE)

(* The node is started again when it has ended, its loop runs and comes to *)
(* every request, not every search for a nonce fails, and the operator     *)
(* looks at the answers and asks again.                                    *)
ServiceSpec ==
  /\ ServiceInit /\ [][ServiceNext]_serverVars
  /\ WF_serverVars(Running) /\ SF_serverVars(StartMining)
  /\ \A c \in Client : SF_serverVars(Read(c))
  /\ WF_serverVars(Forget(Operator))
  /\ WF_serverVars(\E batch \in Batches[Operator] : OperatorAsks(batch))

-----------------------------------------------------------------------------
(* What an answer says holds when the client reads it, and goes on to hold *)
(* across kills and restarts: an accepted or found transaction is in the   *)
(* mempool or in the chain, a block reported mined is in the chain, the    *)
(* chain is never lower than the height that was told.                     *)
RepliesHold ==
  \A c \in Client : exchange[c].valid =>
    \A i \in DOMAIN exchange[c].replies :
      LET asked == exchange[c].batch[i]
          reply == exchange[c].replies[i]
      IN CASE asked.method \in {"send", "find"} ->
                reply # "error" => asked.tx \in DOMAIN mempool \cup ChainTxs(tipHash)
           [] asked.method = "mine" -> reply # "error" => reply \in Chain(tipHash)
           [] asked.method = "count" -> reply <= blocks[tipHash].height
           [] OTHER -> reply = "error"

(* Every request that is sent ends: with a response, with an HTTP error,   *)
(* or with its connection when the node ends.                              *)
RequestAnswered ==
  \A c \in Client : exchange[c].state = "sent" ~> exchange[c].state # "sent"

(* As long as mine_block is never cut off and nothing is sent twice, every *)
(* submitted transaction is mined at last, though the node may be stopped  *)
(* and killed between requests and requests may fail.  (No two of its      *)
(* transactions conflict, and none needs another's output.)                *)
SubmittedIsMined ==
  \A t \in Plain : t \in submitted ~> t \in ChainTxs(tipHash) \/ spoiled
=============================================================================
