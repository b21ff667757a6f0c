----------------------------- MODULE PeerNetwork -----------------------------
(***************************************************************************)
(* The peer-to-peer side of a node: BitchchainNode of                      *)
(* src/agent/modules/network_node.py, several nodes connected by TCP.      *)
(*                                                                         *)
(* Each node is one asyncio event loop.  What a coroutine does between two *)
(* awaits is one step here; dialing, the peer loops and broadcasts of one  *)
(* node interleave at the awaits.  A node keeps _peers and _writers, two   *)
(* dictionaries with the same keys that are always written together, here  *)
(* one function peers.  The key of an outgoing connection is the address   *)
(* dialed, so two connections to one address share it; the key of an       *)
(* incoming one has the caller's ephemeral port and is unique.             *)
(*                                                                         *)
(* ping, getaddr and inv are answered without any change of state, and     *)
(* getdata, pong and addr are ignored, so none of them appears.            *)
(***************************************************************************)
EXTENDS Naturals, Sequences, FiniteSets

CONSTANTS
  Node,      \* nodes, and the addresses they listen on
  Conn,      \* bound: names for connections and attempts
  Block,     \* bound: blocks that are mined
  Answers,   \* for each node and each of DNS_SEEDS in turn, what a lookup may return
  MaxPeers,  \* MAX_PEERS
  None       \* no connection, no broadcast

ASSUME NetworkAssumption ==
  /\ Node \cap Conn = {}
  /\ None \notin Node \cup Conn
  /\ {"version", "verack"} \cap Block = {}
  /\ Answers \in [Node -> Seq(SUBSET SUBSET Node)]
  /\ MaxPeers \in Nat

Key == Node \cup Conn
Message == {"version", "verack"} \cup Block
Peer == [conn : Conn, done : BOOLEAN, known : SUBSET Block]
(* Stages of a connection: the task of an attempt waits to run, waits for  *)
(* TCP, the caller has the connection, the listener has it too.            *)
Link == [from : Node, to : Node, stage : {"queued", "dialing", "open", "accepted"}]
(* A broadcast: where it has got to, the entries of _writers still to be   *)
(* served, and the entry whose drain it is waiting for.                    *)
Broadcast == [node : Node, stage : {"queued", "sending", "done"},
              todo : SUBSET (Key \X Conn),
              pending : [key : Key, conn : Conn, peer : Conn] \cup {None}]

ASSUME NoLinkAssumption == None \notin Link

VARIABLES
  running,    \* nodes that are running
  unresolved, \* the answers for the seeds that each node has still to look up
  link,       \* each connection, or None for a free name
  live,       \* the nodes whose _peer_loop runs on a connection
  wire,       \* the messages in flight on a connection to a node
  peers,      \* each node's _peers and _writers
  known,      \* each node's _known_blocks
  cast,       \* each block's broadcast, or None
  heard,      \* each node's block_received events
  met         \* ghost: nodes that have handled a handshake on a connection

tcp == <<link, live, wire>>
vars == <<running, unresolved, tcp, peers, known, cast, heard, met>>

Init ==
  /\ running = Node
  /\ unresolved = Answers
  /\ link = [c \in Conn |-> None]
  /\ live = [c \in Conn |-> {}]
  /\ wire = [c \in Conn |-> [n \in Node |-> << >>]]
  /\ peers = [n \in Node |-> << >>]
  /\ known = [n \in Node |-> {}]
  /\ cast = [b \in Block |-> None]
  /\ heard = [n \in Node |-> {}]
  /\ met = [c \in Conn |-> {}]

-----------------------------------------------------------------------------
KeyOf(c, n) == IF n = link[c].from THEN link[c].to ELSE c
Other(c, n) == IF n = link[c].from THEN link[c].to ELSE link[c].from
Full(n) == Cardinality(DOMAIN peers[n]) >= MaxPeers

(* Bytes reach an end that is read or that has still to be accepted; what  *)
(* is written to a closed end is lost.                                     *)
Reaches(c, n) == n \in live[c] \/ (link[c].stage = "open" /\ n = link[c].to)
Written(c, n, msg) == IF Reaches(c, n) THEN Append(wire[c][n], msg) ELSE wire[c][n]

(* _peers[key] = PeerInfo(...) replaces an entry with the same key.        *)
Registered(n, key, c) ==
  [peers EXCEPT ![n] = [k \in DOMAIN peers[n] \cup {key} |->
     IF k = key THEN [conn |-> c, done |-> FALSE, known |-> {}] ELSE peers[n][k]]]
Popped(n, key) ==
  [peers EXCEPT ![n] = [k \in DOMAIN peers[n] \ {key} |-> peers[n][k]]]

-----------------------------------------------------------------------------
(* _connect_to_seeds: one lookup, and a task for each address if there is  *)
(* room.  (The code would dial its own address too; that is left out.)     *)
Resolve(n) ==
  /\ n \in running /\ unresolved[n] # << >>
  /\ unresolved' = [unresolved EXCEPT ![n] = Tail(@)]
  /\ \E found \in Head(unresolved[n]) :
       IF Full(n) THEN UNCHANGED link
       ELSE \E task \in [found \ {n} -> {c \in Conn : link[c] = None}] :
              /\ \A a, b \in found \ {n} : a # b => task[a] # task[b]
              /\ link' = [c \in Conn |->
                   IF \E a \in found \ {n} : task[a] = c
                   THEN [from |-> n, stage |-> "queued",
                         to |-> CHOOSE a \in found \ {n} : task[a] = c]
                   ELSE link[c]]
  /\ UNCHANGED <<running, live, wire, peers, known, cast, heard, met>>

(* A lookup that fails.                                                    *)
ResolveFails(n) ==
  /\ n \in running /\ unresolved[n] # << >>
  /\ unresolved' = [unresolved EXCEPT ![n] = Tail(@)]
  /\ UNCHANGED <<running, tcp, peers, known, cast, heard, met>>

(* connect_to_peer up to the await of open_connection: it gives up if the  *)
(* address has an entry or there is no room, and else starts to dial.      *)
StartDial(c) ==
  /\ link[c] # None /\ link[c].stage = "queued"
  /\ LET n == link[c].from
     IN /\ n \in running
        /\ link' = [link EXCEPT ![c] =
             IF link[c].to \in DOMAIN peers[n] \/ Full(n) THEN None
             ELSE [@ EXCEPT !.stage = "dialing"]]
  /\ UNCHANGED <<running, unresolved, live, wire, peers, known, cast, heard, met>>

(* Refused, or HANDSHAKE_TIMEOUT.                                          *)
DialFails(c) ==
  /\ link[c] # None /\ link[c].stage = "dialing"
  /\ link' = [link EXCEPT ![c] = None]
  /\ UNCHANGED <<running, unresolved, live, wire, peers, known, cast, heard, met>>

(* connect_to_peer after the await: the entry is made without a second     *)
(* look at the dictionary, the peer loop starts and the version goes out.  *)
Connect(c) ==
  /\ link[c] # None /\ link[c].stage = "dialing"
  /\ LET n == link[c].from
         m == link[c].to
     IN /\ {n, m} \subseteq running
        /\ link' = [link EXCEPT ![c].stage = "open"]
        /\ live' = [live EXCEPT ![c] = {n}]
        /\ wire' = [wire EXCEPT ![c][m] = <<"version">>]
        /\ peers' = Registered(n, m, c)
  /\ UNCHANGED <<running, unresolved, known, cast, heard, met>>

(* _handle_connection, for any caller and without a look at MAX_PEERS.     *)
Accept(c) ==
  /\ link[c] # None /\ link[c].stage = "open"
  /\ LET n == link[c].to
     IN /\ n \in running
        /\ link' = [link EXCEPT ![c].stage = "accepted"]
        /\ live' = [live EXCEPT ![c] = @ \cup {n}]
        /\ wire' = [wire EXCEPT ![c][link[c].from] = Written(c, link[c].from, "version")]
        /\ peers' = Registered(n, c, c)
  /\ UNCHANGED <<running, unresolved, known, cast, heard, met>>

-----------------------------------------------------------------------------
(* _peer_loop and _handle_message: the next message, handled to its end.   *)
(* Without an entry under the connection's key it is ignored.              *)
Arrives(n, c) == link[c] # None /\ n \in live[c] /\ wire[c][n] # << >>

Shaken(n, c) ==
  /\ peers' = [peers EXCEPT ![n][KeyOf(c, n)].done = TRUE]
  /\ met' = [met EXCEPT ![c] = @ \cup {n}]

(* Variant that leaves the handshake to the verack (Delivered).            *)
ReceiveVersionUndone(n, c) ==
  /\ Arrives(n, c) /\ Head(wire[c][n]) = "version" /\ KeyOf(c, n) \in DOMAIN peers[n]
  /\ wire' = [wire EXCEPT ![c][n] = Tail(@), ![c][Other(c, n)] = Written(c, Other(c, n), "verack")]
  /\ met' = [met EXCEPT ![c] = @ \cup {n}]
  /\ UNCHANGED <<running, unresolved, link, live, peers, known, cast, heard>>

(* The drain of so small a message does not suspend the coroutine.         *)
ReceiveVersion(n, c) ==
  /\ Arrives(n, c) /\ Head(wire[c][n]) = "version" /\ KeyOf(c, n) \in DOMAIN peers[n]
  /\ wire' = [wire EXCEPT ![c][n] = Tail(@), ![c][Other(c, n)] = Written(c, Other(c, n), "verack")]
  /\ Shaken(n, c)
  /\ UNCHANGED <<running, unresolved, link, live, known, cast, heard>>

ReceiveVerack(n, c) ==
  /\ Arrives(n, c) /\ Head(wire[c][n]) = "verack" /\ KeyOf(c, n) \in DOMAIN peers[n]
  /\ wire' = [wire EXCEPT ![c][n] = Tail(@)]
  /\ Shaken(n, c)
  /\ UNCHANGED <<running, unresolved, link, live, known, cast, heard>>

(* Variant that takes every message for a block (TypeOK).                  *)
ReceiveAnyBlock(n, c) ==
  /\ Arrives(n, c) /\ KeyOf(c, n) \in DOMAIN peers[n]
  /\ heard' = [heard EXCEPT ![n] = @ \cup {Head(wire[c][n])}]
  /\ wire' = [wire EXCEPT ![c][n] = Tail(@)]
  /\ UNCHANGED <<running, unresolved, link, live, peers, known, cast, met>>

(* A block goes to the orchestrator's handler, which logs it; whether the  *)
(* handshake is done does not matter.                                      *)
ReceiveBlock(n, c) ==
  /\ Arrives(n, c) /\ Head(wire[c][n]) \in Block /\ KeyOf(c, n) \in DOMAIN peers[n]
  /\ heard' = [heard EXCEPT ![n] = @ \cup {Head(wire[c][n])}]
  /\ wire' = [wire EXCEPT ![c][n] = Tail(@)]
  /\ UNCHANGED <<running, unresolved, link, live, peers, known, cast, met>>

Ignore(n, c) ==
  /\ Arrives(n, c) /\ KeyOf(c, n) \notin DOMAIN peers[n]
  /\ wire' = [wire EXCEPT ![c][n] = Tail(@)]
  /\ UNCHANGED <<running, unresolved, link, live, peers, known, cast, heard, met>>

Receive(n, c) ==
  ReceiveVersion(n, c) \/ ReceiveVerack(n, c) \/ ReceiveBlock(n, c) \/ Ignore(n, c)

(* Variant that leaves the entry behind (TableExact).                     *)
ClosePeerKeepEntry(n, c) ==
  /\ link[c] # None /\ n \in live[c]
  /\ live' = [live EXCEPT ![c] = @ \ {n}]
  /\ wire' = [wire EXCEPT ![c][n] = << >>]
  /\ UNCHANGED <<running, unresolved, link, peers, known, cast, heard, met>>

(* The peer loop ends: end of file, 60 silent seconds, a failed write, too *)
(* much input.  It pops whatever entry is under the connection's key.      *)
ClosePeer(n, c) ==
  /\ link[c] # None /\ n \in live[c]
  /\ live' = [live EXCEPT ![c] = @ \ {n}]
  /\ wire' = [wire EXCEPT ![c][n] = << >>]
  /\ peers' = Popped(n, KeyOf(c, n))
  /\ UNCHANGED <<running, unresolved, link, known, cast, heard, met>>

-----------------------------------------------------------------------------
(* Orchestrator.mine_block on a running node creates the broadcast task.   *)
MineBlock(n, b) ==
  /\ n \in running /\ cast[b] = None
  /\ cast' = [cast EXCEPT ![b] = [node |-> n, stage |-> "queued", todo |-> {}, pending |-> None]]
  /\ UNCHANGED <<running, unresolved, tcp, peers, known, heard, met>>

(* broadcast_block up to its loop: the entries of _writers are copied.     *)
BeginBroadcast(b) ==
  /\ cast[b] # None /\ cast[b].stage = "queued"
  /\ LET n == cast[b].node
     IN /\ b \notin known[n]
        /\ known' = [known EXCEPT ![n] = @ \cup {b}]
        /\ cast' = [cast EXCEPT ![b].stage = "sending",
                      ![b].todo = {<<k, peers[n][k].conn>> : k \in DOMAIN peers[n]}]
  /\ UNCHANGED <<running, unresolved, tcp, peers, heard, met>>

Sending(b) == cast[b] # None /\ cast[b].stage = "sending" /\ cast[b].pending = None

(* The entry now under the key decides, the copied writer is written to.   *)
Wanted(n, key, b) ==
  key \in DOMAIN peers[n] /\ peers[n][key].done /\ b \notin peers[n][key].known

(* Variant that sends to the present peer's connection without waiting for *)
(* its handshake (BlockAfterHandshake).                                    *)
SendToAnyone(b) ==
  /\ Sending(b)
  /\ \E e \in cast[b].todo :
       LET n == cast[b].node
           m == Other(e[2], n)
       IN /\ e[1] \in DOMAIN peers[n] /\ n \in live[e[2]]
          /\ wire' = [wire EXCEPT ![e[2]][m] = Written(e[2], m, b)]
          /\ cast' = [cast EXCEPT ![b].todo = @ \ {e}]
  /\ UNCHANGED <<running, unresolved, link, live, peers, known, heard, met>>

Send(b) ==
  /\ Sending(b)
  /\ \E e \in cast[b].todo :
       LET n == cast[b].node
           key == e[1]
           c == e[2]
           m == Other(c, n)
       IN /\ Wanted(n, key, b) /\ n \in live[c]
          /\ wire' = [wire EXCEPT ![c][m] = Written(c, m, b)]
          /\ cast' = [cast EXCEPT ![b].todo = @ \ {e},
                        ![b].pending = [key |-> key, conn |-> c, peer |-> peers[n][key].conn]]
  /\ UNCHANGED <<running, unresolved, link, live, peers, known, heard, met>>

(* Variant that notes the block for a peer it skips (KnownWasSent).        *)
SkipNoted(b) ==
  /\ Sending(b)
  /\ \E e \in cast[b].todo :
       LET n == cast[b].node
       IN /\ ~(Wanted(n, e[1], b) /\ n \in live[e[2]])
          /\ cast' = [cast EXCEPT ![b].todo = @ \ {e}]
          /\ peers' = IF e[1] \in DOMAIN peers[n]
                      THEN [peers EXCEPT ![n][e[1]].known = @ \cup {b}] ELSE peers
  /\ UNCHANGED <<running, unresolved, tcp, known, heard, met>>

(* No entry, no handshake, or a writer that is closed by now.              *)
Skip(b) ==
  /\ Sending(b)
  /\ \E e \in cast[b].todo :
       /\ ~(Wanted(cast[b].node, e[1], b) /\ cast[b].node \in live[e[2]])
       /\ cast' = [cast EXCEPT ![b].todo = @ \ {e}]
  /\ UNCHANGED <<running, unresolved, tcp, peers, known, heard, met>>

Lost(b) == cast[b].node \notin live[cast[b].pending.conn]

(* drain returns, and the block is noted in the entry that was looked up.  *)
Drained(b) ==
  /\ cast[b] # None /\ cast[b].pending # None /\ ~Lost(b)
  /\ LET n == cast[b].node
         w == cast[b].pending
     IN peers' = IF w.key \in DOMAIN peers[n] /\ peers[n][w.key].conn = w.peer
                 THEN [peers EXCEPT ![n][w.key].known = @ \cup {b}]
                 ELSE peers
  /\ cast' = [cast EXCEPT ![b].pending = None]
  /\ UNCHANGED <<running, unresolved, tcp, known, heard, met>>

(* drain raises, because the connection is gone.                           *)
DrainFails(b) ==
  /\ cast[b] # None /\ cast[b].pending # None /\ Lost(b)
  /\ cast' = [cast EXCEPT ![b].pending = None]
  /\ UNCHANGED <<running, unresolved, tcp, peers, known, heard, met>>

EndBroadcast(b) ==
  /\ Sending(b) /\ cast[b].todo = {}
  /\ cast' = [cast EXCEPT ![b].stage = "done"]
  /\ UNCHANGED <<running, unresolved, tcp, peers, known, heard, met>>

(* The process ends, with every connection and task it has.                *)
Stop(n) ==
  /\ n \in running
  /\ running' = running \ {n}
  /\ unresolved' = [unresolved EXCEPT ![n] = << >>]
  /\ link' = [c \in Conn |->
       IF link[c] # None /\ link[c].from = n /\ link[c].stage \in {"queued", "dialing"}
       THEN None ELSE link[c]]
  /\ live' = [c \in Conn |-> live[c] \ {n}]
  /\ wire' = [c \in Conn |-> [wire[c] EXCEPT ![n] = << >>]]
  /\ peers' = [peers EXCEPT ![n] = << >>]
  /\ known' = [known EXCEPT ![n] = {}]
  /\ cast' = [b \in Block |->
       IF cast[b] # None /\ cast[b].node = n
       THEN [cast[b] EXCEPT !.stage = "done", !.todo = {}, !.pending = None] ELSE cast[b]]
  /\ UNCHANGED <<heard, met>>

Next ==
  \/ \E n \in Node : Resolve(n) \/ ResolveFails(n) \/ Stop(n)
  \/ \E c \in Conn : StartDial(c) \/ DialFails(c) \/ Connect(c) \/ Accept(c)
  \/ \E n \in Node, c \in Conn : Receive(n, c) \/ ClosePeer(n, c)
  \/ \E n \in Node, b \in Block : MineBlock(n, b)
  \/ \E b \in Block :
       BeginBroadcast(b) \/ Send(b) \/ Skip(b) \/ Drained(b) \/ DrainFails(b) \/ EndBroadcast(b)

Spec == Init /\ [][Next]_vars

(* What the event loop of a running node and TCP do in the end: the steps  *)
(* of a broadcast are taken, callers are accepted, bytes that arrived are   *)
(* read, and drain returns once the other end has read.  Nobody has to     *)
(* dial, mine, stop or close.                                              *)
AllRead(b) ==
  LET c == cast[b].pending.conn
      m == Other(c, cast[b].node)
  IN \A i \in DOMAIN wire[c][m] : wire[c][m][i] # b
BroadcastStep(b) ==
  \/ BeginBroadcast(b) \/ Send(b) \/ Skip(b) \/ EndBroadcast(b)
  \/ Drained(b) /\ AllRead(b)
  \/ DrainFails(b)

Fairness ==
  /\ \A b \in Block : WF_vars(BroadcastStep(b))
  /\ \A c \in Conn : WF_vars(Accept(c))
  /\ \A n \in Node, c \in Conn : WF_vars(Receive(n, c))

FairSpec == Spec /\ Fairness

-----------------------------------------------------------------------------
TypeOK ==
  /\ running \subseteq Node
  /\ unresolved \in [Node -> Seq(SUBSET SUBSET Node)]
  /\ link \in [Conn -> Link \cup {None}]
  /\ live \in [Conn -> SUBSET Node]
  /\ wire \in [Conn -> [Node -> Seq(Message)]]
  /\ \A n \in Node : DOMAIN peers[n] \subseteq Key /\ \A k \in DOMAIN peers[n] : peers[n][k] \in Peer
  /\ known \in [Node -> SUBSET Block]
  /\ cast \in [Block -> Broadcast \cup {None}]
  /\ heard \in [Node -> SUBSET Block]
  /\ met \in [Conn -> SUBSET Node]

(* A node has dialed the same address on another connection too: it found  *)
(* no entry for it either time.  Both then share the address's key.        *)
Shared(c) == \E d \in Conn \ {c} :
  /\ link[c] # None /\ link[d] # None /\ link[d].stage # "queued"
  /\ link[d].from = link[c].from /\ link[d].to = link[c].to

(* Dialing, accepting, the ends of peer loops and stops keep the table of  *)
(* peers exact at every node: an entry is for a connection whose peer loop *)
(* runs, under that connection's key, and every peer loop has its entry    *)
(* (connect_to_peer, _handle_connection and the finally of _peer_loop).    *)
(* Only a caller whose connections share a key may be without it.          *)
TableExact == \A n \in Node :
  /\ \A k \in DOMAIN peers[n] :
       LET c == peers[n][k].conn IN n \in live[c] /\ k = KeyOf(c, n)
  /\ \A c \in Conn : n \in live[c] /\ ~(n = link[c].from /\ Shared(c)) =>
       KeyOf(c, n) \in DOMAIN peers[n] /\ peers[n][KeyOf(c, n)].conn = c

(* A block noted in an entry's known_inv has been written to that peer:    *)
(* unless one end has closed the connection, it is on its way or the peer  *)
(* has handled it.  The note is made after an await, in the entry that was *)
(* looked up before it (broadcast_block).                                  *)
KnownWasSent == \A n \in Node : \A k \in DOMAIN peers[n] : \A b \in peers[n][k].known :
  LET c == peers[n][k].conn
      m == Other(c, n)
  IN \/ b \in heard[m]
     \/ ~Reaches(c, m)
     \/ Shared(c)
     \/ \E i \in DOMAIN wire[c][m] : wire[c][m][i] = b

(* A block is only ever sent on a connection on which the sender has seen  *)
(* the other end's version or verack, although the entry is looked up      *)
(* again between the copy of the writers and the write.  With a shared key *)
(* the handshake of the other connection counts.                           *)
BlockAfterHandshake == \A c \in Conn, m \in Node, b \in Block :
  (\E i \in DOMAIN wire[c][m] : wire[c][m][i] = b) =>
    \/ Other(c, m) \in met[c]
    \/ \E d \in Conn : Shared(c) /\ Other(c, m) = link[c].from /\ Other(c, m) \in met[d]

(* "Block and transaction broadcasts to all connected peers"               *)
(* (PROJECT-detail.md:83): a peer whose connection is up and shaken hands  *)
(* when a block is mined gets to handle the block, unless the connection   *)
(* is closed first.  (Of two that share a key one may get nothing.)        *)
Connected(n, m, c) ==
  /\ link[c] # None /\ {link[c].from, link[c].to} = {n, m}
  /\ {n, m} \subseteq live[c] /\ n \in met[c] /\ ~Shared(c)
Delivered == \A b \in Block, c \in Conn, n \in Node : \A m \in Node \ {n} :
  (Connected(n, m, c) /\ cast[b] # None /\ cast[b].node = n /\ cast[b].stage = "queued")
    ~> (b \in heard[m] \/ ~({n, m} \subseteq live[c]))
=============================================================================
