------------------------- MODULE PeerNetworkProofs -------------------------
(***************************************************************************)
(* Proofs about PeerNetwork: whatever the event loops of any number of     *)
(* nodes interleave at their awaits, the table of peers stays exact, no    *)
(* block goes out before a handshake, and what is noted as known to a peer *)
(* has been sent to it.                                                    *)
(***************************************************************************)
EXTENDS PeerNetwork, TLAPS

NetTypes == TypeOK /\ DOMAIN peers = Node

(* A connection is open once TCP has made it, and keeps its name for ever. *)
Opened(c) == link[c] # None /\ link[c].stage \in {"open", "accepted"}

(* Another connection of the same caller to the same address was opened    *)
(* too.  Unlike Shared this can never stop to hold: an attempt may fail.   *)
Twin(c) == \E d \in Conn \ {c} :
  /\ Opened(c) /\ Opened(d)
  /\ link[d].from = link[c].from /\ link[d].to = link[c].to

(* Before a connection is open nothing has happened on it; until it is     *)
(* accepted its listener has neither read nor written.                     *)
LinkOK(c) ==
  /\ link[c] # None => link[c].from # link[c].to
  /\ ~Opened(c) => live[c] = {} /\ met[c] = {} /\ \A n \in Node : wire[c][n] = << >>
  /\ Opened(c) => live[c] \subseteq {link[c].from, link[c].to}
  /\ Opened(c) /\ link[c].stage = "open" =>
       link[c].to \notin live[c] /\ met[c] = {} /\ wire[c][link[c].from] = << >>

LinkInv == \A c \in Conn : LinkOK(c)

EntryOK(n, k) ==
  LET c == peers[n][k].conn IN n \in live[c] /\ k = KeyOf(c, n)

Listed(n, c) ==
  n \in live[c] /\ ~(n = link[c].from /\ Twin(c)) =>
    KeyOf(c, n) \in DOMAIN peers[n] /\ peers[n][KeyOf(c, n)].conn = c

TableInv ==
  /\ \A n \in Node : \A k \in DOMAIN peers[n] : EntryOK(n, k)
  /\ \A n \in Node, c \in Conn : Listed(n, c)

(* n has shaken hands on c, or on a connection that shares c's key.        *)
Met(n, c) == n \in met[c] \/ (n = link[c].from /\ Twin(c) /\ \E d \in Conn : n \in met[d])

ShakenInv ==
  \A n \in Node : \A k \in DOMAIN peers[n] : peers[n][k].done => Met(n, peers[n][k].conn)

OnWire(c, m, b) == \E i \in DOMAIN wire[c][m] : wire[c][m][i] = b

WireInv == \A c \in Conn, m \in Node, b \in Block : OnWire(c, m, b) => Met(Other(c, m), c)

(* The writers that a broadcast has copied are still those of its keys.    *)
CastOK(b) ==
  cast[b] # None =>
    /\ \A e \in cast[b].todo : Opened(e[2]) /\ e[1] = KeyOf(e[2], cast[b].node)
    /\ cast[b].pending # None =>
         LET n == cast[b].node
             w == cast[b].pending
         IN /\ Opened(w.conn) /\ Opened(w.peer)
            /\ n \in {link[w.conn].from, link[w.conn].to}
            /\ w.key = KeyOf(w.conn, n) /\ w.key = KeyOf(w.peer, n)

CastInv == \A b \in Block : CastOK(b)

(* A block written to m on c is on its way or has been handled.            *)
Sent(c, m, b) == b \in heard[m] \/ ~Reaches(c, m) \/ Twin(c) \/ OnWire(c, m, b)

SentInv ==
  /\ \A n \in Node : \A k \in DOMAIN peers[n] : \A b \in peers[n][k].known :
       Sent(peers[n][k].conn, Other(peers[n][k].conn, n), b)
  /\ \A b \in Block : cast[b] # None /\ cast[b].pending # None =>
       Sent(cast[b].pending.conn, Other(cast[b].pending.conn, cast[b].node), b)

NetInv == NetTypes /\ LinkInv /\ TableInv /\ ShakenInv /\ WireInv /\ CastInv /\ SentInv

-----------------------------------------------------------------------------
(* Types.                                                                  *)
LEMMA WrittenTyped ==
  ASSUME NetTypes, NEW c \in Conn, NEW n \in Node, NEW msg \in Message
  PROVE  Written(c, n, msg) \in Seq(Message)
BY DEF NetTypes, TypeOK, Written

(* Replacing one node's table by a typed one.                              *)
LEMMA TableTyped ==
  ASSUME NetTypes, NEW n \in Node, NEW table, peers' = [peers EXCEPT ![n] = table],
         DOMAIN table \subseteq Key, \A k \in DOMAIN table : table[k] \in Peer
  PROVE  /\ DOMAIN peers' = Node
         /\ \A m \in Node : /\ DOMAIN peers'[m] \subseteq Key
                            /\ \A k \in DOMAIN peers'[m] : peers'[m][k] \in Peer
<1>1. DOMAIN peers' = Node /\ peers'[n] = table
  BY DEF NetTypes
<1>2. \A m \in Node \ {n} : peers'[m] = peers[m]
  BY DEF NetTypes
<1> QED
  BY <1>1, <1>2 DEF NetTypes, TypeOK

LEMMA RegisteredTyped ==
  ASSUME NetTypes, NEW n \in Node, NEW key \in Key, NEW c \in Conn, peers' = Registered(n, key, c)
  PROVE  /\ DOMAIN peers' = Node
         /\ \A m \in Node : /\ DOMAIN peers'[m] \subseteq Key
                            /\ \A k \in DOMAIN peers'[m] : peers'[m][k] \in Peer
<1> DEFINE table == [k \in DOMAIN peers[n] \cup {key} |->
                       IF k = key THEN [conn |-> c, done |-> FALSE, known |-> {}] ELSE peers[n][k]]
<1>1. [conn |-> c, done |-> FALSE, known |-> {}] \in Peer
  BY DEF Peer
<1>2. DOMAIN table \subseteq Key /\ \A k \in DOMAIN table : table[k] \in Peer
  BY <1>1 DEF NetTypes, TypeOK
<1>3. peers' = [peers EXCEPT ![n] = table]
  BY DEF Registered
<1> HIDE DEF table
<1> QED
  BY <1>2, <1>3, TableTyped

(* One entry of a table is changed.                                        *)
LEMMA EntryTyped ==
  ASSUME NetTypes, NEW n \in Node, NEW key \in DOMAIN peers[n], NEW entry \in Peer,
         peers' = [peers EXCEPT ![n] = [@ EXCEPT ![key] = entry]]
  PROVE  /\ DOMAIN peers' = Node
         /\ \A m \in Node : /\ DOMAIN peers'[m] \subseteq Key
                            /\ \A k \in DOMAIN peers'[m] : peers'[m][k] \in Peer
<1> DEFINE table == [peers[n] EXCEPT ![key] = entry]
<1>1. DOMAIN table \subseteq Key /\ \A k \in DOMAIN table : table[k] \in Peer
  BY DEF NetTypes, TypeOK
<1>2. peers' = [peers EXCEPT ![n] = table]
  OBVIOUS
<1> HIDE DEF table
<1> QED
  BY <1>1, <1>2, TableTyped

LEMMA PoppedTyped ==
  ASSUME NetTypes, NEW n \in Node, NEW key, peers' = Popped(n, key)
  PROVE  /\ DOMAIN peers' = Node
         /\ \A m \in Node : /\ DOMAIN peers'[m] \subseteq Key
                            /\ \A k \in DOMAIN peers'[m] : peers'[m][k] \in Peer
<1> DEFINE table == [k \in DOMAIN peers[n] \ {key} |-> peers[n][k]]
<1>1. DOMAIN table \subseteq Key /\ \A k \in DOMAIN table : table[k] \in Peer
  BY DEF NetTypes, TypeOK
<1>2. peers' = [peers EXCEPT ![n] = table]
  BY DEF Popped
<1> HIDE DEF table
<1> QED
  BY <1>1, <1>2, TableTyped

(* What a message handler relies on.                                       *)
LEMMA ArrivesTyped ==
  ASSUME NetTypes, LinkInv, NEW n \in Node, NEW c \in Conn, Arrives(n, c)
  PROVE  /\ link[c] \in Link /\ Opened(c)
         /\ link[c].from \in Node /\ link[c].to \in Node /\ link[c].from # link[c].to
         /\ n \in {link[c].from, link[c].to}
         /\ Other(c, n) \in Node /\ Other(c, n) # n /\ Other(c, Other(c, n)) = n
         /\ KeyOf(c, n) \in Key
         /\ wire[c][n] \in Seq(Message) /\ Tail(wire[c][n]) \in Seq(Message)
<1>1. link[c] \in Link /\ n \in live[c] /\ wire[c][n] \in Seq(Message) /\ wire[c][n] # << >>
  BY DEF Arrives, NetTypes, TypeOK
<1>2. Opened(c) /\ link[c].from # link[c].to /\ n \in {link[c].from, link[c].to}
  BY <1>1 DEF LinkInv, LinkOK, Arrives
<1> QED
  BY <1>1, <1>2 DEF Link, Other, KeyOf, Key

(* Dialing tasks that a lookup creates.                                    *)
LEMMA ResolveTyped ==
  ASSUME NetTypes, NEW n \in Node, Resolve(n)
  PROVE  /\ link' \in [Conn -> Link \cup {None}]
         /\ \A c \in Conn : \/ link'[c] = link[c]
                           \/ /\ link[c] = None /\ link'[c] \in Link
                              /\ link'[c].stage = "queued" /\ link'[c].from # link'[c].to
<1>1. CASE link' = link
  BY <1>1 DEF NetTypes, TypeOK
<1>2. CASE link' # link
  <2>0. Head(unresolved[n]) \in SUBSET SUBSET Node
    BY DEF Resolve, NetTypes, TypeOK
  <2>p. PICK found \in Head(unresolved[n]) :
          \E task \in [found \ {n} -> {c \in Conn : link[c] = None}] :
            link' = [c \in Conn |->
                      IF \E a \in found \ {n} : task[a] = c
                      THEN [from |-> n, stage |-> "queued",
                            to |-> CHOOSE a \in found \ {n} : task[a] = c]
                      ELSE link[c]]
    BY <1>2 DEF Resolve
  <2>1. PICK task \in [found \ {n} -> {c \in Conn : link[c] = None}] :
          link' = [c \in Conn |->
                    IF \E a \in found \ {n} : task[a] = c
                    THEN [from |-> n, stage |-> "queued",
                          to |-> CHOOSE a \in found \ {n} : task[a] = c]
                    ELSE link[c]]
    BY <2>p
  <2>2. ASSUME NEW c \in Conn
        PROVE  /\ link'[c] \in Link \cup {None}
               /\ \/ link'[c] = link[c]
                  \/ /\ link[c] = None /\ link'[c] \in Link
                     /\ link'[c].stage = "queued" /\ link'[c].from # link'[c].to
    <3>1. CASE \E a \in found \ {n} : task[a] = c
      <4> DEFINE a == CHOOSE a \in found \ {n} : task[a] = c
      <4>1. a \in found \ {n} /\ task[a] = c
        BY <3>1
      <4>2. a \in Node /\ a # n /\ link[c] = None
        BY <2>0, <4>1
      <4>3. link'[c] = [from |-> n, stage |-> "queued", to |-> a]
        BY <2>1, <3>1
      <4> HIDE DEF a
      <4> QED
        BY <4>2, <4>3 DEF Link
    <3>2. CASE ~ \E a \in found \ {n} : task[a] = c
      BY <2>1, <3>2 DEF NetTypes, TypeOK
    <3> QED
      BY <3>1, <3>2
  <2> QED
    BY <2>1, <2>2
<1> QED
  BY <1>1, <1>2

LEMMA CastTyped ==
  ASSUME NetTypes, NEW b \in Block, cast[b] # None
  PROVE  /\ cast[b] \in Broadcast /\ cast[b].node \in Node
         /\ \A e \in cast[b].todo : e = <<e[1], e[2]>> /\ e[1] \in Key /\ e[2] \in Conn
         /\ cast[b].pending # None =>
              cast[b].pending \in [key : Key, conn : Conn, peer : Conn]
BY DEF NetTypes, TypeOK, Broadcast

LEMMA CastSet ==
  ASSUME NetTypes, NEW b \in Block, NEW x \in Broadcast, cast' = [cast EXCEPT ![b] = x]
  PROVE  cast' \in [Block -> Broadcast \cup {None}]
BY DEF NetTypes, TypeOK

LEMMA WireSet ==
  ASSUME NetTypes, NEW c \in Conn, NEW n \in Node, NEW s \in Seq(Message)
  PROVE  /\ [wire EXCEPT ![c][n] = s] \in [Conn -> [Node -> Seq(Message)]]
         /\ \A m \in Node, t \in Seq(Message) :
              [wire EXCEPT ![c][n] = s, ![c][m] = t] \in [Conn -> [Node -> Seq(Message)]]
BY DEF NetTypes, TypeOK

(* An open connection has two ends.                                        *)
LEMMA OpenedTyped ==
  ASSUME NetTypes, LinkInv, NEW c \in Conn, Opened(c)
  PROVE  /\ link[c] \in Link /\ link[c].from \in Node /\ link[c].to \in Node
         /\ link[c].from # link[c].to
         /\ \A n \in Node : Other(c, n) \in Node /\ KeyOf(c, n) \in Key
         /\ \A n \in {link[c].from, link[c].to} : Other(c, n) # n /\ Other(c, Other(c, n)) = n
BY DEF NetTypes, TypeOK, LinkInv, LinkOK, Opened, Link, Other, KeyOf, Key

(* Every step keeps the types.                                             *)
LEMMA NetTypesStep ==
  ASSUME NetTypes, LinkInv, CastInv, [Next]_vars
  PROVE  NetTypes'
<1> DEFINE PeersTyped == /\ DOMAIN peers = Node
                         /\ \A n \in Node : /\ DOMAIN peers[n] \subseteq Key
                                            /\ \A k \in DOMAIN peers[n] : peers[n][k] \in Peer
<1>1. PeersTyped
  BY DEF NetTypes, TypeOK
<1>2. (peers' = peers) => PeersTyped'
  BY <1>1
<1> HIDE DEF PeersTyped
<1>3. CASE UNCHANGED vars
  BY <1>3 DEF vars, tcp, NetTypes, TypeOK
<1>4. ASSUME NEW n \in Node, Resolve(n) \/ ResolveFails(n)
      PROVE  NetTypes'
  <2>1. Tail(unresolved[n]) \in Seq(SUBSET SUBSET Node)
    BY <1>4 DEF Resolve, ResolveFails, NetTypes, TypeOK
  <2>2. link' \in [Conn -> Link \cup {None}]
    BY <1>4, ResolveTyped DEF ResolveFails, tcp, NetTypes, TypeOK
  <2> QED
    BY <1>4, <2>1, <2>2 DEF Resolve, ResolveFails, NetTypes, TypeOK, tcp
<1>5. ASSUME NEW n \in Node, Stop(n)
      PROVE  NetTypes'
  <2>1. PeersTyped'
    <3> DEFINE table == << >>
    <3>1. DOMAIN table = {}
      OBVIOUS
    <3>2. peers' = [peers EXCEPT ![n] = table]
      BY <1>5 DEF Stop
    <3> HIDE DEF table
    <3> QED
      BY <3>1, <3>2, TableTyped DEF PeersTyped
  <2>2. wire' \in [Conn -> [Node -> Seq(Message)]]
    <3>1. << >> \in Seq(Message)
      OBVIOUS
    <3> QED
      BY <1>5, <3>1 DEF Stop, NetTypes, TypeOK
  <2>3. unresolved' \in [Node -> Seq(SUBSET SUBSET Node)]
    <3>1. << >> \in Seq(SUBSET SUBSET Node)
      OBVIOUS
    <3> QED
      BY <1>5, <3>1 DEF Stop, NetTypes, TypeOK
  <2>4. cast' \in [Block -> Broadcast \cup {None}]
    <3>1. ASSUME NEW b \in Block, cast[b] # None
          PROVE  [cast[b] EXCEPT !.stage = "done", !.todo = {}, !.pending = None] \in Broadcast
      BY <3>1, CastTyped DEF Broadcast
    <3> QED
      BY <1>5, <3>1 DEF Stop, NetTypes, TypeOK
  <2> QED
    BY <1>5, <2>1, <2>2, <2>3, <2>4 DEF Stop, NetTypes, TypeOK, PeersTyped
<1>6. ASSUME NEW c \in Conn, StartDial(c) \/ DialFails(c)
      PROVE  NetTypes'
  <2>1. link[c] \in Link
    BY <1>6 DEF StartDial, DialFails, NetTypes, TypeOK
  <2>2. [link[c] EXCEPT !.stage = "dialing"] \in Link
    BY <2>1 DEF Link
  <2>3. link' \in [Conn -> Link \cup {None}]
    BY <1>6, <2>2 DEF StartDial, DialFails, NetTypes, TypeOK
  <2> QED
    BY <1>6, <2>3 DEF StartDial, DialFails, NetTypes, TypeOK
<1>7. ASSUME NEW c \in Conn, Connect(c) \/ Accept(c)
      PROVE  NetTypes'
  <2> DEFINE n == IF Connect(c) THEN link[c].from ELSE link[c].to
             key == IF Connect(c) THEN link[c].to ELSE c
  <2>1. link[c] \in Link /\ link[c].from \in Node /\ link[c].to \in Node
    BY <1>7 DEF Connect, Accept, NetTypes, TypeOK, Link
  <2>2. /\ [link[c] EXCEPT !.stage = "open"] \in Link
        /\ [link[c] EXCEPT !.stage = "accepted"] \in Link
    BY <2>1 DEF Link
  <2>3. link' \in [Conn -> Link \cup {None}]
    BY <1>7, <2>2 DEF Connect, Accept, NetTypes, TypeOK
  <2>4. <<"version">> \in Seq(Message) /\ Written(c, link[c].from, "version") \in Seq(Message)
    BY <2>1, WrittenTyped DEF Message
  <2>5. wire' \in [Conn -> [Node -> Seq(Message)]]
    <3>1. Connect(c) => wire' = [wire EXCEPT ![c][link[c].to] = <<"version">>]
      BY DEF Connect
    <3>2. Accept(c) => wire' = [wire EXCEPT ![c][link[c].from] = Written(c, link[c].from, "version")]
      BY DEF Accept
    <3> QED
      <4>1. /\ [wire EXCEPT ![c][link[c].to] = <<"version">>] \in [Conn -> [Node -> Seq(Message)]]
            /\ [wire EXCEPT ![c][link[c].from] = Written(c, link[c].from, "version")]
                 \in [Conn -> [Node -> Seq(Message)]]
        BY <2>1, <2>4, WireSet
      <4> QED
        BY <1>7, <3>1, <3>2, <4>1
  <2>6. PeersTyped'
    <3>1. peers' = Registered(n, key, c) /\ n \in Node /\ key \in Key
      BY <1>7, <2>1 DEF Connect, Accept, Key
    <3> HIDE DEF n, key
    <3> QED
      BY <3>1, RegisteredTyped DEF PeersTyped
  <2>7. live' \in [Conn -> SUBSET Node]
    <3>1. Connect(c) => live' = [live EXCEPT ![c] = {link[c].from}]
      BY DEF Connect
    <3>2. Accept(c) => live' = [live EXCEPT ![c] = @ \cup {link[c].to}]
      BY DEF Accept
    <3> QED
      <4>1. live \in [Conn -> SUBSET Node]
        BY DEF NetTypes, TypeOK
      <4>2. CASE Connect(c)
        BY <2>1, <3>1, <4>1, <4>2
      <4>3. CASE Accept(c)
        BY <2>1, <3>2, <4>1, <4>3
      <4> QED
        BY <1>7, <4>2, <4>3
  <2> QED
    BY <1>7, <2>3, <2>5, <2>6, <2>7 DEF Connect, Accept, NetTypes, TypeOK, PeersTyped
<1>8. ASSUME NEW n \in Node, NEW c \in Conn, Receive(n, c)
      PROVE  NetTypes'
  <2>1. Arrives(n, c)
    BY <1>8 DEF Receive, ReceiveVersion, ReceiveVerack, ReceiveBlock, Ignore
  <2>2. wire' \in [Conn -> [Node -> Seq(Message)]]
    <3>1. Written(c, Other(c, n), "verack") \in Seq(Message)
      BY <2>1, ArrivesTyped, WrittenTyped DEF Message
    <3>2. Tail(wire[c][n]) \in Seq(Message) /\ Other(c, n) \in Node
      BY <2>1, ArrivesTyped
    <3>3. \/ wire' = [wire EXCEPT ![c][n] = Tail(wire[c][n])]
          \/ wire' = [wire EXCEPT ![c][n] = Tail(wire[c][n]),
                                 ![c][Other(c, n)] = Written(c, Other(c, n), "verack")]
      BY <1>8 DEF Receive, ReceiveVersion, ReceiveVerack, ReceiveBlock, Ignore
    <3> QED
      <4>1. [wire EXCEPT ![c][n] = Tail(wire[c][n])] \in [Conn -> [Node -> Seq(Message)]]
        BY <3>2, WireSet
      <4>2. [wire EXCEPT ![c][n] = Tail(wire[c][n]),
                         ![c][Other(c, n)] = Written(c, Other(c, n), "verack")]
              \in [Conn -> [Node -> Seq(Message)]]
        BY <3>1, <3>2, WireSet
      <4> QED
        BY <3>3, <4>1, <4>2
  <2>3. PeersTyped' /\ met' \in [Conn -> SUBSET Node]
    <3>1. CASE Shaken(n, c) /\ KeyOf(c, n) \in DOMAIN peers[n]
      <4> DEFINE entry == [peers[n][KeyOf(c, n)] EXCEPT !.done = TRUE]
      <4>0. peers[n][KeyOf(c, n)] \in Peer
        BY <3>1 DEF NetTypes, TypeOK
      <4>1. entry \in Peer
        BY <4>0 DEF Peer
      <4>2. peers' = [peers EXCEPT ![n] = [@ EXCEPT ![KeyOf(c, n)] = entry]]
        BY <3>1 DEF Shaken
      <4> HIDE DEF entry
      <4>3. PeersTyped'
        BY <3>1, <4>1, <4>2, EntryTyped DEF PeersTyped
      <4> QED
        BY <3>1, <4>3 DEF Shaken, NetTypes, TypeOK
    <3>2. CASE UNCHANGED <<peers, met>>
      BY <1>2, <3>2 DEF NetTypes, TypeOK
    <3> QED
      BY <1>8, <3>1, <3>2 DEF Receive, ReceiveVersion, ReceiveVerack, ReceiveBlock, Ignore
  <2>4. heard' \in [Node -> SUBSET Block]
    <3>1. CASE ReceiveBlock(n, c)
      BY <3>1 DEF ReceiveBlock, NetTypes, TypeOK
    <3>2. CASE heard' = heard
      BY <3>2 DEF NetTypes, TypeOK
    <3> QED
      BY <1>8, <3>1, <3>2 DEF Receive, ReceiveVersion, ReceiveVerack, Ignore
  <2> QED
    BY <1>8, <2>2, <2>3, <2>4
       DEF Receive, ReceiveVersion, ReceiveVerack, ReceiveBlock, Ignore, NetTypes, TypeOK, PeersTyped
<1>9. ASSUME NEW n \in Node, NEW c \in Conn, ClosePeer(n, c)
      PROVE  NetTypes'
  <2>1. PeersTyped'
    BY <1>9, PoppedTyped DEF ClosePeer, PeersTyped
  <2>2. << >> \in Seq(Message)
    OBVIOUS
  <2>3. wire' \in [Conn -> [Node -> Seq(Message)]] /\ live' \in [Conn -> SUBSET Node]
    BY <1>9, <2>2 DEF ClosePeer, NetTypes, TypeOK
  <2> QED
    BY <1>9, <2>1, <2>3 DEF ClosePeer, NetTypes, TypeOK, PeersTyped
<1>10. ASSUME NEW b \in Block, cast' \in [Block -> Broadcast \cup {None}],
              wire' \in [Conn -> [Node -> Seq(Message)]], PeersTyped',
              known' \in [Node -> SUBSET Block],
              UNCHANGED <<running, unresolved, link, live, heard, met>>
       PROVE  NetTypes'
  BY <1>10 DEF NetTypes, TypeOK, PeersTyped
<1>11. ASSUME NEW n \in Node, NEW b \in Block, MineBlock(n, b)
       PROVE  NetTypes'
  <2>1. [node |-> n, stage |-> "queued", todo |-> {}, pending |-> None] \in Broadcast
    BY DEF Broadcast
  <2>2. cast' \in [Block -> Broadcast \cup {None}]
    BY <1>11, <2>1 DEF MineBlock, NetTypes, TypeOK
  <2> QED
    BY <1>2, <1>10, <1>11, <2>2 DEF MineBlock, tcp, NetTypes, TypeOK
<1>12. ASSUME NEW b \in Block, BeginBroadcast(b)
       PROVE  NetTypes'
  <2> DEFINE n == cast[b].node
             todo == {<<k, peers[n][k].conn>> : k \in DOMAIN peers[n]}
  <2>1. cast[b] \in Broadcast /\ n \in Node
    BY <1>12, CastTyped DEF BeginBroadcast
  <2>2. todo \in SUBSET (Key \X Conn)
    BY <2>1 DEF NetTypes, TypeOK, Peer
  <2>3. cast' = [cast EXCEPT ![b] = [@ EXCEPT !.stage = "sending", !.todo = todo]]
    BY <1>12 DEF BeginBroadcast
  <2>4. known' \in [Node -> SUBSET Block]
    BY <1>12, <2>1 DEF BeginBroadcast, NetTypes, TypeOK
  <2> HIDE DEF todo, n
  <2>5. [cast[b] EXCEPT !.stage = "sending", !.todo = todo] \in Broadcast
    BY <2>1, <2>2 DEF Broadcast
  <2>6. cast' \in [Block -> Broadcast \cup {None}]
    BY <2>3, <2>5 DEF NetTypes, TypeOK
  <2> QED
    BY <1>2, <1>10, <1>12, <2>4, <2>6 DEF BeginBroadcast, tcp, NetTypes, TypeOK
<1>13. ASSUME NEW b \in Block, Send(b)
       PROVE  NetTypes'
  <2>1. PICK e \in cast[b].todo :
          LET n == cast[b].node
              key == e[1]
              c == e[2]
              m == Other(c, n)
          IN /\ Wanted(n, key, b) /\ n \in live[c]
             /\ wire' = [wire EXCEPT ![c][m] = Written(c, m, b)]
             /\ cast' = [cast EXCEPT ![b].todo = @ \ {e},
                           ![b].pending = [key |-> key, conn |-> c, peer |-> peers[n][key].conn]]
    BY <1>13 DEF Send
  <2> DEFINE n == cast[b].node
             w == [key |-> e[1], conn |-> e[2], peer |-> peers[n][e[1]].conn]
  <2>2. /\ cast[b] \in Broadcast /\ n \in Node /\ e[1] \in Key /\ e[2] \in Conn
        /\ Opened(e[2])
    BY <1>13, CastTyped DEF Send, Sending, CastInv, CastOK
  <2>3. w \in [key : Key, conn : Conn, peer : Conn]
    BY <2>1, <2>2 DEF Wanted, NetTypes, TypeOK, Peer
  <2>4. cast' = [cast EXCEPT ![b] = [cast[b] EXCEPT !.todo = @ \ {e}, !.pending = w]]
    <3>1. cast' = [cast EXCEPT ![b].todo = @ \ {e}, ![b].pending = w]
      BY <2>1
    <3> HIDE DEF w
    <3> QED
      BY <3>1
  <2>5. Other(e[2], n) \in Node
    BY <2>2, OpenedTyped
  <2>6. Written(e[2], Other(e[2], n), b) \in Seq(Message)
    BY <2>2, <2>5, WrittenTyped DEF Message
  <2>7. wire' \in [Conn -> [Node -> Seq(Message)]]
    BY <2>1, <2>2, <2>5, <2>6 DEF NetTypes, TypeOK
  <2> HIDE DEF w, n
  <2>8. [cast[b] EXCEPT !.todo = @ \ {e}, !.pending = w] \in Broadcast
    BY <2>2, <2>3 DEF Broadcast
  <2>9. cast' \in [Block -> Broadcast \cup {None}]
    BY <2>4, <2>8, CastSet
  <2> QED
    BY <1>2, <1>10, <1>13, <2>7, <2>9 DEF Send, NetTypes, TypeOK
<1>14. ASSUME NEW b \in Block, Skip(b) \/ EndBroadcast(b) \/ DrainFails(b)
       PROVE  NetTypes'
  <2>1. cast[b] \in Broadcast
    BY <1>14, CastTyped DEF Skip, EndBroadcast, DrainFails, Sending
  <2>2. /\ \A e : [cast[b] EXCEPT !.todo = @ \ {e}] \in Broadcast
        /\ [cast[b] EXCEPT !.stage = "done"] \in Broadcast
        /\ [cast[b] EXCEPT !.pending = None] \in Broadcast
    BY <2>1 DEF Broadcast
  <2>3. cast' \in [Block -> Broadcast \cup {None}]
    <3>1. CASE Skip(b)
      <4>1. PICK e : cast' = [cast EXCEPT ![b] = [cast[b] EXCEPT !.todo = @ \ {e}]]
        BY <3>1 DEF Skip
      <4> QED
        BY <2>2, <4>1, CastSet
    <3>2. CASE EndBroadcast(b)
      <4>1. cast' = [cast EXCEPT ![b] = [cast[b] EXCEPT !.stage = "done"]]
        BY <3>2 DEF EndBroadcast
      <4> QED
        BY <2>2, <4>1, CastSet
    <3>3. CASE DrainFails(b)
      <4>1. cast' = [cast EXCEPT ![b] = [cast[b] EXCEPT !.pending = None]]
        BY <3>3 DEF DrainFails
      <4> QED
        BY <2>2, <4>1, CastSet
    <3> QED
      BY <1>14, <3>1, <3>2, <3>3
  <2> QED
    BY <1>2, <1>10, <1>14, <2>3 DEF Skip, EndBroadcast, DrainFails, tcp, NetTypes, TypeOK
<1>15. ASSUME NEW b \in Block, Drained(b)
       PROVE  NetTypes'
  <2> DEFINE n == cast[b].node
             w == cast[b].pending
  <2>1. cast[b] \in Broadcast /\ n \in Node
    BY <1>15, CastTyped DEF Drained
  <2>2. [cast[b] EXCEPT !.pending = None] \in Broadcast
    BY <2>1 DEF Broadcast
  <2>3. cast' \in [Block -> Broadcast \cup {None}]
    BY <1>15, <2>2 DEF Drained, NetTypes, TypeOK
  <2>4. PeersTyped'
    <3>1. CASE w.key \in DOMAIN peers[n] /\ peers[n][w.key].conn = w.peer
      <4> DEFINE entry == [peers[n][w.key] EXCEPT !.known = @ \cup {b}]
      <4>0. peers[n][w.key] \in Peer
        BY <2>1, <3>1 DEF NetTypes, TypeOK
      <4>1. entry \in Peer
        BY <4>0 DEF Peer
      <4>2. peers' = [peers EXCEPT ![n] = [@ EXCEPT ![w.key] = entry]]
        BY <1>15, <3>1 DEF Drained
      <4> HIDE DEF entry, n, w
      <4> QED
        BY <2>1, <3>1, <4>1, <4>2, EntryTyped DEF PeersTyped
    <3>2. CASE peers' = peers
      BY <1>2, <3>2
    <3> QED
      BY <1>15, <3>1, <3>2 DEF Drained
  <2> QED
    BY <1>10, <1>15, <2>3, <2>4 DEF Drained, tcp, NetTypes, TypeOK
<1> QED
  BY <1>3, <1>4, <1>5, <1>6, <1>7, <1>8, <1>9, <1>11, <1>12, <1>13, <1>14, <1>15 DEF Next

-----------------------------------------------------------------------------
(* Connections.                                                            *)

(* Only these steps change a connection, its messages or its handshakes.   *)
Quiet == UNCHANGED <<link, live, wire, met>>

LEMMA QuietSteps ==
  ASSUME [Next]_vars
  PROVE  \/ Quiet
         \/ \E n \in Node : Resolve(n) \/ Stop(n)
         \/ \E c \in Conn : StartDial(c) \/ DialFails(c) \/ Connect(c) \/ Accept(c)
         \/ \E n \in Node, c \in Conn : Receive(n, c) \/ ClosePeer(n, c)
         \/ \E b \in Block : Send(b)
<1>1. ASSUME NEW n \in Node, ResolveFails(n)
      PROVE  Quiet
  BY <1>1 DEF ResolveFails, Quiet, tcp
<1>2. ASSUME NEW n \in Node, NEW b \in Block, MineBlock(n, b)
      PROVE  Quiet
  BY <1>2 DEF MineBlock, Quiet, tcp
<1>3. ASSUME NEW b \in Block,
             BeginBroadcast(b) \/ Skip(b) \/ Drained(b) \/ DrainFails(b) \/ EndBroadcast(b)
      PROVE  Quiet
  BY <1>3 DEF BeginBroadcast, Skip, Drained, DrainFails, EndBroadcast, Quiet, tcp
<1>4. CASE UNCHANGED vars
  BY <1>4 DEF vars, tcp, Quiet
<1> QED
  BY <1>1, <1>2, <1>3, <1>4 DEF Next

(* What the steps do to one connection.                                    *)
LEMMA LinkMoves ==
  ASSUME NetTypes, LinkInv, [Next]_vars, NEW c \in Conn
  PROVE  /\ Opened(c) => /\ Opened(c)'
                         /\ link'[c].from = link[c].from /\ link'[c].to = link[c].to
                         /\ link[c].stage = "accepted" => link'[c].stage = "accepted"
                         /\ link'[c].stage = link[c].stage \/ Accept(c)
         /\ ~Opened(c) /\ Opened(c)' => Connect(c)
         /\ met[c] \subseteq met'[c]
<1>1. CASE Quiet
  BY <1>1 DEF Quiet, Opened
<1>2. ASSUME NEW n \in Node, Resolve(n)
      PROVE  /\ (Opened(c) <=> Opened(c)') /\ (Opened(c) => link'[c] = link[c])
             /\ met' = met
  <2>1. \/ link'[c] = link[c]
        \/ link[c] = None /\ link'[c] \in Link /\ link'[c].stage = "queued"
    BY <1>2, ResolveTyped
  <2>2. met' = met
    BY <1>2 DEF Resolve
  <2> QED
    BY <2>1, <2>2 DEF Opened
<1>3. ASSUME NEW n \in Node, Stop(n)
      PROVE  /\ (Opened(c) <=> Opened(c)') /\ (Opened(c) => link'[c] = link[c])
             /\ met' = met
  BY <1>3 DEF Opened, Stop
<1>4. ASSUME NEW d \in Conn, StartDial(d) \/ DialFails(d)
      PROVE  /\ (Opened(c) <=> Opened(c)') /\ (Opened(c) => link'[c] = link[c])
             /\ met' = met
  <2>1. /\ \A e \in Conn \ {d} : link'[e] = link[e]
        /\ ~Opened(d) /\ met' = met /\ link[d] \in Link
    BY <1>4 DEF StartDial, DialFails, NetTypes, TypeOK, Opened
  <2>2. link'[d] = None \/ link'[d] = [link[d] EXCEPT !.stage = "dialing"]
    BY <1>4 DEF StartDial, DialFails, NetTypes, TypeOK
  <2>3. ~Opened(d)'
    BY <2>1, <2>2 DEF Opened, Link
  <2> QED
    BY <2>1, <2>3 DEF Opened
<1>5. ASSUME NEW d \in Conn, Connect(d) \/ Accept(d)
      PROVE  /\ \A e \in Conn \ {d} : link'[e] = link[e]
             /\ link[d] \in Link /\ met' = met
             /\ link'[d].from = link[d].from /\ link'[d].to = link[d].to
             /\ Connect(d) => link[d].stage = "dialing" /\ link'[d].stage = "open"
             /\ Accept(d) => link[d].stage = "open" /\ link'[d].stage = "accepted"
             /\ link'[d] # None
  <2>1. link[d] \in Link /\ \A e \in Conn \ {d} : link'[e] = link[e]
    BY <1>5 DEF Connect, Accept, NetTypes, TypeOK
  <2>2. /\ Connect(d) => link'[d] = [link[d] EXCEPT !.stage = "open"]
        /\ Accept(d) => link'[d] = [link[d] EXCEPT !.stage = "accepted"]
    BY DEF Connect, Accept, NetTypes, TypeOK
  <2>3. link'[d] \in Link
    BY <1>5, <2>1, <2>2 DEF Link
  <2> QED
    BY <1>5, <2>1, <2>2, <2>3, NoLinkAssumption DEF Connect, Accept, Link
<1>6. ASSUME NEW n \in Node, NEW d \in Conn, Receive(n, d)
      PROVE  link' = link /\ met[c] \subseteq met'[c]
  <2>1. met' = met \/ met' = [met EXCEPT ![d] = @ \cup {n}]
    BY <1>6 DEF Receive, ReceiveVersion, ReceiveVerack, ReceiveBlock, Ignore, Shaken
  <2> QED
    BY <1>6, <2>1
       DEF Receive, ReceiveVersion, ReceiveVerack, ReceiveBlock, Ignore, NetTypes, TypeOK
<1>7. ASSUME NEW n \in Node, NEW d \in Conn, ClosePeer(n, d)
      PROVE  UNCHANGED <<link, met>>
  BY <1>7 DEF ClosePeer
<1>8. ASSUME NEW b \in Block, Send(b)
      PROVE  UNCHANGED <<link, met>>
  BY <1>8 DEF Send
<1>9. ASSUME NEW d \in Conn, Connect(d) \/ Accept(d)
      PROVE  /\ Opened(c) => /\ Opened(c)'
                             /\ link'[c].from = link[c].from /\ link'[c].to = link[c].to
                             /\ link[c].stage = "accepted" => link'[c].stage = "accepted"
                             /\ link'[c].stage = link[c].stage \/ Accept(c)
             /\ ~Opened(c) /\ Opened(c)' => Connect(c)
             /\ met[c] \subseteq met'[c]
  <2>1. CASE d # c
    BY <1>5, <1>9, <2>1 DEF Opened
  <2>2. CASE d = c /\ Connect(c)
    <3>1. ~Opened(c)
      BY <2>2 DEF Connect, Opened
    <3> QED
      BY <1>5, <1>9, <2>2, <3>1
  <2>3. CASE d = c /\ Accept(c)
    <3>1. Opened(c) /\ Opened(c)' /\ link[c].stage = "open"
      BY <1>5, <1>9, <2>3 DEF Accept, Opened
    <3> QED
      BY <1>5, <1>9, <2>3, <3>1
  <2> QED
    BY <1>9, <2>1, <2>2, <2>3
<1> QED
  BY <1>1, <1>2, <1>3, <1>4, <1>6, <1>7, <1>8, <1>9, QuietSteps DEF Opened

(* What is open stays open, between the same ends and with the same key.   *)
LEMMA OpenedGrows ==
  ASSUME NetTypes, LinkInv, [Next]_vars, NEW c \in Conn, Opened(c)
  PROVE  /\ Opened(c)'
         /\ \A n \in Node : KeyOf(c, n)' = KeyOf(c, n) /\ Other(c, n)' = Other(c, n)
         /\ Twin(c) => Twin(c)'
         /\ \A n \in Node : Met(n, c) => Met(n, c)'
<1>1. /\ Opened(c)' /\ link'[c].from = link[c].from /\ link'[c].to = link[c].to
      /\ met[c] \subseteq met'[c]
  BY LinkMoves
<1>2. Twin(c) => Twin(c)'
  <2>1. ASSUME NEW d \in Conn \ {c}, Opened(d)
        PROVE  Opened(d)' /\ link'[d].from = link[d].from /\ link'[d].to = link[d].to
    BY <2>1, LinkMoves
  <2> QED
    BY <1>1, <2>1 DEF Twin
<1>3. \A d \in Conn : met[d] \subseteq met'[d]
  BY LinkMoves
<1> QED
  BY <1>1, <1>2, <1>3 DEF KeyOf, Other, Met

(* A message of broadcast b goes out to the writer e.                      *)
SendOn(b, e) ==
  LET n == cast[b].node
      c == e[2]
      m == Other(c, n)
  IN /\ Sending(b) /\ e \in cast[b].todo
     /\ Wanted(n, e[1], b) /\ n \in live[c]
     /\ wire' = [wire EXCEPT ![c][m] = Written(c, m, b)]
     /\ cast' = [cast EXCEPT ![b].todo = @ \ {e},
                   ![b].pending = [key |-> e[1], conn |-> c, peer |-> peers[n][e[1]].conn]]
     /\ UNCHANGED <<running, unresolved, link, live, peers, known, heard, met>>

LEMMA SendIsOn ==
  ASSUME NEW b \in Block, Send(b)
  PROVE  \E e \in cast[b].todo : SendOn(b, e)
BY DEF Send, SendOn

Untouched(c) ==
  link'[c] = link[c] /\ live'[c] = live[c] /\ wire'[c] = wire[c] /\ met'[c] = met[c]

(* The steps that touch one connection.                                    *)
LEMMA Touches ==
  ASSUME NetTypes, CastInv, [Next]_vars, NEW c \in Conn
  PROVE  \/ Untouched(c)
         \/ /\ \E n \in Node : Resolve(n)
            /\ link[c] = None /\ link'[c] \in Link
            /\ link'[c].stage = "queued" /\ link'[c].from # link'[c].to
            /\ UNCHANGED <<live, wire, met>>
         \/ \E n \in Node : Stop(n)
         \/ StartDial(c) \/ DialFails(c) \/ Connect(c) \/ Accept(c)
         \/ \E n \in Node : Receive(n, c) \/ ClosePeer(n, c)
         \/ \E b \in Block : \E e \in cast[b].todo : SendOn(b, e) /\ e[2] = c
<1>1. CASE Quiet
  BY <1>1 DEF Quiet, Untouched
<1>2. ASSUME NEW n \in Node, Resolve(n), ~Untouched(c)
      PROVE  /\ link[c] = None /\ link'[c] \in Link
             /\ link'[c].stage = "queued" /\ link'[c].from # link'[c].to
             /\ UNCHANGED <<live, wire, met>>
  <2>1. UNCHANGED <<live, wire, met>>
    BY <1>2 DEF Resolve
  <2> QED
    BY <1>2, <2>1, ResolveTyped DEF Untouched
<1>3. ASSUME NEW d \in Conn, d # c, StartDial(d) \/ DialFails(d)
      PROVE  Untouched(c)
  BY <1>3 DEF StartDial, DialFails, Untouched, NetTypes, TypeOK
<1>4. ASSUME NEW d \in Conn, d # c, Connect(d) \/ Accept(d)
      PROVE  Untouched(c)
  <2>1. CASE Connect(d)
    BY <1>4, <2>1 DEF Connect, Untouched, NetTypes, TypeOK
  <2>2. CASE Accept(d)
    BY <1>4, <2>2 DEF Accept, Untouched, NetTypes, TypeOK
  <2> QED
    BY <1>4, <2>1, <2>2
<1>5. ASSUME NEW n \in Node, NEW d \in Conn, d # c, Receive(n, d)
      PROVE  Untouched(c)
  <2>1. link' = link /\ live' = live
    BY <1>5 DEF Receive, ReceiveVersion, ReceiveVerack, ReceiveBlock, Ignore
  <2>2. met'[c] = met[c]
    BY <1>5 DEF Receive, ReceiveVersion, ReceiveVerack, ReceiveBlock, Ignore, Shaken, NetTypes, TypeOK
  <2>3. wire'[c] = wire[c]
    BY <1>5 DEF Receive, ReceiveVersion, ReceiveVerack, ReceiveBlock, Ignore, NetTypes, TypeOK
  <2> QED
    BY <2>1, <2>2, <2>3 DEF Untouched
<1>6. ASSUME NEW n \in Node, NEW d \in Conn, d # c, ClosePeer(n, d)
      PROVE  Untouched(c)
  BY <1>6 DEF ClosePeer, Untouched, NetTypes, TypeOK
<1>7. ASSUME NEW b \in Block, NEW e \in cast[b].todo, SendOn(b, e), e[2] # c
      PROVE  Untouched(c)
  BY <1>7 DEF SendOn, Untouched, NetTypes, TypeOK
<1> QED
  BY <1>1, <1>2, <1>3, <1>4, <1>5, <1>6, <1>7, QuietSteps, SendIsOn

LEMMA LinkStep ==
  ASSUME NetTypes, LinkInv, CastInv, [Next]_vars
  PROVE  LinkInv'
<1> SUFFICES ASSUME NEW c \in Conn
             PROVE  LinkOK(c)'
  BY DEF LinkInv
<1>1. LinkOK(c)
  BY DEF LinkInv
<1>2. CASE Untouched(c)
  BY <1>1, <1>2 DEF Untouched, LinkOK, Opened
<1>3. CASE /\ link[c] = None /\ link'[c] \in Link
           /\ link'[c].stage = "queued" /\ link'[c].from # link'[c].to
           /\ UNCHANGED <<live, wire, met>>
  BY <1>1, <1>3 DEF LinkOK, Opened
<1>4. ASSUME NEW n \in Node, Stop(n)
      PROVE  LinkOK(c)'
  <2>1. /\ live'[c] = live[c] \ {n} /\ met' = met
        /\ \A m \in Node : wire'[c][m] = IF m = n THEN << >> ELSE wire[c][m]
    BY <1>4 DEF Stop, NetTypes, TypeOK
  <2>2. CASE link'[c] = link[c]
    <3>1. link[c] # None => link[c].from \in Node
      BY DEF NetTypes, TypeOK, Link
    <3> QED
      BY <1>1, <2>1, <2>2, <3>1 DEF LinkOK, Opened
  <2>3. CASE link'[c] = None /\ ~Opened(c)
    BY <1>1, <2>1, <2>3 DEF LinkOK, Opened
  <2> QED
    BY <1>4, <2>2, <2>3 DEF Stop, Opened
<1>5. CASE StartDial(c) \/ DialFails(c)
  <2>1. /\ UNCHANGED <<live, wire, met>> /\ ~Opened(c) /\ link[c] \in Link /\ link[c] # None
        /\ link'[c] = None \/ link'[c] = [link[c] EXCEPT !.stage = "dialing"]
    BY <1>5 DEF StartDial, DialFails, NetTypes, TypeOK, Opened
  <2>2. ~Opened(c)' /\ (link'[c] # None => link'[c].from # link'[c].to)
    BY <1>1, <2>1 DEF Opened, Link, LinkOK
  <2> QED
    BY <1>1, <2>1, <2>2 DEF LinkOK
<1>6. CASE Connect(c)
  <2>1. link[c] \in Link /\ ~Opened(c) /\ link[c].from # link[c].to
    BY <1>1, <1>6 DEF Connect, NetTypes, TypeOK, Opened, LinkOK
  <2>2. link'[c] = [link[c] EXCEPT !.stage = "open"] /\ live'[c] = {link[c].from} /\ met' = met
    BY <1>6 DEF Connect, NetTypes, TypeOK
  <2>3. link'[c] \in Link /\ link'[c].from = link[c].from /\ link'[c].to = link[c].to
        /\ link'[c].stage = "open"
    BY <2>1, <2>2 DEF Link
  <2>4. wire'[c][link[c].from] = << >>
    BY <1>1, <1>6, <2>1 DEF Connect, LinkOK, NetTypes, TypeOK, Link
  <2>5. Opened(c)' /\ met[c] = {}
    BY <1>1, <2>1, <2>3, NoLinkAssumption DEF Opened, LinkOK
  <2> QED
    BY <2>1, <2>2, <2>3, <2>4, <2>5 DEF LinkOK
<1>7. CASE Accept(c)
  <2>1. link[c] \in Link /\ Opened(c) /\ link[c].from # link[c].to
    BY <1>1, <1>7 DEF Accept, NetTypes, TypeOK, Opened, LinkOK
  <2>2. /\ link'[c] = [link[c] EXCEPT !.stage = "accepted"]
        /\ live'[c] = live[c] \cup {link[c].to} /\ met' = met
    BY <1>7 DEF Accept, NetTypes, TypeOK
  <2>3. link'[c] \in Link /\ link'[c].from = link[c].from /\ link'[c].to = link[c].to
        /\ link'[c].stage = "accepted"
    BY <2>1, <2>2 DEF Link
  <2>4. Opened(c)'
    BY <2>3, NoLinkAssumption DEF Opened
  <2> QED
    BY <1>1, <2>1, <2>2, <2>3, <2>4 DEF LinkOK
<1>8. ASSUME NEW n \in Node, Receive(n, c)
      PROVE  LinkOK(c)'
  <2>1. link' = link /\ live' = live /\ Arrives(n, c)
    BY <1>8 DEF Receive, ReceiveVersion, ReceiveVerack, ReceiveBlock, Ignore
  <2>2. Opened(c) /\ link[c].stage # "open"
    BY <1>1, <2>1 DEF Arrives, LinkOK
  <2> QED
    BY <1>1, <2>1, <2>2 DEF LinkOK, Opened
<1>9. ASSUME NEW n \in Node, ClosePeer(n, c)
      PROVE  LinkOK(c)'
  <2>1. /\ link' = link /\ live'[c] = live[c] \ {n} /\ met' = met
        /\ wire'[c] = [wire[c] EXCEPT ![n] = << >>] /\ n \in live[c]
    BY <1>9 DEF ClosePeer, NetTypes, TypeOK
  <2>2. Opened(c)
    BY <1>1, <2>1 DEF LinkOK
  <2>3. wire'[c][link[c].from] \in {wire[c][link[c].from], << >>}
    BY <2>1, <2>2, OpenedTyped DEF NetTypes, TypeOK
  <2> QED
    BY <1>1, <2>1, <2>2, <2>3 DEF LinkOK, Opened
<1>10. ASSUME NEW b \in Block, NEW e \in cast[b].todo, SendOn(b, e), e[2] = c
       PROVE  LinkOK(c)'
  <2> DEFINE n == cast[b].node
             m == Other(c, n)
  <2>1. /\ UNCHANGED <<link, live, met>> /\ n \in live[c]
        /\ wire' = [wire EXCEPT ![c][m] = Written(c, m, b)]
    BY <1>10 DEF SendOn
  <2>2. Opened(c) /\ n \in Node
    BY <1>1, <1>10, <2>1, CastTyped DEF LinkOK, SendOn, Sending
  <2>3. link[c].stage = "open" => m # link[c].from
    BY <1>1, <2>1, <2>2, OpenedTyped DEF LinkOK, Other
  <2>4. m # link[c].from => wire'[c][link[c].from] = wire[c][link[c].from]
    BY <2>1, <2>2, OpenedTyped DEF NetTypes, TypeOK
  <2> QED
    BY <1>1, <2>1, <2>2, <2>3, <2>4 DEF LinkOK, Opened
<1> QED
  BY <1>2, <1>3, <1>4, <1>5, <1>6, <1>7, <1>8, <1>9, <1>10, Touches

-----------------------------------------------------------------------------
(* The table of peers.                                                     *)

(* Two connections have one key at a node only if it dialed both of them.  *)
LEMMA SameKey ==
  ASSUME NetTypes, LinkInv, NEW n \in Node, NEW c \in Conn, NEW d \in Conn \ {c},
         Opened(c), Opened(d), KeyOf(c, n) = KeyOf(d, n)
  PROVE  /\ n = link[c].from /\ n = link[d].from /\ link[c].to = link[d].to
         /\ Twin(c) /\ Twin(d)
<1>1. /\ link[c].from \in Node /\ link[c].to \in Node
      /\ link[d].from \in Node /\ link[d].to \in Node
  BY OpenedTyped
<1>2. n = link[c].from /\ n = link[d].from /\ link[c].to = link[d].to
  BY <1>1, NetworkAssumption DEF KeyOf
<1> QED
  BY <1>2 DEF Twin

LEMMA RegisteredAt ==
  ASSUME NetTypes, NEW n \in Node, NEW key, NEW c, peers' = Registered(n, key, c)
  PROVE  /\ DOMAIN peers'[n] = DOMAIN peers[n] \cup {key}
         /\ peers'[n][key] = [conn |-> c, done |-> FALSE, known |-> {}]
         /\ \A k \in DOMAIN peers[n] \ {key} : peers'[n][k] = peers[n][k]
         /\ \A m \in Node \ {n} : peers'[m] = peers[m]
<1>1. peers'[n] = [k \in DOMAIN peers[n] \cup {key} |->
                    IF k = key THEN [conn |-> c, done |-> FALSE, known |-> {}] ELSE peers[n][k]]
  BY DEF Registered, NetTypes
<1>2. \A m \in Node \ {n} : peers'[m] = peers[m]
  BY DEF Registered, NetTypes
<1> QED
  BY <1>1, <1>2

LEMMA PoppedAt ==
  ASSUME NetTypes, NEW n \in Node, NEW key, peers' = Popped(n, key)
  PROVE  /\ DOMAIN peers'[n] = DOMAIN peers[n] \ {key}
         /\ \A k \in DOMAIN peers[n] \ {key} : peers'[n][k] = peers[n][k]
         /\ \A m \in Node \ {n} : peers'[m] = peers[m]
<1>1. peers'[n] = [k \in DOMAIN peers[n] \ {key} |-> peers[n][k]]
  BY DEF Popped, NetTypes
<1>2. \A m \in Node \ {n} : peers'[m] = peers[m]
  BY DEF Popped, NetTypes
<1> QED
  BY <1>1, <1>2

(* Handshakes and notes do not change which connections are in the tables. *)
SameTable == \A n \in Node :
  /\ DOMAIN peers'[n] = DOMAIN peers[n]
  /\ \A k \in DOMAIN peers[n] : peers'[n][k].conn = peers[n][k].conn

LEMMA ShakenAt ==
  ASSUME NetTypes, LinkInv, NEW n \in Node, NEW c \in Conn, Shaken(n, c), KeyOf(c, n) \in DOMAIN peers[n]
  PROVE  /\ SameTable
         /\ peers'[n][KeyOf(c, n)] = [peers[n][KeyOf(c, n)] EXCEPT !.done = TRUE]
         /\ \A k \in DOMAIN peers[n] \ {KeyOf(c, n)} : peers'[n][k] = peers[n][k]
         /\ \A m \in Node \ {n} : peers'[m] = peers[m]
         /\ \A m \in Node : \A k \in DOMAIN peers[m] : peers'[m][k].known = peers[m][k].known
<1> DEFINE key == KeyOf(c, n)
           entry == [peers[n][key] EXCEPT !.done = TRUE]
<1>1. peers' = [peers EXCEPT ![n] = [@ EXCEPT ![key] = entry]]
  BY DEF Shaken
<1>2. peers[n][key] \in Peer
  BY DEF NetTypes, TypeOK
<1>3. entry.conn = peers[n][key].conn /\ entry.known = peers[n][key].known
  BY <1>2 DEF Peer
<1> HIDE DEF entry
<1>4. /\ DOMAIN peers'[n] = DOMAIN peers[n] /\ peers'[n][key] = entry
      /\ \A k \in DOMAIN peers[n] \ {key} : peers'[n][k] = peers[n][k]
      /\ \A m \in Node \ {n} : peers'[m] = peers[m]
  BY <1>1 DEF NetTypes
<1> QED
  BY <1>3, <1>4 DEF SameTable, entry

LEMMA DrainedAt ==
  ASSUME NetTypes, NEW b \in Block, Drained(b)
  PROVE  /\ SameTable
         /\ \A m \in Node : \A k \in DOMAIN peers[m] :
              /\ peers'[m][k].done = peers[m][k].done
              /\ \/ peers'[m][k] = peers[m][k]
                 \/ /\ m = cast[b].node /\ k = cast[b].pending.key
                    /\ peers[m][k].conn = cast[b].pending.peer
                    /\ peers'[m][k].known = peers[m][k].known \cup {b}
<1> DEFINE n == cast[b].node
           key == cast[b].pending.key
           entry == [peers[n][key] EXCEPT !.known = @ \cup {b}]
<1>1. CASE peers' = peers
  BY <1>1 DEF SameTable
<1>2. CASE /\ key \in DOMAIN peers[n] /\ peers[n][key].conn = cast[b].pending.peer
           /\ peers' = [peers EXCEPT ![n] = [@ EXCEPT ![key] = entry]]
  <2>1. n \in Node
    BY CastTyped DEF Drained
  <2>2. peers[n][key] \in Peer
    BY <1>2, <2>1 DEF NetTypes, TypeOK
  <2>3. /\ entry.conn = peers[n][key].conn /\ entry.done = peers[n][key].done
        /\ entry.known = peers[n][key].known \cup {b}
    BY <2>2 DEF Peer
  <2> HIDE DEF entry, n, key
  <2>4. /\ DOMAIN peers'[n] = DOMAIN peers[n] /\ peers'[n][key] = entry
        /\ \A k \in DOMAIN peers[n] \ {key} : peers'[n][k] = peers[n][k]
        /\ \A m \in Node \ {n} : peers'[m] = peers[m]
    BY <1>2, <2>1 DEF NetTypes
  <2>5. SameTable
    BY <2>3, <2>4 DEF SameTable
  <2>6. ASSUME NEW m \in Node, NEW k \in DOMAIN peers[m], ~(m = n /\ k = key)
        PROVE  peers'[m][k] = peers[m][k]
    BY <2>4, <2>6
  <2> QED
    BY <1>2, <2>3, <2>4, <2>5, <2>6 DEF n, key
<1>3. \/ peers' = peers
      \/ /\ key \in DOMAIN peers[n] /\ peers[n][key].conn = cast[b].pending.peer
         /\ peers' = [peers EXCEPT ![n][key].known = @ \cup {b}]
  BY DEF Drained
<1> QED
  BY <1>1, <1>2, <1>3

(* The steps that change who is in the tables.                             *)
LEMMA TableMoves ==
  ASSUME NetTypes, LinkInv, [Next]_vars
  PROVE  \/ SameTable /\ live' = live
         \/ \E n \in Node : Stop(n)
         \/ \E c \in Conn : Connect(c) \/ Accept(c)
         \/ \E n \in Node, c \in Conn : ClosePeer(n, c)
<1>1. UNCHANGED <<peers, live>> => SameTable /\ live' = live
  BY DEF SameTable
<1>2. ASSUME NEW n \in Node, Resolve(n) \/ ResolveFails(n)
      PROVE  UNCHANGED <<peers, live>>
  BY <1>2 DEF Resolve, ResolveFails, tcp
<1>3. ASSUME NEW c \in Conn, StartDial(c) \/ DialFails(c)
      PROVE  UNCHANGED <<peers, live>>
  BY <1>3 DEF StartDial, DialFails
<1>4. ASSUME NEW n \in Node, NEW c \in Conn, Receive(n, c)
      PROVE  SameTable /\ live' = live
  <2>1. live' = live /\ (UNCHANGED peers \/ (Shaken(n, c) /\ KeyOf(c, n) \in DOMAIN peers[n]))
    BY <1>4 DEF Receive, ReceiveVersion, ReceiveVerack, ReceiveBlock, Ignore
  <2> QED
    BY <1>1, <2>1, ShakenAt
<1>5. ASSUME NEW n \in Node, NEW b \in Block, MineBlock(n, b)
      PROVE  UNCHANGED <<peers, live>>
  BY <1>5 DEF MineBlock, tcp
<1>6. ASSUME NEW b \in Block, BeginBroadcast(b) \/ Skip(b) \/ DrainFails(b) \/ EndBroadcast(b)
      PROVE  UNCHANGED <<peers, live>>
  BY <1>6 DEF BeginBroadcast, Skip, DrainFails, EndBroadcast, tcp
<1>7. ASSUME NEW b \in Block, Send(b)
      PROVE  UNCHANGED <<peers, live>>
  BY <1>7 DEF Send
<1>8. ASSUME NEW b \in Block, Drained(b)
      PROVE  SameTable /\ live' = live
  BY <1>8, DrainedAt DEF Drained, tcp
<1>9. CASE UNCHANGED vars
  BY <1>1, <1>9 DEF vars, tcp
<1> QED
  BY <1>1, <1>2, <1>3, <1>4, <1>5, <1>6, <1>7, <1>8, <1>9 DEF Next

LEMMA TableStep ==
  ASSUME NetTypes, LinkInv, TableInv, [Next]_vars
  PROVE  TableInv'
<1>1. ASSUME NEW n \in Node, NEW k \in DOMAIN peers[n]
      PROVE  /\ peers[n][k].conn \in Conn /\ n \in live[peers[n][k].conn]
             /\ Opened(peers[n][k].conn) /\ k = KeyOf(peers[n][k].conn, n)
  <2>1. peers[n][k].conn \in Conn /\ EntryOK(n, k)
    BY DEF TableInv, NetTypes, TypeOK, Peer
  <2> QED
    BY <2>1 DEF EntryOK, LinkInv, LinkOK
<1>2. ASSUME NEW n \in Node, NEW c \in Conn, n \in live[c]
      PROVE  /\ Opened(c) /\ Opened(c)' /\ KeyOf(c, n)' = KeyOf(c, n)
             /\ link'[c].from = link[c].from
             /\ Twin(c) => Twin(c)'
             /\ ~(n = link[c].from /\ Twin(c)) =>
                  KeyOf(c, n) \in DOMAIN peers[n] /\ peers[n][KeyOf(c, n)].conn = c
  <2>1. Opened(c)
    BY <1>2 DEF LinkInv, LinkOK
  <2> QED
    BY <1>2, <2>1, OpenedGrows, LinkMoves DEF TableInv, Listed
(* A connection whose peer loop goes on, and that keeps its entry.         *)
<1>3. ASSUME NEW n \in Node, NEW c \in Conn, n \in live[c],
             \/ n = link[c].from /\ Twin(c)'
             \/ /\ KeyOf(c, n) \in DOMAIN peers[n] =>
                     KeyOf(c, n) \in DOMAIN peers'[n]
                /\ KeyOf(c, n) \in DOMAIN peers[n] =>
                     peers'[n][KeyOf(c, n)].conn = peers[n][KeyOf(c, n)].conn
      PROVE  Listed(n, c)'
  BY <1>2, <1>3 DEF Listed
<1>4. ASSUME NEW n \in Node, NEW k \in DOMAIN peers[n], k \in DOMAIN peers'[n],
             peers'[n][k].conn = peers[n][k].conn, n \in live'[peers[n][k].conn]
      PROVE  EntryOK(n, k)'
  BY <1>1, <1>2, <1>4 DEF EntryOK
<1>5. CASE SameTable /\ live' = live
  <2>1. ASSUME NEW n \in Node, NEW k \in DOMAIN peers'[n]
        PROVE  EntryOK(n, k)'
    BY <1>1, <1>4, <1>5 DEF SameTable
  <2>2. ASSUME NEW n \in Node, NEW c \in Conn
        PROVE  Listed(n, c)'
    <3>1. CASE n \in live[c]
      BY <1>3, <1>5, <3>1 DEF SameTable
    <3>2. CASE n \notin live[c]
      BY <1>5, <3>2 DEF Listed
    <3> QED
      BY <3>1, <3>2
  <2> QED
    BY <2>1, <2>2 DEF TableInv
<1>6. ASSUME NEW x \in Node, Stop(x)
      PROVE  TableInv'
  <2>1. /\ \A m \in Node \ {x} : peers'[m] = peers[m]
        /\ \A c \in Conn : live'[c] = live[c] \ {x}
        /\ peers'[x] = << >>
    BY <1>6 DEF Stop, NetTypes, TypeOK
  <2>2. ASSUME NEW n \in Node, NEW k \in DOMAIN peers'[n]
        PROVE  EntryOK(n, k)'
    <3>1. n # x
      BY <2>1
    <3> QED
      BY <1>1, <1>4, <2>1, <3>1
  <2>3. ASSUME NEW n \in Node, NEW c \in Conn
        PROVE  Listed(n, c)'
    <3>1. CASE n \in live[c] /\ n # x
      BY <1>3, <2>1, <3>1
    <3>2. CASE n \notin live[c] \/ n = x
      BY <2>1, <3>2 DEF Listed
    <3> QED
      BY <3>1, <3>2
  <2> QED
    BY <2>2, <2>3 DEF TableInv
<1>7. ASSUME NEW d \in Conn, Connect(d) \/ Accept(d)
      PROVE  TableInv'
  <2>1. /\ link[d] \in Link /\ link[d].from \in Node /\ link[d].to \in Node
        /\ link[d].from # link[d].to
    BY <1>7 DEF Connect, Accept, NetTypes, TypeOK, Link, LinkInv, LinkOK
  <2>2. PICK y \in Node, key \in Key :
          /\ peers' = Registered(y, key, d)
          /\ live' = [live EXCEPT ![d] = @ \cup {y}]
          /\ key = KeyOf(d, y)
          /\ link'[d].from = link[d].from /\ link'[d].to = link[d].to
          /\ y \notin live[d] /\ Opened(d)'
    <3>1. CASE Connect(d)
      <4> DEFINE n == link[d].from
                 m == link[d].to
      <4>1. live[d] = {}
        BY <3>1 DEF Connect, LinkInv, LinkOK, Opened
      <4>2. link'[d] = [link[d] EXCEPT !.stage = "open"]
        BY <3>1 DEF Connect, NetTypes, TypeOK
      <4>3. link'[d] \in Link /\ link'[d].from = link[d].from /\ link'[d].to = link[d].to
            /\ link'[d].stage = "open"
        BY <2>1, <4>2 DEF Link
      <4>4. /\ peers' = Registered(n, m, d)
            /\ live' = [live EXCEPT ![d] = @ \cup {n}]
            /\ m = KeyOf(d, n) /\ m \in Key /\ n \in Node
        BY <2>1, <3>1, <4>1 DEF Connect, KeyOf, Key, NetTypes, TypeOK
      <4>5. Opened(d)'
        BY <4>3, NoLinkAssumption DEF Opened
      <4> QED
        BY <4>1, <4>3, <4>4, <4>5
    <3>2. CASE Accept(d)
      <4> DEFINE n == link[d].to
      <4>1. Opened(d) /\ n \notin live[d]
        BY <3>2 DEF Accept, LinkInv, LinkOK, Opened
      <4>2. /\ Opened(d)' /\ link'[d].from = link[d].from /\ link'[d].to = link[d].to
        BY <4>1, LinkMoves
      <4>3. /\ peers' = Registered(n, d, d)
            /\ live' = [live EXCEPT ![d] = @ \cup {n}]
            /\ d = KeyOf(d, n) /\ d \in Key /\ n \in Node
        BY <2>1, <3>2 DEF Accept, KeyOf, Key
      <4> QED
        BY <4>1, <4>2, <4>3
    <3> QED
      BY <1>7, <3>1, <3>2
  <2>3. /\ DOMAIN peers'[y] = DOMAIN peers[y] \cup {key} /\ peers'[y][key].conn = d
        /\ \A k \in DOMAIN peers[y] \ {key} : peers'[y][k] = peers[y][k]
        /\ \A m \in Node \ {y} : peers'[m] = peers[m]
    <3>1. peers' = Registered(y, key, d)
      BY <2>2
    <3>2. /\ DOMAIN peers'[y] = DOMAIN peers[y] \cup {key}
          /\ peers'[y][key] = [conn |-> d, done |-> FALSE, known |-> {}]
          /\ \A k \in DOMAIN peers[y] \ {key} : peers'[y][k] = peers[y][k]
          /\ \A m \in Node \ {y} : peers'[m] = peers[m]
      BY <3>1, RegisteredAt
    <3> QED
      BY <3>2
  <2>4. /\ live'[d] = live[d] \cup {y}
        /\ \A c \in Conn \ {d} : live'[c] = live[c]
    BY <2>2 DEF NetTypes, TypeOK
  <2>5. KeyOf(d, y)' = KeyOf(d, y)
    BY <2>2 DEF KeyOf
  <2>6. ASSUME NEW n \in Node, NEW k \in DOMAIN peers'[n]
        PROVE  EntryOK(n, k)'
    <3>1. CASE n = y /\ k = key
      BY <2>2, <2>3, <2>4, <2>5, <3>1 DEF EntryOK
    <3>2. CASE ~(n = y /\ k = key)
      <4>1. k \in DOMAIN peers[n] /\ peers'[n][k] = peers[n][k]
        BY <2>3, <3>2
      <4>2. n \in live'[peers[n][k].conn]
        BY <1>1, <2>4, <4>1
      <4> QED
        BY <1>4, <4>1, <4>2
    <3> QED
      BY <3>1, <3>2
  <2>7. ASSUME NEW n \in Node, NEW c \in Conn
        PROVE  Listed(n, c)'
    <3>1. CASE n \in live[c] /\ ~(n = y /\ KeyOf(c, n) = key)
      BY <1>3, <2>3, <3>1
    <3>2. CASE n \in live[c] /\ n = y /\ KeyOf(c, n) = key
      <4>1. c # d /\ Opened(c)' /\ Opened(d)' /\ KeyOf(c, n)' = KeyOf(d, n)'
        BY <1>2, <2>2, <2>5, <3>2
      <4>2. n = link'[c].from /\ Twin(c)'
        <5>1. /\ link[c].from \in Node /\ link[c].to \in Node
          BY <1>2, <3>2, OpenedTyped
        <5>2. n = link[c].from /\ n = link[d].from /\ link[c].to = link[d].to
          BY <2>1, <2>2, <3>2, <4>1, <5>1, NetworkAssumption DEF KeyOf
        <5>3. link'[c].from = link[c].from /\ link'[c].to = link[c].to
          BY <1>2, <3>2, LinkMoves
        <5> QED
          BY <2>2, <4>1, <5>2, <5>3 DEF Twin
      <4> QED
        BY <4>2 DEF Listed
    <3>3. CASE n \notin live[c] /\ n \in live'[c]
      <4>1. n = y /\ c = d
        BY <2>4, <3>3
      <4> QED
        BY <2>2, <2>3, <2>5, <4>1 DEF Listed
    <3>4. CASE n \notin live'[c] /\ n \notin live[c]
      BY <3>4 DEF Listed
    <3> QED
      BY <3>1, <3>2, <3>3, <3>4
  <2> QED
    BY <2>6, <2>7 DEF TableInv
<1>8. ASSUME NEW y \in Node, NEW d \in Conn, ClosePeer(y, d)
      PROVE  TableInv'
  <2> DEFINE key == KeyOf(d, y)
  <2>1. /\ DOMAIN peers'[y] = DOMAIN peers[y] \ {key}
        /\ \A k \in DOMAIN peers[y] \ {key} : peers'[y][k] = peers[y][k]
        /\ \A m \in Node \ {y} : peers'[m] = peers[m]
    BY <1>8, PoppedAt DEF ClosePeer
  <2>2. /\ live'[d] = live[d] \ {y} /\ y \in live[d]
        /\ \A c \in Conn \ {d} : live'[c] = live[c]
    BY <1>8 DEF ClosePeer, NetTypes, TypeOK
  <2>3. ASSUME NEW n \in Node, NEW k \in DOMAIN peers'[n]
        PROVE  EntryOK(n, k)'
    <3>1. k \in DOMAIN peers[n] /\ peers'[n][k] = peers[n][k] /\ ~(n = y /\ k = key)
      BY <2>1
    <3>2. n \in live'[peers[n][k].conn]
      BY <1>1, <2>2, <3>1
    <3> QED
      BY <1>4, <3>1, <3>2
  <2>4. ASSUME NEW n \in Node, NEW c \in Conn
        PROVE  Listed(n, c)'
    <3>1. CASE n \in live[c] /\ ~(n = y /\ KeyOf(c, n) = key)
      BY <1>3, <2>1, <3>1
    <3>2. CASE n \in live[c] /\ n = y /\ KeyOf(c, n) = key /\ c # d
      <4>1. n = link[c].from /\ Twin(c)
        BY <1>2, <2>2, <3>2, SameKey
      <4> QED
        BY <1>2, <1>3, <3>2, <4>1
    <3>3. CASE n \notin live[c] \/ (n = y /\ c = d)
      BY <2>2, <3>3 DEF Listed
    <3> QED
      BY <3>1, <3>2, <3>3
  <2> QED
    BY <2>3, <2>4 DEF TableInv
<1> QED
  BY <1>5, <1>6, <1>7, <1>8, TableMoves

-----------------------------------------------------------------------------
(* Broadcasts.                                                             *)

(* A step that only brings a broadcast closer to its end.                  *)
Advances(b) ==
  /\ cast[b] # None /\ cast'[b].node = cast[b].node
  /\ cast'[b].todo \subseteq cast[b].todo
  /\ cast'[b].pending \in {None, cast[b].pending}

LEMMA CastMoves ==
  ASSUME NetTypes, [Next]_vars, NEW b \in Block
  PROVE  \/ cast'[b] = cast[b] \/ Advances(b)
         \/ \E n \in Node : MineBlock(n, b)
         \/ BeginBroadcast(b)
         \/ \E e \in cast[b].todo : SendOn(b, e)
<1>1. CASE UNCHANGED cast
  BY <1>1
<1>2. ASSUME NEW n \in Node, Resolve(n) \/ ResolveFails(n)
      PROVE  UNCHANGED cast
  BY <1>2 DEF Resolve, ResolveFails
<1>3. ASSUME NEW n \in Node, Stop(n)
      PROVE  cast'[b] = cast[b] \/ Advances(b)
  <2>1. CASE cast[b] # None /\ cast[b].node = n
    <3>1. cast[b] \in Broadcast
      BY <2>1, CastTyped
    <3>2. cast'[b] = [cast[b] EXCEPT !.stage = "done", !.todo = {}, !.pending = None]
      BY <1>3, <2>1 DEF Stop
    <3> QED
      BY <2>1, <3>1, <3>2 DEF Advances, Broadcast
  <2>2. CASE ~(cast[b] # None /\ cast[b].node = n)
    BY <1>3, <2>2 DEF Stop
  <2> QED
    BY <2>1, <2>2
<1>4. ASSUME NEW c \in Conn, StartDial(c) \/ DialFails(c) \/ Connect(c) \/ Accept(c)
      PROVE  UNCHANGED cast
  BY <1>4 DEF StartDial, DialFails, Connect, Accept
<1>5. ASSUME NEW n \in Node, NEW c \in Conn, Receive(n, c) \/ ClosePeer(n, c)
      PROVE  UNCHANGED cast
  BY <1>5 DEF Receive, ReceiveVersion, ReceiveVerack, ReceiveBlock, Ignore, ClosePeer
<1>6. ASSUME NEW n \in Node, NEW d \in Block, d # b, MineBlock(n, d)
      PROVE  cast'[b] = cast[b]
  BY <1>6 DEF MineBlock, NetTypes, TypeOK
<1>7. ASSUME NEW d \in Block, d # b, BeginBroadcast(d)
      PROVE  cast'[b] = cast[b]
  BY <1>7 DEF BeginBroadcast, NetTypes, TypeOK
<1>8. ASSUME NEW d \in Block, d # b, Send(d)
      PROVE  cast'[b] = cast[b]
  BY <1>8 DEF Send, NetTypes, TypeOK
<1>9. ASSUME NEW d \in Block, d # b, Skip(d) \/ Drained(d) \/ DrainFails(d) \/ EndBroadcast(d)
      PROVE  cast'[b] = cast[b]
  BY <1>9 DEF Skip, Drained, DrainFails, EndBroadcast, NetTypes, TypeOK
<1>10. CASE Skip(b) \/ Drained(b) \/ DrainFails(b) \/ EndBroadcast(b)
  <2>1. cast[b] # None /\ cast[b] \in Broadcast
    BY <1>10, CastTyped DEF Skip, Drained, DrainFails, EndBroadcast, Sending
  <2>2. \/ \E e : cast'[b] = [cast[b] EXCEPT !.todo = @ \ {e}]
        \/ cast'[b] = [cast[b] EXCEPT !.pending = None]
        \/ cast'[b] = [cast[b] EXCEPT !.stage = "done"]
    BY <1>10 DEF Skip, Drained, DrainFails, EndBroadcast, NetTypes, TypeOK
  <2> QED
    BY <2>1, <2>2 DEF Advances, Broadcast
<1>11. CASE UNCHANGED vars
  BY <1>11 DEF vars
<1> QED
  BY <1>1, <1>2, <1>3, <1>4, <1>5, <1>6, <1>7, <1>8, <1>9, <1>10, <1>11, SendIsOn DEF Next

(* What an entry of a table says of its connection.                        *)
LEMMA EntryHolds ==
  ASSUME NetTypes, LinkInv, TableInv, NEW n \in Node, NEW k \in DOMAIN peers[n]
  PROVE  /\ peers[n][k].conn \in Conn /\ n \in live[peers[n][k].conn]
         /\ Opened(peers[n][k].conn) /\ k = KeyOf(peers[n][k].conn, n)
         /\ n \in {link[peers[n][k].conn].from, link[peers[n][k].conn].to}
<1>1. peers[n][k].conn \in Conn /\ EntryOK(n, k)
  BY DEF TableInv, NetTypes, TypeOK, Peer
<1> QED
  BY <1>1 DEF EntryOK, LinkInv, LinkOK

LEMMA CastStep ==
  ASSUME NetTypes, LinkInv, TableInv, CastInv, [Next]_vars
  PROVE  CastInv'
<1> SUFFICES ASSUME NEW b \in Block
             PROVE  CastOK(b)'
  BY DEF CastInv
<1> DEFINE n == cast[b].node
<1>1. CastOK(b)
  BY DEF CastInv
<1>2. \A c \in Conn : Opened(c) =>
        /\ Opened(c)'
        /\ \A m \in Node : KeyOf(c, m)' = KeyOf(c, m)
        /\ link'[c].from = link[c].from /\ link'[c].to = link[c].to
  BY OpenedGrows, LinkMoves
<1>3. CASE cast'[b] = cast[b]
  <2>1. cast[b] # None => n \in Node /\ (\A e \in cast[b].todo : e[2] \in Conn)
    BY CastTyped
  <2>2. cast[b] # None /\ cast[b].pending # None =>
          cast[b].pending.conn \in Conn /\ cast[b].pending.peer \in Conn
    BY CastTyped
  <2> QED
    BY <1>1, <1>2, <1>3, <2>1, <2>2 DEF CastOK
<1>4. CASE Advances(b)
  <2>1. n \in Node /\ (\A e \in cast[b].todo : e[2] \in Conn)
    BY <1>4, CastTyped DEF Advances
  <2>2. cast[b].pending # None =>
          cast[b].pending.conn \in Conn /\ cast[b].pending.peer \in Conn
    BY <1>4, CastTyped DEF Advances
  <2> QED
    BY <1>1, <1>2, <1>4, <2>1, <2>2 DEF CastOK, Advances
<1>5. ASSUME NEW m \in Node, MineBlock(m, b)
      PROVE  CastOK(b)'
  <2>1. cast'[b] = [node |-> m, stage |-> "queued", todo |-> {}, pending |-> None]
    BY <1>5 DEF MineBlock, NetTypes, TypeOK
  <2> QED
    BY <2>1 DEF CastOK
<1>6. CASE BeginBroadcast(b)
  <2>1. cast[b] # None /\ cast[b] \in Broadcast /\ n \in Node
    BY <1>6, CastTyped DEF BeginBroadcast
  <2> DEFINE todo == {<<k, peers[n][k].conn>> : k \in DOMAIN peers[n]}
  <2>2. cast'[b] = [cast[b] EXCEPT !.stage = "sending", !.todo = todo]
    BY <1>6 DEF BeginBroadcast, NetTypes, TypeOK
  <2>3. ASSUME NEW e \in todo
        PROVE  e[2] \in Conn /\ Opened(e[2])' /\ e[1] = KeyOf(e[2], n)'
    <3>1. PICK k \in DOMAIN peers[n] : e = <<k, peers[n][k].conn>>
      OBVIOUS
    <3>2. Opened(e[2]) /\ e[2] \in Conn /\ e[1] = KeyOf(e[2], n)
      BY <2>1, <3>1, EntryHolds
    <3> QED
      <4>1. \A m \in Node : KeyOf(e[2], m)' = KeyOf(e[2], m)
        BY <1>2, <3>2
      <4>2. link'[e[2]].from = link[e[2]].from /\ link'[e[2]].to = link[e[2]].to
        BY <1>2, <3>2
      <4>3. n' = n
        BY <2>1, <2>2 DEF Broadcast
      <4> QED
        BY <1>2, <3>2, <4>2, <4>3 DEF KeyOf
  <2> HIDE DEF todo
  <2>4. cast'[b].todo = todo /\ cast'[b].pending = cast[b].pending /\ cast'[b].node = n
    BY <2>1, <2>2 DEF Broadcast
  <2>5. n' = n
    BY <2>4
  <2>6. \A e \in cast'[b].todo : Opened(e[2])' /\ e[1] = KeyOf(e[2], n)'
    BY <2>3, <2>4
  <2>7. cast[b].pending # None =>
          cast[b].pending.conn \in Conn /\ cast[b].pending.peer \in Conn
    BY <2>1, CastTyped
  <2> QED
    BY <1>1, <1>2, <2>1, <2>4, <2>5, <2>6, <2>7 DEF CastOK
<1>7. ASSUME NEW e \in cast[b].todo, SendOn(b, e)
      PROVE  CastOK(b)'
  <2>12. PICK w : w = [key |-> e[1], conn |-> e[2], peer |-> peers[n][e[1]].conn]
    OBVIOUS
  <2>1. cast[b] # None /\ cast[b] \in Broadcast /\ n \in Node
    BY <1>7, CastTyped DEF SendOn, Sending
  <2>2. cast'[b] = [cast[b] EXCEPT !.todo = @ \ {e}, !.pending = w] /\ n \in live[e[2]]
        /\ e[1] \in DOMAIN peers[n]
    BY <1>7, <2>12, <2>1 DEF SendOn, Wanted, NetTypes, TypeOK
  <2>3. cast'[b].node = n /\ cast'[b].todo = cast[b].todo \ {e} /\ cast'[b].pending = w
    <3> HIDE DEF n
    <3> QED
      BY <2>1, <2>2 DEF Broadcast, n
  <2>4. \A x \in cast[b].todo : x[2] \in Conn /\ Opened(x[2]) /\ x[1] = KeyOf(x[2], n)
    BY <1>1, <2>1, CastTyped DEF CastOK
  <2>5. /\ w.peer \in Conn /\ Opened(w.peer) /\ w.key = KeyOf(w.peer, n)
    BY <2>12, <2>1, <2>2, EntryHolds
  <2>6. /\ w.conn \in Conn /\ Opened(w.conn) /\ w.key = KeyOf(w.conn, n)
        /\ n \in {link[w.conn].from, link[w.conn].to}
    BY <2>12, <2>2, <2>4 DEF LinkInv, LinkOK
  <2>7. n' = n
    BY <2>3
  <2>8. ASSUME NEW c \in Conn, Opened(c)
        PROVE  Opened(c)' /\ KeyOf(c, n)' = KeyOf(c, n)
               /\ link'[c].from = link[c].from /\ link'[c].to = link[c].to
    BY <1>2, <2>7, <2>8 DEF KeyOf
  <2>9. \A x \in cast'[b].todo : Opened(x[2])' /\ x[1] = KeyOf(x[2], n)'
    BY <2>3, <2>4, <2>8
  <2>10. /\ Opened(w.conn)' /\ Opened(w.peer)'
         /\ w.key = KeyOf(w.conn, n)' /\ w.key = KeyOf(w.peer, n)'
         /\ n \in {link'[w.conn].from, link'[w.conn].to}
    BY <2>5, <2>6, <2>8
  <2>11. n' = cast'[b].node
    OBVIOUS
  <2> HIDE DEF n
  <2> QED
    BY <2>3, <2>7, <2>9, <2>10, <2>11 DEF CastOK
<1> QED
  BY <1>3, <1>4, <1>5, <1>6, <1>7, CastMoves

-----------------------------------------------------------------------------
(* Handshakes.                                                             *)

(* Where an entry comes from.                                              *)
LEMMA EntryMoves ==
  ASSUME NetTypes, LinkInv, [Next]_vars, NEW n \in Node, NEW k \in DOMAIN peers'[n]
  PROVE  \/ k \in DOMAIN peers[n] /\ peers'[n][k] = peers[n][k]
         \/ peers'[n][k].done = FALSE /\ peers'[n][k].known = {}
         \/ /\ k \in DOMAIN peers[n]
            /\ peers'[n][k].conn = peers[n][k].conn /\ peers'[n][k].known = peers[n][k].known
            /\ \E c \in Conn : Arrives(n, c) /\ Shaken(n, c) /\ k = KeyOf(c, n)
         \/ /\ k \in DOMAIN peers[n]
            /\ peers'[n][k].conn = peers[n][k].conn /\ peers'[n][k].done = peers[n][k].done
            /\ \E b \in Block :
                 /\ Drained(b) /\ n = cast[b].node /\ k = cast[b].pending.key
                 /\ peers[n][k].conn = cast[b].pending.peer
                 /\ peers'[n][k].known = peers[n][k].known \cup {b}
<1>1. CASE peers' = peers
  BY <1>1
<1>2. ASSUME NEW x \in Node, Resolve(x) \/ ResolveFails(x)
      PROVE  peers' = peers
  BY <1>2 DEF Resolve, ResolveFails
<1>3. ASSUME NEW x \in Node, Stop(x)
      PROVE  k \in DOMAIN peers[n] /\ peers'[n][k] = peers[n][k]
  <2>1. peers'[x] = << >> /\ \A m \in Node \ {x} : peers'[m] = peers[m]
    BY <1>3 DEF Stop, NetTypes
  <2> QED
    BY <2>1
<1>4. ASSUME NEW c \in Conn, StartDial(c) \/ DialFails(c)
      PROVE  peers' = peers
  BY <1>4 DEF StartDial, DialFails
<1>5. ASSUME NEW c \in Conn, Connect(c) \/ Accept(c)
      PROVE  \/ k \in DOMAIN peers[n] /\ peers'[n][k] = peers[n][k]
             \/ peers'[n][k].done = FALSE /\ peers'[n][k].known = {}
  <2>1. PICK y, key : y \in Node /\ peers' = Registered(y, key, c)
    BY <1>5 DEF Connect, Accept, NetTypes, TypeOK, Link
  <2>2. /\ DOMAIN peers'[y] = DOMAIN peers[y] \cup {key}
        /\ peers'[y][key] = [conn |-> c, done |-> FALSE, known |-> {}]
        /\ \A j \in DOMAIN peers[y] \ {key} : peers'[y][j] = peers[y][j]
        /\ \A m \in Node \ {y} : peers'[m] = peers[m]
    BY <2>1, RegisteredAt
  <2> QED
    BY <2>2
<1>6. ASSUME NEW x \in Node, NEW c \in Conn, Receive(x, c)
      PROVE  \/ k \in DOMAIN peers[n] /\ peers'[n][k] = peers[n][k]
             \/ /\ k \in DOMAIN peers[n]
                /\ peers'[n][k].conn = peers[n][k].conn
                /\ peers'[n][k].known = peers[n][k].known
                /\ Arrives(n, c) /\ Shaken(n, c) /\ k = KeyOf(c, n)
  <2>1. CASE peers' = peers
    BY <2>1
  <2>2. CASE Arrives(x, c) /\ Shaken(x, c) /\ KeyOf(c, x) \in DOMAIN peers[x]
    <3>1. /\ SameTable
          /\ \A j \in DOMAIN peers[x] \ {KeyOf(c, x)} : peers'[x][j] = peers[x][j]
          /\ \A m \in Node \ {x} : peers'[m] = peers[m]
          /\ \A m \in Node : \A j \in DOMAIN peers[m] : peers'[m][j].known = peers[m][j].known
      BY <2>2, ShakenAt
    <3> QED
      BY <2>2, <3>1 DEF SameTable
  <2> QED
    BY <1>6, <2>1, <2>2 DEF Receive, ReceiveVersion, ReceiveVerack, ReceiveBlock, Ignore
<1>7. ASSUME NEW x \in Node, NEW c \in Conn, ClosePeer(x, c)
      PROVE  k \in DOMAIN peers[n] /\ peers'[n][k] = peers[n][k]
  <2>1. /\ DOMAIN peers'[x] = DOMAIN peers[x] \ {KeyOf(c, x)}
        /\ \A j \in DOMAIN peers[x] \ {KeyOf(c, x)} : peers'[x][j] = peers[x][j]
        /\ \A m \in Node \ {x} : peers'[m] = peers[m]
    BY <1>7, PoppedAt DEF ClosePeer
  <2> QED
    BY <2>1
<1>8. ASSUME NEW x \in Node, NEW b \in Block, MineBlock(x, b)
      PROVE  peers' = peers
  BY <1>8 DEF MineBlock
<1>9. ASSUME NEW b \in Block,
             BeginBroadcast(b) \/ Send(b) \/ Skip(b) \/ DrainFails(b) \/ EndBroadcast(b)
      PROVE  peers' = peers
  BY <1>9 DEF BeginBroadcast, Send, Skip, DrainFails, EndBroadcast
<1>10. ASSUME NEW b \in Block, Drained(b)
       PROVE  \/ k \in DOMAIN peers[n] /\ peers'[n][k] = peers[n][k]
              \/ /\ k \in DOMAIN peers[n]
                 /\ peers'[n][k].conn = peers[n][k].conn
                 /\ peers'[n][k].done = peers[n][k].done
                 /\ n = cast[b].node /\ k = cast[b].pending.key
                 /\ peers[n][k].conn = cast[b].pending.peer
                 /\ peers'[n][k].known = peers[n][k].known \cup {b}
  <2>1. k \in DOMAIN peers[n] /\ peers'[n][k].conn = peers[n][k].conn
    BY <1>10, DrainedAt DEF SameTable
  <2> QED
    BY <1>10, <2>1, DrainedAt
<1>11. CASE UNCHANGED vars
  BY <1>11 DEF vars
<1> QED
  BY <1>1, <1>2, <1>3, <1>4, <1>5, <1>6, <1>7, <1>8, <1>9, <1>10, <1>11 DEF Next

LEMMA ShakenStep ==
  ASSUME NetTypes, LinkInv, TableInv, ShakenInv, [Next]_vars
  PROVE  ShakenInv'
<1> SUFFICES ASSUME NEW n \in Node, NEW k \in DOMAIN peers'[n], peers'[n][k].done,
                    NEW d, d = peers'[n][k].conn
             PROVE  Met(n, d)'
  BY DEF ShakenInv
<1>1. CASE /\ k \in DOMAIN peers[n] /\ peers'[n][k].conn = peers[n][k].conn
           /\ peers'[n][k].done = peers[n][k].done
  <2>1. d \in Conn /\ Opened(d) /\ Met(n, d)
    BY <1>1, EntryHolds DEF ShakenInv
  <2> QED
    BY <2>1, OpenedGrows
<1>2. ASSUME k \in DOMAIN peers[n], peers'[n][k].conn = peers[n][k].conn,
             NEW c \in Conn, Arrives(n, c), Shaken(n, c), k = KeyOf(c, n)
      PROVE  Met(n, d)'
  <2>1. d \in Conn /\ Opened(d) /\ Opened(c) /\ KeyOf(c, n) = KeyOf(d, n)
    BY <1>2, EntryHolds, ArrivesTyped
  <2>2. n \in met'[c]
    BY <1>2 DEF Shaken, NetTypes, TypeOK
  <2>3. CASE d = c
    BY <2>2, <2>3 DEF Met
  <2>4. CASE d # c
    <3>1. n = link[d].from /\ Twin(d)
      BY <2>1, <2>4, SameKey
    <3>2. n = link'[d].from /\ Twin(d)'
      BY <2>1, <3>1, OpenedGrows, LinkMoves
    <3> QED
      BY <2>2, <3>2 DEF Met
  <2> QED
    BY <2>3, <2>4
<1> QED
  BY <1>1, <1>2, EntryMoves

(* Where a block in flight comes from.                                     *)
LEMMA WireMoves ==
  ASSUME NetTypes, LinkInv, CastInv, [Next]_vars,
         NEW c \in Conn, NEW m \in Node, NEW b \in Block, OnWire(c, m, b)'
  PROVE  \/ OnWire(c, m, b)
         \/ \E e \in cast[b].todo : /\ SendOn(b, e) /\ e[2] = c
                                    /\ m = Other(c, cast[b].node)
<1>1. wire[c][m] \in Seq(Message) /\ b # "version" /\ b # "verack"
  BY NetworkAssumption DEF NetTypes, TypeOK
<1>2. ASSUME wire'[c][m] = wire[c][m] \/ wire'[c][m] = << >>
      PROVE  OnWire(c, m, b)
  BY <1>2 DEF OnWire
<1>3. ASSUME wire[c][m] # << >>, wire'[c][m] = Tail(wire[c][m])
      PROVE  OnWire(c, m, b)
  BY <1>1, <1>3 DEF OnWire
<1>4. ASSUME NEW msg \in Message \ {b}, wire'[c][m] = Append(wire[c][m], msg)
      PROVE  OnWire(c, m, b)
  BY <1>1, <1>4 DEF OnWire
<1>5. CASE \/ Untouched(c)
           \/ UNCHANGED <<live, wire, met>>
           \/ StartDial(c) \/ DialFails(c)
  BY <1>2, <1>5 DEF Untouched, StartDial, DialFails
<1>6. ASSUME NEW n \in Node, Stop(n)
      PROVE  wire'[c][m] = wire[c][m] \/ wire'[c][m] = << >>
  BY <1>6 DEF Stop, NetTypes, TypeOK
<1>7. CASE Connect(c)
  <2>1. wire'[c][m] = wire[c][m] \/ wire'[c][m] = <<"version">>
    BY <1>7 DEF Connect, NetTypes, TypeOK, Link
  <2> QED
    BY <1>1, <1>2, <2>1 DEF OnWire
<1>8. CASE Accept(c)
  <2>1. wire'[c][m] = wire[c][m] \/ wire'[c][m] = Append(wire[c][m], "version")
    BY <1>8 DEF Accept, Written, NetTypes, TypeOK, Link
  <2> QED
    BY <1>1, <1>2, <1>4, <2>1 DEF Message
<1>9. ASSUME NEW n \in Node, Receive(n, c)
      PROVE  OnWire(c, m, b)
  <2>1. Arrives(n, c)
    BY <1>9 DEF Receive, ReceiveVersion, ReceiveVerack, ReceiveBlock, Ignore
  <2>2. Other(c, n) \in Node /\ Other(c, n) # n
    BY <2>1, ArrivesTyped
  <2>3. \/ wire'[c][m] = wire[c][m]
        \/ wire[c][m] # << >> /\ wire'[c][m] = Tail(wire[c][m])
        \/ wire'[c][m] = Append(wire[c][m], "verack")
    <3>1. \/ wire' = [wire EXCEPT ![c][n] = Tail(@)]
          \/ wire' = [wire EXCEPT ![c][n] = Tail(@),
                                  ![c][Other(c, n)] = Written(c, Other(c, n), "verack")]
      BY <1>9 DEF Receive, ReceiveVersion, ReceiveVerack, ReceiveBlock, Ignore
    <3>2. \/ Written(c, Other(c, n), "verack") = wire[c][Other(c, n)]
          \/ Written(c, Other(c, n), "verack") = Append(wire[c][Other(c, n)], "verack")
      BY DEF Written
    <3>3. wire[c][n] # << >>
      BY <2>1 DEF Arrives
    <3>4. CASE wire' = [wire EXCEPT ![c][n] = Tail(@)]
      BY <2>2, <3>3, <3>4 DEF NetTypes, TypeOK
    <3>5. CASE wire' = [wire EXCEPT ![c][n] = Tail(@),
                                    ![c][Other(c, n)] = Written(c, Other(c, n), "verack")]
      <4> DEFINE o == Other(c, n)
                 s == Written(c, o, "verack")
      <4>1. wire' = [wire EXCEPT ![c][n] = Tail(@), ![c][o] = s]
        BY <3>5
      <4>2. o \in Node /\ o # n
        BY <2>2
      <4>3. s = wire[c][o] \/ s = Append(wire[c][o], "verack")
        BY <3>2
      <4> HIDE DEF o, s
      <4>4. wire'[c][m] = IF m = o THEN s ELSE IF m = n THEN Tail(wire[c][n]) ELSE wire[c][m]
        BY <4>1, <4>2 DEF NetTypes, TypeOK
      <4> QED
        BY <3>3, <4>3, <4>4
    <3> QED
      BY <3>1, <3>4, <3>5
  <2> QED
    <3>1. CASE wire'[c][m] = wire[c][m]
      BY <1>2, <3>1
    <3>2. CASE wire[c][m] # << >> /\ wire'[c][m] = Tail(wire[c][m])
      BY <1>3, <3>2
    <3>3. CASE wire'[c][m] = Append(wire[c][m], "verack")
      BY <1>1, <1>4, <3>3 DEF Message
    <3> QED
      BY <2>3, <3>1, <3>2, <3>3
<1>10. ASSUME NEW n \in Node, ClosePeer(n, c)
      PROVE  wire'[c][m] = wire[c][m] \/ wire'[c][m] = << >>
  BY <1>10 DEF ClosePeer, NetTypes, TypeOK
<1>11. ASSUME NEW d \in Block, NEW e \in cast[d].todo, SendOn(d, e), e[2] = c
       PROVE  \/ OnWire(c, m, b)
              \/ d = b /\ m = Other(c, cast[b].node)
  <2> DEFINE o == Other(c, cast[d].node)
  <2>1. wire' = [wire EXCEPT ![c][o] = Written(c, o, d)]
    BY <1>11 DEF SendOn
  <2>2. wire'[c][m] = wire[c][m] \/ (m = o /\ wire'[c][m] = Append(wire[c][m], d))
    BY <2>1 DEF Written, NetTypes, TypeOK
  <2> QED
    BY <1>2, <1>4, <2>2 DEF Message, OnWire
<1> QED
  BY <1>2, <1>5, <1>6, <1>7, <1>8, <1>9, <1>10, <1>11, Touches

LEMMA WireStep ==
  ASSUME NetTypes, LinkInv, TableInv, ShakenInv, WireInv, CastInv, [Next]_vars
  PROVE  WireInv'
<1> SUFFICES ASSUME NEW c \in Conn, NEW m \in Node, NEW b \in Block, OnWire(c, m, b)',
                    NEW x, x = Other(c, m)'
             PROVE  Met(x, c)'
  BY DEF WireInv
<1>1. CASE OnWire(c, m, b)
  <2>1. Opened(c)
    BY <1>1 DEF OnWire, LinkInv, LinkOK
  <2>2. x = Other(c, m) /\ x \in Node
    BY <2>1, OpenedGrows, OpenedTyped
  <2>3. Met(x, c)
    BY <1>1, <2>2 DEF WireInv
  <2> QED
    BY <2>1, <2>2, <2>3, OpenedGrows
<1>2. ASSUME NEW e \in cast[b].todo, SendOn(b, e), e[2] = c, m = Other(c, cast[b].node)
      PROVE  Met(x, c)'
  <2> DEFINE n == cast[b].node
             d == peers[n][e[1]].conn
  <2>1. /\ cast[b] # None /\ n \in Node /\ n \in live[c]
        /\ e[1] \in DOMAIN peers[n] /\ peers[n][e[1]].done
    BY <1>2, CastTyped DEF SendOn, Sending, Wanted
  <2>2. Opened(c) /\ n \in {link[c].from, link[c].to}
    BY <2>1 DEF LinkInv, LinkOK
  <2>3. x = n
    BY <1>2, <2>1, <2>2, OpenedGrows, OpenedTyped
  <2>4. d \in Conn /\ Opened(d) /\ e[1] = KeyOf(d, n) /\ Met(n, d)
    BY <2>1, EntryHolds DEF ShakenInv
  <2>5. e[1] = KeyOf(c, n)
    BY <1>2, <2>1 DEF CastInv, CastOK
  <2>6. Met(n, c)
    <3>1. CASE c = d
      BY <2>4, <3>1
    <3>2. CASE c # d
      <4>1. n = link[c].from /\ Twin(c)
        BY <2>1, <2>2, <2>4, <2>5, <3>2, SameKey
      <4> QED
        BY <2>4, <4>1 DEF Met
    <3> QED
      BY <3>1, <3>2
  <2> QED
    BY <2>1, <2>2, <2>3, <2>6, OpenedGrows
<1> QED
  BY <1>1, <1>2, WireMoves

-----------------------------------------------------------------------------
(* What is noted as known.                                                 *)
LEMMA HeardGrows ==
  ASSUME NetTypes, [Next]_vars, NEW m \in Node
  PROVE  heard[m] \subseteq heard'[m]
<1>1. CASE UNCHANGED heard
  BY <1>1
<1>2. ASSUME NEW n \in Node, NEW c \in Conn, Receive(n, c)
      PROVE  heard[m] \subseteq heard'[m]
  <2>1. heard' = heard \/ heard' = [heard EXCEPT ![n] = @ \cup {Head(wire[c][n])}]
    BY <1>2 DEF Receive, ReceiveVersion, ReceiveVerack, ReceiveBlock, Ignore
  <2> QED
    BY <2>1 DEF NetTypes, TypeOK
<1>3. ASSUME NEW n \in Node, Resolve(n) \/ ResolveFails(n) \/ Stop(n)
      PROVE  UNCHANGED heard
  BY <1>3 DEF Resolve, ResolveFails, Stop
<1>4. ASSUME NEW c \in Conn, StartDial(c) \/ DialFails(c) \/ Connect(c) \/ Accept(c)
      PROVE  UNCHANGED heard
  BY <1>4 DEF StartDial, DialFails, Connect, Accept
<1>5. ASSUME NEW n \in Node, NEW c \in Conn, ClosePeer(n, c)
      PROVE  UNCHANGED heard
  BY <1>5 DEF ClosePeer
<1>6. ASSUME NEW n \in Node, NEW b \in Block, MineBlock(n, b)
      PROVE  UNCHANGED heard
  BY <1>6 DEF MineBlock
<1>7. ASSUME NEW b \in Block, \/ BeginBroadcast(b) \/ Send(b) \/ Skip(b)
                              \/ Drained(b) \/ DrainFails(b) \/ EndBroadcast(b)
      PROVE  UNCHANGED heard
  BY <1>7 DEF BeginBroadcast, Send, Skip, Drained, DrainFails, EndBroadcast
<1>8. CASE UNCHANGED vars
  BY <1>8 DEF vars
<1> QED
  BY <1>1, <1>2, <1>3, <1>4, <1>5, <1>6, <1>7, <1>8 DEF Next

(* An end that bytes cannot reach is not reached again.                    *)
LEMMA ReachesEnds ==
  ASSUME NetTypes, LinkInv, TableInv, [Next]_vars,
         NEW c \in Conn, Opened(c), NEW m \in Node, ~Reaches(c, m)
  PROVE  ~Reaches(c, m)'
<1>1. /\ link'[c].to = link[c].to /\ (link'[c].stage = link[c].stage \/ Accept(c))
      /\ link[c].stage = "accepted" => link'[c].stage = "accepted"
  BY LinkMoves
<1>2. CASE Accept(c)
  BY <1>1, <1>2 DEF Accept, Reaches, NetTypes, TypeOK, Link
<1>3. CASE ~Accept(c)
  <2>1. live'[c] \subseteq live[c]
    <3>1. CASE live' = live
      BY <3>1
    <3>2. ASSUME NEW n \in Node, Stop(n)
          PROVE  live'[c] \subseteq live[c]
      BY <3>2 DEF Stop
    <3>3. ASSUME NEW d \in Conn, Connect(d) \/ Accept(d)
          PROVE  live'[c] \subseteq live[c]
      <4>1. d # c
        BY <1>3, <3>3 DEF Connect, Opened
      <4> QED
        BY <3>3, <4>1 DEF Connect, Accept, NetTypes, TypeOK
    <3>4. ASSUME NEW n \in Node, NEW d \in Conn, ClosePeer(n, d)
          PROVE  live'[c] \subseteq live[c]
      BY <3>4 DEF ClosePeer, NetTypes, TypeOK
    <3> QED
      BY <3>1, <3>2, <3>3, <3>4, TableMoves
  <2> QED
    BY <1>1, <1>3, <2>1 DEF Reaches
<1> QED
  BY <1>2, <1>3

LEMMA TailKeeps ==
  ASSUME NEW S, NEW s \in Seq(S), s # << >>, NEW i \in DOMAIN s, i # 1
  PROVE  i - 1 \in DOMAIN Tail(s) /\ Tail(s)[i - 1] = s[i]
<1>1. i \in 2..Len(s)
  OBVIOUS
<1>2. DOMAIN Tail(s) = 1..(Len(s) - 1)
  OBVIOUS
<1>3. i - 1 \in 1..(Len(s) - 1)
  BY <1>1
<1>4. Tail(s)[i - 1] = s[(i - 1) + 1]
  BY <1>2, <1>3
<1> QED
  BY <1>1, <1>2, <1>3, <1>4

LEMMA SentStays ==
  ASSUME NetTypes, LinkInv, TableInv, WireInv, CastInv, [Next]_vars,
         NEW c \in Conn, Opened(c), NEW m \in Node, NEW b \in Block, Sent(c, m, b)
  PROVE  Sent(c, m, b)'
<1>1. CASE b \in heard[m] \/ ~Reaches(c, m) \/ Twin(c)
  <2>1. b \in heard[m] => b \in heard'[m]
    BY HeardGrows
  <2>2. ~Reaches(c, m) => ~Reaches(c, m)'
    BY ReachesEnds
  <2>3. Twin(c) => Twin(c)'
    BY OpenedGrows
  <2> QED
    BY <1>1, <2>1, <2>2, <2>3 DEF Sent
<1>2. CASE OnWire(c, m, b) /\ ~Twin(c)
  <2>1. PICK i \in DOMAIN wire[c][m] : wire[c][m][i] = b
    BY <1>2 DEF OnWire
  <2>2. wire[c][m] \in Seq(Message) /\ b # "version" /\ b # "verack"
    BY NetworkAssumption DEF NetTypes, TypeOK
  <2>3. ASSUME wire'[c][m] = wire[c][m]
        PROVE  Sent(c, m, b)'
    BY <1>2, <2>3 DEF Sent, OnWire
  <2>4. ASSUME NEW msg, wire'[c][m] = Append(wire[c][m], msg)
        PROVE  Sent(c, m, b)'
    <3>1. i \in DOMAIN wire'[c][m] /\ wire'[c][m][i] = b
      BY <2>1, <2>2, <2>4
    <3> QED
      BY <3>1 DEF Sent, OnWire
  <2>5. ASSUME wire[c][m] # << >>, wire'[c][m] = Tail(wire[c][m]), Head(wire[c][m]) # b
        PROVE  Sent(c, m, b)'
    <3>1. i # 1
      BY <2>1, <2>2, <2>5
    <3>2. i - 1 \in DOMAIN wire'[c][m] /\ wire'[c][m][i - 1] = b
      BY <2>1, <2>2, <2>5, <3>1, TailKeeps
    <3> QED
      BY <3>2 DEF Sent, OnWire
  <2>6. CASE \/ Untouched(c)
             \/ UNCHANGED <<live, wire, met>>
             \/ StartDial(c) \/ DialFails(c)
    BY <2>3, <2>6 DEF Untouched, StartDial, DialFails
  <2>7. ASSUME NEW n \in Node, Stop(n)
        PROVE  Sent(c, m, b)'
    <3>1. CASE n # m
      BY <2>3, <2>7, <3>1 DEF Stop, NetTypes, TypeOK
    <3>2. CASE n = m
      <4>1. m \notin live'[c] /\ link'[c] = link[c]
        BY <2>7, <3>2 DEF Stop, Opened
      <4>2. ~(link[c].stage = "open" /\ m = link[c].to)
        <5>1. SUFFICES ASSUME link[c].stage = "open", m = link[c].to
                       PROVE  FALSE
          OBVIOUS
        <5>2. met[c] = {}
          BY <5>1 DEF LinkInv, LinkOK
        <5>3. Met(Other(c, m), c)
          BY <1>2 DEF WireInv
        <5> QED
          BY <1>2, <5>2, <5>3 DEF Met
      <4> QED
        BY <4>1, <4>2 DEF Sent, Reaches
    <3> QED
      BY <3>1, <3>2
  <2>8. CASE Connect(c)
    BY <2>8 DEF Connect, Opened
  <2>9. CASE Accept(c)
    <3>1. wire'[c][m] = wire[c][m] \/ wire'[c][m] = Append(wire[c][m], "version")
      BY <2>9 DEF Accept, Written, NetTypes, TypeOK
    <3> QED
      BY <2>3, <2>4, <3>1
  <2>10. ASSUME NEW n \in Node, Receive(n, c)
         PROVE  Sent(c, m, b)'
    <3>1. Arrives(n, c)
      BY <2>10 DEF Receive, ReceiveVersion, ReceiveVerack, ReceiveBlock, Ignore
    <3>2. Other(c, n) \in Node /\ Other(c, n) # n
      BY <3>1, ArrivesTyped
    <3>3. CASE ReceiveVersion(n, c)
      <4> DEFINE o == Other(c, n)
                 s == Written(c, o, "verack")
      <4>1. wire' = [wire EXCEPT ![c][n] = Tail(@), ![c][o] = s] /\ Head(wire[c][n]) = "version"
        BY <3>3 DEF ReceiveVersion
      <4>2. o \in Node /\ o # n
        BY <3>2
      <4>3. s = wire[c][o] \/ s = Append(wire[c][o], "verack")
        BY DEF Written
      <4> HIDE DEF o, s
      <4>4. wire'[c][m] = IF m = o THEN s ELSE IF m = n THEN Tail(wire[c][n]) ELSE wire[c][m]
        BY <4>1, <4>2 DEF NetTypes, TypeOK
      <4>5. CASE m = o
        BY <2>3, <2>4, <4>3, <4>4, <4>5
      <4>6. CASE m # o /\ m = n
        BY <2>2, <2>5, <3>1, <4>1, <4>4, <4>6 DEF Arrives
      <4>7. CASE m # o /\ m # n
        BY <2>3, <4>4, <4>7
      <4> QED
        BY <4>5, <4>6, <4>7
    <3>4. CASE ReceiveVerack(n, c)
      <4>1. /\ wire'[c][m] = IF m = n THEN Tail(wire[c][n]) ELSE wire[c][m]
            /\ Head(wire[c][n]) = "verack"
        BY <3>4 DEF ReceiveVerack, NetTypes, TypeOK
      <4> QED
        BY <2>2, <2>3, <2>5, <3>1, <4>1 DEF Arrives
    <3>5. CASE ReceiveBlock(n, c)
      <4>1. /\ wire'[c][m] = IF m = n THEN Tail(wire[c][n]) ELSE wire[c][m]
            /\ Head(wire[c][n]) \in heard'[n]
        BY <3>5 DEF ReceiveBlock, NetTypes, TypeOK
      <4>2. CASE m = n /\ Head(wire[c][n]) = b
        BY <4>1, <4>2 DEF Sent
      <4> QED
        BY <2>3, <2>5, <3>1, <4>1, <4>2 DEF Arrives
    <3>6. CASE Ignore(n, c)
      <4>1. n \in live[c] /\ KeyOf(c, n) \notin DOMAIN peers[n]
        BY <3>6 DEF Ignore, Arrives
      <4>2. Twin(c)
        BY <4>1 DEF TableInv, Listed
      <4> QED
        BY <1>2, <4>2
    <3> QED
      BY <2>10, <3>3, <3>4, <3>5, <3>6 DEF Receive
  <2>11. ASSUME NEW n \in Node, ClosePeer(n, c)
         PROVE  Sent(c, m, b)'
    <3>1. CASE n # m
      BY <2>3, <2>11, <3>1 DEF ClosePeer, NetTypes, TypeOK
    <3>2. CASE n = m
      <4>1. m \notin live'[c] /\ link' = link
        BY <2>11, <3>2 DEF ClosePeer, NetTypes, TypeOK
      <4>2. ~(link[c].stage = "open" /\ m = link[c].to)
        BY <2>11, <3>2 DEF ClosePeer, LinkInv, LinkOK
      <4> QED
        BY <4>1, <4>2 DEF Sent, Reaches
    <3> QED
      BY <3>1, <3>2
  <2>12. ASSUME NEW d \in Block, NEW e \in cast[d].todo, SendOn(d, e), e[2] = c
         PROVE  Sent(c, m, b)'
    <3> DEFINE o == Other(c, cast[d].node)
    <3>1. wire' = [wire EXCEPT ![c][o] = Written(c, o, d)]
      BY <2>12 DEF SendOn
    <3>2. wire'[c][m] = wire[c][m] \/ wire'[c][m] = Append(wire[c][m], d)
      BY <3>1 DEF Written, NetTypes, TypeOK
    <3> QED
      BY <2>3, <2>4, <3>2
  <2> QED
    BY <2>6, <2>7, <2>8, <2>9, <2>10, <2>11, <2>12, Touches
<1> QED
  BY <1>1, <1>2 DEF Sent

LEMMA SentStep ==
  ASSUME NetTypes, LinkInv, TableInv, WireInv, CastInv, SentInv, [Next]_vars
  PROVE  SentInv'
<1>1. NetTypes'
  BY NetTypesStep
(* A block that had been written to n's peer on c still has been.          *)
<1>2. ASSUME NEW n \in Node, NEW c \in Conn, Opened(c), NEW b \in Block, Sent(c, Other(c, n), b)
      PROVE  Sent(c, Other(c, n), b)'
  <2>1. PICK m \in Node : m = Other(c, n) /\ m = Other(c, n)'
    BY <1>2, OpenedTyped, OpenedGrows
  <2>2. Sent(c, m, b)'
    BY <1>2, <2>1, SentStays
  <2> QED
    BY <2>1, <2>2 DEF Sent, OnWire, Reaches
<1>3. ASSUME NEW n \in Node, NEW k \in DOMAIN peers'[n], NEW b \in peers'[n][k].known,
             NEW d, d = peers'[n][k].conn
      PROVE  Sent(d, Other(d, n), b)'
  <2>1. b \in Block
    BY <1>1, <1>3 DEF NetTypes, TypeOK, Peer
  <2>2. CASE k \in DOMAIN peers[n] /\ peers'[n][k].conn = peers[n][k].conn /\ b \in peers[n][k].known
    <3>1. d \in Conn /\ Opened(d)
      BY <1>3, <2>2, EntryHolds
    <3>2. Sent(d, Other(d, n), b)
      BY <1>3, <2>2 DEF SentInv
    <3> QED
      BY <1>2, <2>1, <3>1, <3>2
  <2>3. ASSUME k \in DOMAIN peers[n], peers'[n][k].conn = peers[n][k].conn,
               Drained(b), n = cast[b].node, k = cast[b].pending.key,
               peers[n][k].conn = cast[b].pending.peer
        PROVE  Sent(d, Other(d, n), b)'
    <3> DEFINE c == cast[b].pending.conn
    <3>1. cast[b] # None /\ cast[b].pending # None
      BY <2>3 DEF Drained
    <3>2. /\ c \in Conn /\ d \in Conn /\ Opened(c) /\ Opened(d)
          /\ KeyOf(c, n) = KeyOf(d, n)
      BY <1>3, <2>1, <2>3, <3>1, CastTyped DEF CastInv, CastOK
    <3>3. Sent(c, Other(c, n), b)
      BY <2>1, <2>3, <3>1 DEF SentInv
    <3>4. Sent(d, Other(d, n), b)
      <4>1. CASE c = d
        BY <3>3, <4>1
      <4>2. CASE c # d
        <5>1. Twin(d)
          BY <3>2, <4>2, SameKey
        <5> QED
          BY <5>1 DEF Sent
      <4> QED
        BY <4>1, <4>2
    <3> QED
      BY <1>2, <2>1, <3>2, <3>4
  <2>4. \/ /\ k \in DOMAIN peers[n] /\ peers'[n][k].conn = peers[n][k].conn
           /\ b \in peers[n][k].known
        \/ /\ k \in DOMAIN peers[n] /\ peers'[n][k].conn = peers[n][k].conn
           /\ Drained(b) /\ n = cast[b].node /\ k = cast[b].pending.key
           /\ peers[n][k].conn = cast[b].pending.peer
    <3>1. CASE k \in DOMAIN peers[n] /\ peers'[n][k] = peers[n][k]
      BY <1>3, <3>1
    <3>2. CASE peers'[n][k].known = {}
      BY <1>3, <3>2
    <3>3. CASE /\ k \in DOMAIN peers[n] /\ peers'[n][k].conn = peers[n][k].conn
               /\ peers'[n][k].known = peers[n][k].known
      BY <1>3, <3>3
    <3>4. ASSUME k \in DOMAIN peers[n], peers'[n][k].conn = peers[n][k].conn,
                 NEW x \in Block, Drained(x), n = cast[x].node, k = cast[x].pending.key,
                 peers[n][k].conn = cast[x].pending.peer,
                 peers'[n][k].known = peers[n][k].known \cup {x}
          PROVE  \/ b \in peers[n][k].known
                 \/ /\ Drained(b) /\ n = cast[b].node /\ k = cast[b].pending.key
                    /\ peers[n][k].conn = cast[b].pending.peer
      <4>1. b \in peers[n][k].known \/ b = x
        BY <1>3, <3>4
      <4> QED
        BY <3>4, <4>1
    <3> QED
      BY <3>1, <3>2, <3>3, <3>4, EntryMoves
  <2> QED
    BY <2>2, <2>3, <2>4
<1>4. ASSUME NEW b \in Block, cast'[b] # None, cast'[b].pending # None,
             NEW n, n = cast'[b].node, NEW c, c = cast'[b].pending.conn
      PROVE  Sent(c, Other(c, n), b)'
  <2>1. ASSUME cast[b] # None, cast'[b].node = cast[b].node, cast'[b].pending = cast[b].pending
        PROVE  Sent(c, Other(c, n), b)'
    <3>1. n \in Node /\ c \in Conn /\ Opened(c)
      BY <1>4, <2>1, CastTyped DEF CastInv, CastOK
    <3>2. Sent(c, Other(c, n), b)
      BY <1>4, <2>1 DEF SentInv
    <3> QED
      BY <1>2, <3>1, <3>2
  <2>2. ASSUME NEW m \in Node, MineBlock(m, b)
        PROVE  FALSE
    <3>1. cast'[b] = [node |-> m, stage |-> "queued", todo |-> {}, pending |-> None]
      BY <2>2 DEF MineBlock, NetTypes, TypeOK
    <3> QED
      BY <1>4, <3>1
  <2>3. CASE BeginBroadcast(b)
    <3>1. cast[b] # None /\ cast[b] \in Broadcast
      BY <2>3, CastTyped DEF BeginBroadcast
    <3>2. \E todo : cast'[b] = [cast[b] EXCEPT !.stage = "sending", !.todo = todo]
      BY <2>3 DEF BeginBroadcast, NetTypes, TypeOK
    <3> QED
      BY <2>1, <3>1, <3>2 DEF Broadcast
  <2>4. ASSUME NEW e \in cast[b].todo, SendOn(b, e)
        PROVE  Sent(c, Other(c, n), b)'
    <3>1. cast[b] # None /\ cast[b] \in Broadcast /\ cast[b].node \in Node
      BY <2>4, CastTyped DEF SendOn, Sending
    <3>2. PICK w : w = [key |-> e[1], conn |-> e[2], peer |-> peers[cast[b].node][e[1]].conn]
      OBVIOUS
    <3>3. cast'[b] = [cast[b] EXCEPT !.todo = @ \ {e}, !.pending = w]
      BY <2>4, <3>2 DEF SendOn, NetTypes, TypeOK
    <3>4. n = cast[b].node /\ c = e[2] /\ c \in Conn /\ Opened(c)
      <4>1. cast'[b].node = cast[b].node /\ cast'[b].pending = w
        BY <3>1, <3>3 DEF Broadcast
      <4> QED
        BY <1>4, <2>4, <3>1, <3>2, <4>1, CastTyped DEF CastInv, CastOK
    <3>5. PICK m \in Node : m = Other(c, n) /\ m = Other(c, n)'
      BY <3>1, <3>4, OpenedTyped, OpenedGrows
    <3>6. wire' = [wire EXCEPT ![c][m] = Written(c, m, b)] /\ UNCHANGED <<link, live>>
      BY <2>4, <3>4, <3>5 DEF SendOn
    <3>7. wire'[c][m] = Written(c, m, b) /\ wire[c][m] \in Seq(Message)
      BY <3>4, <3>6 DEF NetTypes, TypeOK
    <3>8. Sent(c, m, b)'
      <4>1. CASE Reaches(c, m)
        <5>1. wire'[c][m] = Append(wire[c][m], b)
          BY <3>7, <4>1 DEF Written
        <5>2. \E i \in DOMAIN wire'[c][m] : wire'[c][m][i] = b
          <6>1. Len(wire[c][m]) + 1 \in DOMAIN wire'[c][m]
                /\ wire'[c][m][Len(wire[c][m]) + 1] = b
            BY <3>7, <5>1
          <6> QED
            BY <6>1
        <5> QED
          BY <5>2 DEF Sent, OnWire
      <4>2. CASE ~Reaches(c, m)
        BY <3>6, <4>2 DEF Sent, Reaches
      <4> QED
        BY <4>1, <4>2
    <3> QED
      BY <3>5, <3>8 DEF Sent, OnWire, Reaches
  <2> QED
    BY <1>4, <2>1, <2>2, <2>3, <2>4, CastMoves DEF Advances
<1> QED
  BY <1>3, <1>4 DEF SentInv

-----------------------------------------------------------------------------
LEMMA NetInit ==
  ASSUME Init
  PROVE  NetInv
<1>1. \A c \in Conn : ~Opened(c) /\ link[c] = None
  BY DEF Init, Opened
<1>2. \A b \in Block : cast[b] = None
  BY DEF Init
<1>3. \A n \in Node : DOMAIN peers[n] = {}
  <2>1. \A n \in Node : peers[n] = << >>
    BY DEF Init
  <2> QED
    BY <2>1
<1>4. \A c \in Conn, n \in Node : wire[c][n] = << >> /\ live[c] = {} /\ met[c] = {}
  BY DEF Init
<1>5. NetTypes
  <2>1. \A n \in Node : << >> \in Seq(Message)
    OBVIOUS
  <2>2. DOMAIN peers = Node
    BY DEF Init
  <2>3. wire \in [Conn -> [Node -> Seq(Message)]]
    BY <2>1 DEF Init
  <2> QED
    BY <1>3, <2>2, <2>3, NetworkAssumption DEF Init, NetTypes, TypeOK
<1>6. LinkInv
  BY <1>1, <1>4 DEF Init, LinkInv, LinkOK
<1>7. TableInv
  BY <1>3, <1>4 DEF TableInv, Listed
<1>8. ShakenInv /\ CastInv /\ SentInv
  BY <1>2, <1>3 DEF ShakenInv, CastInv, CastOK, SentInv
<1>9. WireInv
  BY <1>4 DEF WireInv, OnWire
<1> QED
  BY <1>5, <1>6, <1>7, <1>8, <1>9 DEF NetInv

LEMMA NetStep ==
  ASSUME NetInv, [Next]_vars
  PROVE  NetInv'
<1>1. NetTypes /\ LinkInv /\ TableInv /\ ShakenInv /\ WireInv /\ CastInv /\ SentInv
  BY DEF NetInv
<1>2. NetTypes' /\ LinkInv' /\ TableInv' /\ CastInv'
  BY <1>1, NetTypesStep, LinkStep, TableStep, CastStep
<1>3. ShakenInv' /\ WireInv' /\ SentInv'
  BY <1>1, ShakenStep, WireStep, SentStep
<1> QED
  BY <1>2, <1>3 DEF NetInv

LEMMA NetHolds == Spec => []NetInv
<1>1. Init => NetInv
  BY NetInit
<1>2. NetInv /\ [Next]_vars => NetInv'
  BY NetStep
<1> QED
  BY <1>1, <1>2, PTL DEF Spec

LEMMA TwinShares ==
  ASSUME NEW c \in Conn, Twin(c)
  PROVE  Shared(c)
BY DEF Twin, Shared, Opened

(* For any number of nodes, connections and blocks, whatever the lookups   *)
(* answer and whatever MAX_PEERS is, every variable of a network keeps its *)
(* type: only messages are in flight and only blocks are heard of, entries *)
(* and broadcasts name connections, a broadcast is in one of its stages.   *)
THEOREM NetworkTypes == Spec => []TypeOK
<1>1. NetInv => TypeOK
  BY DEF NetInv, NetTypes
<1> QED
  BY <1>1, NetHolds, PTL

(* A table of peers has exactly the connections whose peer loop runs at    *)
(* every moment, whichever way dialing, accepting and closing interleave   *)
(* (connect_to_peer, _handle_connection, the finally of _peer_loop).  Only *)
(* a caller with two connections to one address can miss one of them.      *)
THEOREM TableStaysExact == Spec => []TableExact
<1>1. NetInv => TableExact
  <2> SUFFICES ASSUME NetInv, NEW n \in Node
               PROVE  /\ \A k \in DOMAIN peers[n] : EntryOK(n, k)
                      /\ \A c \in Conn : n \in live[c] /\ ~(n = link[c].from /\ Shared(c)) =>
                           KeyOf(c, n) \in DOMAIN peers[n] /\ peers[n][KeyOf(c, n)].conn = c
    BY DEF TableExact, EntryOK
  <2> QED
    BY TwinShares DEF NetInv, TableInv, Listed
<1> QED
  BY <1>1, NetHolds, PTL

(* No block is written to a peer before a handshake with it, although the  *)
(* entry that broadcast_block looks at may be another one than that whose  *)
(* writer it copied.                                                       *)
THEOREM HandshakeBeforeBlock == Spec => []BlockAfterHandshake
<1>1. NetInv => BlockAfterHandshake
  <2> SUFFICES ASSUME NetInv, NEW c \in Conn, NEW m \in Node, NEW b \in Block, OnWire(c, m, b)
               PROVE  \/ Other(c, m) \in met[c]
                      \/ \E d \in Conn : Shared(c) /\ Other(c, m) = link[c].from /\ Other(c, m) \in met[d]
    BY DEF BlockAfterHandshake, OnWire
  <2> QED
    BY TwinShares DEF NetInv, WireInv, Met
<1> QED
  BY <1>1, NetHolds, PTL

(* A block that is noted as known to a peer has been written to it: unless *)
(* an end has gone, it is on its way or has been handled.                  *)
THEOREM NotedWasSent == Spec => []KnownWasSent
<1>1. NetInv => KnownWasSent
  <2> SUFFICES ASSUME NetInv, NEW n \in Node, NEW k \in DOMAIN peers[n], NEW b \in peers[n][k].known,
                      NEW c, c = peers[n][k].conn, NEW m, m = Other(c, n)
               PROVE  b \in heard[m] \/ ~Reaches(c, m) \/ Shared(c) \/ OnWire(c, m, b)
    BY DEF KnownWasSent, OnWire
  <2>1. c \in Conn
    BY EntryHolds DEF NetInv
  <2> QED
    BY <2>1, TwinShares DEF NetInv, SentInv, Sent
<1> QED
  BY <1>1, NetHolds, PTL
=============================================================================
