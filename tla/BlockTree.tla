------------------------------ MODULE BlockTree ------------------------------
(***************************************************************************)
(* What a block store promises, whatever its implementation: blocks are    *)
(* never removed or rewritten, each new block is a root or the child of a  *)
(* stored block, one level above it, and the durable tip is the block that *)
(* was stored last.                                                        *)
(***************************************************************************)
EXTENDS Integers

CONSTANTS BlockHash,  \* names of blocks
          None        \* "no block"

VARIABLES blocks,     \* stored block hash -> [prev, height, ...]
          tipHash     \* the durable tip, None before the first block

Init == blocks = << >> /\ tipHash = None

(* b is a root at height 0, or one level above a stored parent.            *)
Linked(b) ==
  IF b.prev = None
  THEN b.height = 0
  ELSE b.prev \in DOMAIN blocks /\ b.height = blocks[b.prev].height + 1

(* Store block h (new, or the very block already stored) and make it tip.  *)
Extend ==
  \E h \in BlockHash :
    /\ DOMAIN blocks' = DOMAIN blocks \cup {h}
    /\ \A g \in DOMAIN blocks : blocks'[g] = blocks[g]
    /\ Linked(blocks'[h])
    /\ tipHash' = h

(* With one writer the tip moves only to a new child of the tip.           *)
Append == Extend /\ tipHash' \notin DOMAIN blocks /\ blocks'[tipHash'].prev = tipHash

Spec == Init /\ [][Extend]_<<blocks, tipHash>>

LogSpec == Init /\ [][Append]_<<blocks, tipHash>>
=============================================================================
