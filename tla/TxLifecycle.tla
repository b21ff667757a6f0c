---------------------------- MODULE TxLifecycle ----------------------------
(***************************************************************************)
(* What the program promises of an ordinary transaction, whatever the      *)
(* processes, crashes and failed blocks behind it: once submitted it waits *)
(* in a pool, it is mined only out of the pool, it leaves the pool only    *)
(* when it is mined, and it stays mined.                                   *)
(***************************************************************************)
CONSTANT Tx          \* ids of ordinary transactions

VARIABLES submitted, \* transactions that were ever submitted
          pool,      \* those that wait to be mined
          mined      \* those in a stored block

lifecycle == <<submitted, pool, mined>>

Init == submitted = {} /\ pool = {} /\ mined = {}

(* Again is allowed, also for a transaction that is mined already.         *)
Submit(t) ==
  /\ submitted' = submitted \cup {t} /\ pool' = pool \cup {t}
  /\ UNCHANGED mined

(* One block; what two processes mined at the same time may leave the pool *)
(* before the second of them has stored its block.                         *)
Confirm(txs) ==
  /\ txs \subseteq pool \cup mined
  /\ mined' = mined \cup txs
  /\ UNCHANGED <<submitted, pool>>

Release(t) ==
  /\ t \in mined
  /\ pool' = pool \ {t}
  /\ UNCHANGED <<submitted, mined>>

Next ==
  \/ \E t \in Tx : Submit(t) \/ Release(t)
  \/ \E txs \in SUBSET Tx : Confirm(txs)

Spec == Init /\ [][Next]_lifecycle
=============================================================================
