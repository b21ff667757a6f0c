----------------------------- MODULE Arithmetic -----------------------------
(* Powers, which the code writes as shifts and as byte lengths.            *)
EXTENDS Integers

(* b to the n.  The prover has no theory of ^, but can reason about this.  *)
Power(b, n) ==
  LET power[k \in Nat] == IF k = 0 THEN 1 ELSE b * power[k - 1]
  IN power[n]
=============================================================================
