----------------------------- MODULE MCFinality -----------------------------
(* Instances of Finality for TLC.                                          *)
EXTENDS Finality, TLC

CONSTANTS cp,    \* a block at a checkpoint height
          plain  \* a block that is no checkpoint

MCHeightOf == [t \in Target |-> IF t = plain THEN 1 ELSE 2]

Symmetry == Permutations(Process) \cup Permutations(Validator) \cup Permutations(Source)
LoneSymmetry == Permutations(Validator) \cup Permutations(Source)
=============================================================================
