\* One process; votes for stored blocks, equivocations, re-registrations.
SPECIFICATION KnownSpec
CONSTANTS
  Process = {p1}
  Validator = {v1, v2}
  Target = {cp, plain}
  Source = {s1, s2}
  Stake = {1, 2, 4}
  MinStake = 2
  CheckpointInterval = 2
  cp = cp
  plain = plain
  HeightOf <- MCHeightOf
  None = None
SYMMETRY LoneSymmetry
PROPERTIES
  AtomicVotes
  FinalIsFinal
  FinalizedHasActiveQuorum
INVARIANTS
  FinalizedWhenMet
