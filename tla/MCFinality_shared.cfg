\* Two processes: votes race, registrations and crashes anywhere.
SPECIFICATION Spec
CONSTANTS
  Process = {p1, p2}
  Validator = {v1, v2}
  Target = {cp}
  Source = {s1, s2}
  Stake = {1, 2}
  MinStake = 2
  CheckpointInterval = 2
  cp = cp
  plain = plain
  HeightOf <- MCHeightOf
  None = None
SYMMETRY Symmetry
INVARIANTS
  TypeOK
  OneVoteEach
  TallySound
  OnlyEquivocatorsSlashed
