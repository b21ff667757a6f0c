\* A node that syncs beside a scheduled crawler, on one file.
SPECIFICATION ResearchSpec
CONSTANTS
  best = best
  Process = {p1, p2}
  Node = {p1}
  odd = odd
  Paper = {best, odd}
  Torn = {odd}
  Listing <- MCListing
  Score <- MCScore
  MaxNew = 2
  MaxSections = 3
  Provider <- MCProvider
  Keyless = {"claude"}
  MaxRetries = 2
  None = None
INVARIANTS
  TypeOK
  NoRowTwice
  SeenIsRecorded
  SynthesisRecorded
PROPERTIES
  SyncEnds
CHECK_DEADLOCK FALSE
