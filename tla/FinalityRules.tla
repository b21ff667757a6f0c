--------------------------- MODULE FinalityRules ---------------------------
(***************************************************************************)
(* What the finality layer promises: ValidatorRegistry and the voting part *)
(* of HybridConsensus, src/agent/modules/consensus_engine.py, with every   *)
(* call taking effect in one step.  Finality.tla takes submit_vote apart   *)
(* into its separate database accesses.                                    *)
(***************************************************************************)
EXTENDS Integers, FiniteSetsExt

CONSTANTS
  Validator,  \* validator addresses
  Target,     \* strings given as the target of a vote
  HeightOf,   \* the targets that are hashes of blocks -> their height
  Source,     \* strings given as the source of a vote
  Stake,      \* amounts offered as stake
  MinStake,   \* MIN_STAKE_SATOSHIS
  CheckpointInterval

ASSUME FinalityAssumption ==
  /\ DOMAIN HeightOf \subseteq Target
  /\ \A t \in DOMAIN HeightOf : HeightOf[t] \in Nat
  /\ Stake \subseteq Nat
  /\ MinStake \in Nat \ {0}
  /\ CheckpointInterval \in Nat \ {0}

Vote == [validator : Validator, source : Source, target : Target]
CheckpointBlocks == {t \in DOMAIN HeightOf : HeightOf[t] % CheckpointInterval = 0}

VARIABLES
  validators,  \* durable: table validators, address -> record
  rows         \* durable: table checkpoints, block_hash -> row

rulesVars == <<validators, rows>>

RulesInit == validators = << >> /\ rows = << >>

Active == {v \in DOMAIN validators : validators[v].active /\ ~validators[v].slashed}
StakeOf(records, vs) == MapThenSumSet(LAMBDA v : records[v].stake, vs)
TotalActive == StakeOf(validators, Active)

NewRow(h) == [height |-> h, votes |-> {}, voted |-> 0, finalized |-> FALSE]

(* Variant: a fresh row is at height -1, like an empty chain (TypeOK).     *)
RowOfMinusOne(t) == IF t \in DOMAIN rows THEN rows[t] ELSE NewRow(-1)

(* get_checkpoint, or the fresh row process_vote makes when there is none. *)
RowOf(t) == IF t \in DOMAIN rows THEN rows[t] ELSE NewRow(0)

(* add_checkpoint: INSERT OR REPLACE.                                      *)
PutRow(t, row) ==
  rows' = [u \in DOMAIN rows \cup {t} |-> IF u = t THEN row ELSE rows[u]]

(* Votes of one validator for the same target from different sources.      *)
Equivocates(row, vote) ==
  \E w \in row.votes : w.validator = vote.validator /\ w.source # vote.source

HasVoted(row, vote) == \E w \in row.votes : w.validator = vote.validator

(* total_stake_voted / total_stake >= FINALITY_THRESHOLD, with 2/3 the     *)
(* double next to it; exact for any stake within the coin supply.          *)
Quorum(voted, total) == total > 0 /\ 3 * voted >= 2 * total

(* The row after an accepted vote.                                         *)
WithVote(row, vote, weight, total) ==
  [height |-> row.height,
   votes |-> row.votes \cup {[validator |-> vote.validator, source |-> vote.source,
                              weight |-> weight]},
   voted |-> row.voted + weight,
   finalized |-> row.finalized \/ Quorum(row.voted + weight, total)]

(* submit_vote's gate.                                                     *)
MayVote(v) ==
  v \in DOMAIN validators /\ validators[v].active /\ validators[v].stake >= MinStake

-----------------------------------------------------------------------------
(* register_validator: INSERT OR REPLACE with the defaults of a            *)
(* ValidatorRecord, so registering again makes even a slashed validator    *)
(* active.  Below the minimum nothing is written.                          *)
Register(v, stake) ==
  /\ stake >= MinStake
  /\ validators' = [u \in DOMAIN validators \cup {v} |->
       IF u = v THEN [stake |-> stake, active |-> TRUE, slashed |-> FALSE]
       ELSE validators[u]]
  /\ UNCHANGED rows

(* slash_validator.                                                        *)
SlashValidator(v) ==
  validators' = [validators EXCEPT ![v].slashed = TRUE, ![v].active = FALSE]

(* submit_vote in one step: an equivocation slashes and is not counted, a  *)
(* first vote is counted with the present stake, a repeated one is ignored.*)
CastVote(vote) ==
  /\ MayVote(vote.validator)
  /\ LET row == RowOf(vote.target)
     IN \/ Equivocates(row, vote) /\ SlashValidator(vote.validator) /\ UNCHANGED rows
        \/ /\ ~HasVoted(row, vote)
           /\ PutRow(vote.target,
                WithVote(row, vote, validators[vote.validator].stake, TotalActive))
           /\ UNCHANGED validators

(* submit_block opens the checkpoint of a block it has applied.            *)
OpenRow(t) == PutRow(t, NewRow(HeightOf[t])) /\ UNCHANGED validators

RulesNext ==
  \/ \E v \in Validator, s \in Stake : Register(v, s)
  \/ \E vote \in Vote : CastVote(vote)
  \/ \E t \in CheckpointBlocks : OpenRow(t)

RulesSpec == RulesInit /\ [][RulesNext]_rulesVars
=============================================================================
