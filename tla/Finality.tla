------------------------------ MODULE Finality ------------------------------
(***************************************************************************)
(* Checkpoint finality as the code runs it: submit_vote of                 *)
(* src/agent/modules/consensus_engine.py reads the validator, the total    *)
(* stake and the checkpoint row in three queries and then writes the whole *)
(* row back; submit_block stores a block and opens its checkpoint in two   *)
(* commits.  Every command of the program is a process of its own on the   *)
(* same chain.db (main.py), so other processes act between those steps,    *)
(* and a process can end at any of them.                                   *)
(***************************************************************************)
EXTENDS FinalityRules

CONSTANTS
  Process,  \* operating-system processes on the same chain.db
  None      \* no call in progress

ASSUME NoneAssumption == None \notin DOMAIN HeightOf

VARIABLES
  stored,  \* durable: blocks of DOMAIN HeightOf that apply_block has stored
  voting,  \* each process's submit_vote in progress, or None
  opening, \* each process's checkpoint still to be opened, or None
  cast,    \* ghost: votes that have passed submit_vote's gate
  calm     \* ghost: no validator has been slashed or registered twice

calls == <<voting, opening>>
history == <<cast, calm>>
vars == <<rulesVars, stored, calls, history>>

Row == [height : Nat,
        votes : SUBSET [validator : Validator, source : Source, weight : Nat],
        voted : Int, finalized : BOOLEAN]

(* A submit_vote in progress: the query it makes next, and what the queries *)
(* so far have returned.                                                   *)
Stage == {"total", "row", "write"}
IsBallot(b) ==
  /\ DOMAIN b = {"vote", "stage", "weight", "total", "row"}
  /\ b.vote \in Vote /\ b.stage \in Stage /\ b.weight \in Nat /\ b.row \in Row

Init ==
  /\ RulesInit
  /\ stored = {}
  /\ voting = [p \in Process |-> None]
  /\ opening = [p \in Process |-> None]
  /\ cast = {} /\ calm = TRUE

Idle(p) == voting[p] = None /\ opening[p] = None
AtStage(p, stage) == voting[p] # None /\ voting[p].stage = stage
Done(p) == voting' = [voting EXCEPT ![p] = None]

-----------------------------------------------------------------------------
(* One commit: register_validator, from the stake command.                 *)
RegisterValidator(p, v, stake) ==
  /\ Idle(p)
  /\ Register(v, stake)
  /\ calm' = (calm /\ v \notin DOMAIN validators)
  /\ UNCHANGED <<stored, calls, cast>>

(* submit_vote, get_validator: an address that may not vote is turned away *)
(* and nothing changes; otherwise its stake is the vote's weight.          *)
BeginVote(p, vote) ==
  /\ Idle(p)
  /\ MayVote(vote.validator)
  /\ voting' = [voting EXCEPT ![p] =
       [vote |-> vote, stage |-> "total", weight |-> validators[vote.validator].stake,
        total |-> 0, row |-> NewRow(0)]]
  /\ cast' = cast \cup {vote}
  /\ UNCHANGED <<rulesVars, stored, opening, calm>>

(* total_active_stake.                                                     *)
ReadTotal(p) ==
  /\ AtStage(p, "total")
  /\ voting' = [voting EXCEPT ![p].stage = "row", ![p].total = TotalActive]
  /\ UNCHANGED <<rulesVars, stored, opening, history>>

(* process_vote, get_checkpoint.                                           *)
ReadRow(p) ==
  /\ AtStage(p, "row")
  /\ voting' = [voting EXCEPT ![p].stage = "write", ![p].row = RowOf(voting[p].vote.target)]
  /\ UNCHANGED <<rulesVars, stored, opening, history>>

(* Variant that slashes the repetition of a vote (OnlyEquivocatorsSlashed). *)
SlashRepeated(p) ==
  /\ AtStage(p, "write") /\ HasVoted(voting[p].row, voting[p].vote)
  /\ SlashValidator(voting[p].vote.validator)
  /\ Done(p)
  /\ calm' = FALSE
  /\ UNCHANGED <<rows, stored, opening, cast>>

(* The row holds a vote of this validator from another source.             *)
Slash(p) ==
  /\ AtStage(p, "write") /\ Equivocates(voting[p].row, voting[p].vote)
  /\ SlashValidator(voting[p].vote.validator)
  /\ Done(p)
  /\ calm' = FALSE
  /\ UNCHANGED <<rows, stored, opening, cast>>

(* The row holds this very vote: nothing to do.                            *)
IgnoreRepeated(p) ==
  /\ AtStage(p, "write")
  /\ HasVoted(voting[p].row, voting[p].vote)
  /\ ~Equivocates(voting[p].row, voting[p].vote)
  /\ Done(p)
  /\ UNCHANGED <<rulesVars, stored, opening, history>>

(* This vote has not been cast: it will be recorded.                       *)
FirstVote(p) == AtStage(p, "write") /\ ~HasVoted(voting[p].row, voting[p].vote)

(* add_checkpoint at the end of process_vote.                              *)
WriteRow(p, row) ==
  /\ PutRow(voting[p].vote.target, row)
  /\ Done(p)
  /\ UNCHANGED <<validators, stored, opening, history>>

(* Faulty variants of RecordVote.  A repeated vote is counted again        *)
(* (OneVoteEach).                                                          *)
RecordAgain(p) ==
  /\ AtStage(p, "write")
  /\ WriteRow(p, WithVote(voting[p].row, voting[p].vote, voting[p].weight, voting[p].total))

(* The votes are read afresh, the tally is not (TallySound).               *)
RecordOnFreshVotes(p) ==
  /\ FirstVote(p)
  /\ LET row == [voting[p].row EXCEPT !.votes = RowOf(voting[p].vote.target).votes]
     IN WriteRow(p, WithVote(row, voting[p].vote, voting[p].weight, voting[p].total))

(* The threshold is tested before the vote is added (AtomicVotes).         *)
RecordAfterTest(p) ==
  /\ FirstVote(p)
  /\ LET b == voting[p]
     IN WriteRow(p, [WithVote(b.row, b.vote, b.weight, b.total) EXCEPT
                       !.finalized = b.row.finalized \/ Quorum(b.row.voted, b.total)])

(* Half of the stake is enough (FinalizedHasActiveQuorum).                 *)
RecordHalf(p) ==
  /\ FirstVote(p)
  /\ LET b == voting[p]
     IN WriteRow(p, [WithVote(b.row, b.vote, b.weight, b.total) EXCEPT
                       !.finalized = @ \/ 2 * (b.row.voted + b.weight) >= b.total])

(* More than two thirds are asked for (FinalizedWhenMet).                  *)
RecordAbove(p) ==
  /\ FirstVote(p)
  /\ LET b == voting[p]
     IN WriteRow(p, [WithVote(b.row, b.vote, b.weight, b.total) EXCEPT
                       !.finalized = b.row.finalized \/ 3 * (b.row.voted + b.weight) > 2 * b.total])

(* A first vote: the whole row is written back from the copy that was read. *)
RecordVote(p) ==
  /\ FirstVote(p)
  /\ WriteRow(p, WithVote(voting[p].row, voting[p].vote, voting[p].weight, voting[p].total))

-----------------------------------------------------------------------------
(* Variant that takes a stored block again (FinalIsFinal).                 *)
StoreBlockAgain(p, t) ==
  /\ Idle(p)
  /\ stored' = stored \cup {t}
  /\ opening' = IF t \in CheckpointBlocks THEN [opening EXCEPT ![p] = t] ELSE opening
  /\ UNCHANGED <<rulesVars, voting, history>>

(* submit_block: apply_block stores the block (ChainStore takes it apart); *)
(* a block at a checkpoint height has its checkpoint still to be opened.   *)
StoreBlock(p, t) ==
  /\ Idle(p)
  /\ t \notin stored
  /\ stored' = stored \cup {t}
  /\ opening' = IF t \in CheckpointBlocks THEN [opening EXCEPT ![p] = t] ELSE opening
  /\ UNCHANGED <<rulesVars, voting, history>>

(* add_checkpoint, which replaces a row that votes have already made.      *)
OpenCheckpoint(p) ==
  /\ opening[p] # None
  /\ OpenRow(opening[p])
  /\ opening' = [opening EXCEPT ![p] = None]
  /\ UNCHANGED <<stored, voting, history>>

(* The process ends in the middle of a call.                               *)
Crash(p) ==
  /\ ~Idle(p)
  /\ Done(p)
  /\ opening' = [opening EXCEPT ![p] = None]
  /\ UNCHANGED <<rulesVars, stored, history>>

VoteStep(p) ==
  ReadTotal(p) \/ ReadRow(p) \/ Slash(p) \/ IgnoreRepeated(p) \/ RecordVote(p)

Next ==
  \E p \in Process :
    \/ \E v \in Validator, s \in Stake : RegisterValidator(p, v, s)
    \/ \E vote \in Vote : BeginVote(p, vote)
    \/ VoteStep(p)
    \/ \E t \in DOMAIN HeightOf : StoreBlock(p, t)
    \/ OpenCheckpoint(p)
    \/ Crash(p)

Spec == Init /\ [][Next]_vars

(* Votes are cast only for blocks the node has stored.                     *)
KnownNext == Next /\ \A vote \in cast' : vote.target \in stored
KnownSpec == Init /\ [][KnownNext]_vars

-----------------------------------------------------------------------------
(* Types of the variables; a ballot's total is TotalActive of some moment. *)
TypeOK ==
  /\ DOMAIN validators \subseteq Validator
  /\ \A v \in DOMAIN validators :
       validators[v] \in [stake : Nat, active : BOOLEAN, slashed : BOOLEAN]
  /\ DOMAIN rows \subseteq Target
  /\ \A t \in DOMAIN rows : rows[t] \in Row
  /\ stored \subseteq DOMAIN HeightOf
  /\ DOMAIN voting = Process
  /\ \A p \in Process : voting[p] # None => IsBallot(voting[p])
  /\ opening \in [Process -> DOMAIN HeightOf \cup {None}]
  /\ cast \subseteq Vote /\ calm \in BOOLEAN

(* However submit_vote calls interleave, and though a late one may write   *)
(* back an old copy of the row, no row counts a validator twice.           *)
OneVoteEach ==
  \A t \in DOMAIN rows : \A w, x \in rows[t].votes :
    w.validator = x.validator => w = x

(* ... and its tally is the sum of the weights of the votes it holds.      *)
TallySound ==
  \A t \in DOMAIN rows :
    rows[t].voted = MapThenSumSet(LAMBDA w : w.weight, rows[t].votes)

(* "double voting on same target with different source"                    *)
(* (consensus_engine.py:174) is the only way to be slashed: not a repeated *)
(* vote, not a race of two calls, not a vote retried after a crash.        *)
OnlyEquivocatorsSlashed ==
  \A v \in DOMAIN validators : validators[v].slashed =>
    \E vote, other \in cast :
      /\ vote.validator = v /\ other.validator = v
      /\ vote.target = other.target /\ vote.source # other.source

(* With one process, submit_vote and submit_block behave as if each took   *)
(* effect at once.                                                         *)
AtomicVotes == RulesSpec

Final == {t \in DOMAIN rows : rows[t].finalized}

(* "once >= 2/3 of stake weight votes for a checkpoint, it is              *)
(* irreversible" (SECOND-KNOWLEDGE-BRAIN.md:24): no step undoes a          *)
(* finalization.                                                           *)
FinalIsFinal == [][Final \subseteq Final']_vars

(* "Block finalized only when >=2/3 of active validator stake has voted"   *)
(* (PROJECT-detail.md:195): as long as no validator is slashed and none    *)
(* registers again with another stake, a checkpoint becomes final only     *)
(* when active validators that have voted for it hold two thirds of the    *)
(* stake that is active at that moment.                                    *)
Backing(t) ==
  StakeOf(validators, {v \in Active : \E w \in rows[t].votes : w.validator = v})

FinalizedHasActiveQuorum ==
  [][calm => \A t \in Final' \ Final : Quorum(Backing(t)', TotalActive')]_vars

(* "checkpoint finalized when threshold met" (test-scenarios.md:41): under *)
(* the same condition, and while no vote is under way, a checkpoint whose  *)
(* tally is two thirds of the active stake is final.                       *)
FinalizedWhenMet ==
  calm /\ (\A p \in Process : voting[p] = None) =>
    \A t \in DOMAIN rows : Quorum(rows[t].voted, TotalActive) => rows[t].finalized
=============================================================================
