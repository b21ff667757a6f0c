--------------------------- MODULE FinalityProofs ---------------------------
(* Proofs about Finality, for any number of processes, validators, targets *)
(* and stakes.                                                             *)
EXTENDS Finality, ArithmeticProofs

-----------------------------------------------------------------------------
(* Tallies as sums.                                                        *)

(* The folds of the model are such sums.                                   *)
LEMMA StakeIsSum ==
  ASSUME NEW records, NEW vs, IsFiniteSet(vs)
  PROVE  StakeOf(records, vs) = SumOver([v \in vs |-> records[v].stake], vs)
<1> DEFINE f == [v \in vs |-> records[v].stake]
           IsIter(g) == g = [s \in SUBSET vs |->
                 IF s = {} THEN 0 ELSE records[CHOOSE x \in s : TRUE].stake + g[s \ {CHOOSE x \in s : TRUE}]]
<1>1. ASSUME NEW g
      PROVE  Sums(g, f, vs) <=> IsIter(g)
  <2>1. ASSUME NEW s \in SUBSET vs, s # {}
        PROVE  f[Pick(s)] = records[CHOOSE x \in s : TRUE].stake /\ Pick(s) = CHOOSE x \in s : TRUE
    BY <2>1, PickIn DEF Pick
  <2> HIDE DEF f
  <2> QED
    BY <2>1 DEF Sums
<1>2. StakeOf(records, vs) = (CHOOSE g : IsIter(g))[vs]
  BY DEF StakeOf, MapThenSumSet, MapThenFoldSet
<1> HIDE DEF f
<1>3. \E g : IsIter(g)
  <2>1. PICK g : Sums(g, f, vs)
    BY SumsExist
  <2>2. IsIter(g)
    BY <1>1, <2>1
  <2> QED
    BY <2>2
<1>4. IsIter(CHOOSE g : IsIter(g))
  <2> HIDE DEF IsIter
  <2> QED
    BY <1>3
<1>5. PICK g : g = (CHOOSE x : IsIter(x)) /\ IsIter(g)
  BY <1>4
<1>6. Sums(g, f, vs)
  <2>1. Sums(g, f, vs) <=> IsIter(g)
    BY <1>1
  <2> HIDE DEF IsIter
  <2> QED
    BY <1>5, <2>1
<1>7. SumOver(f, vs) = g[vs]
  BY <1>6, SumIs
<1> QED
  BY <1>2, <1>5, <1>7 DEF f

LEMMA TallyIsSum ==
  ASSUME NEW votes, IsFiniteSet(votes)
  PROVE  MapThenSumSet(LAMBDA w : w.weight, votes) = SumOver([w \in votes |-> w.weight], votes)
<1> DEFINE f == [w \in votes |-> w.weight]
           IsIter(g) == g = [s \in SUBSET votes |->
                 IF s = {} THEN 0 ELSE (CHOOSE x \in s : TRUE).weight + g[s \ {CHOOSE x \in s : TRUE}]]
<1>1. ASSUME NEW g
      PROVE  Sums(g, f, votes) <=> IsIter(g)
  <2>1. ASSUME NEW s \in SUBSET votes, s # {}
        PROVE  f[Pick(s)] = (CHOOSE x \in s : TRUE).weight /\ Pick(s) = CHOOSE x \in s : TRUE
    BY <2>1, PickIn DEF Pick
  <2> HIDE DEF f
  <2> QED
    BY <2>1 DEF Sums
<1>2. MapThenSumSet(LAMBDA w : w.weight, votes) = (CHOOSE g : IsIter(g))[votes]
  BY DEF MapThenSumSet, MapThenFoldSet
<1> HIDE DEF f
<1>3. \E g : IsIter(g)
  <2>1. PICK g : Sums(g, f, votes)
    BY SumsExist
  <2>2. IsIter(g)
    BY <1>1, <2>1
  <2> QED
    BY <2>2
<1>4. IsIter(CHOOSE g : IsIter(g))
  <2> HIDE DEF IsIter
  <2> QED
    BY <1>3
<1>5. PICK g : g = (CHOOSE x : IsIter(x)) /\ IsIter(g)
  BY <1>4
<1>6. Sums(g, f, votes)
  <2>1. Sums(g, f, votes) <=> IsIter(g)
    BY <1>1
  <2> HIDE DEF IsIter
  <2> QED
    BY <1>5, <2>1
<1>7. SumOver(f, votes) = g[votes]
  BY <1>6, SumIs
<1> QED
  BY <1>2, <1>5, <1>7 DEF f

-----------------------------------------------------------------------------
USE FinalityAssumption, NoneAssumption DEF history

-----------------------------------------------------------------------------
(* Types.                                                                  *)

(* A fresh row and a row with one more vote are rows.                      *)
LEMMA RowTyped ==
  /\ \A h \in Nat : NewRow(h) \in Row
  /\ \A row \in Row, vote \in Vote, weight \in Nat : \A total :
       WithVote(row, vote, weight, total) \in Row
<1>1. \A h \in Nat : NewRow(h) \in Row
  BY DEF NewRow, Row
<1>2. ASSUME NEW row \in Row, NEW vote \in Vote, NEW weight \in Nat, NEW total
      PROVE  WithVote(row, vote, weight, total) \in Row
  BY DEF WithVote, Vote, Row
<1> QED BY <1>1, <1>2

(* What get_checkpoint or its default returns is a row.                    *)
LEMMA RowOfTyped == TypeOK => \A t : RowOf(t) \in Row
BY RowTyped DEF TypeOK, RowOf

(* Writing a row keeps the table typed.                                    *)
LEMMA PutTyped ==
  ASSUME TypeOK, NEW t \in Target, NEW row \in Row, PutRow(t, row)
  PROVE  DOMAIN rows' \subseteq Target /\ \A u \in DOMAIN rows' : rows'[u] \in Row
BY DEF TypeOK, PutRow

(* Every variable keeps its type; with more than one process too.          *)
THEOREM TypeCorrect == Spec => []TypeOK
<1>1. Init => TypeOK
  BY DEF Init, RulesInit, TypeOK
<1>2. TypeOK /\ [Next]_vars => TypeOK'
  <2> SUFFICES ASSUME TypeOK, [Next]_vars PROVE TypeOK'
    OBVIOUS
  <2>1. CASE UNCHANGED vars
    BY <2>1 DEF vars, rulesVars, calls, TypeOK
  <2>2. ASSUME NEW p \in Process, NEW v \in Validator, NEW s \in Stake,
               RegisterValidator(p, v, s)
        PROVE  TypeOK'
    BY <2>2 DEF RegisterValidator, Register, calls, TypeOK
  <2>3. ASSUME NEW p \in Process, NEW vote \in Vote, BeginVote(p, vote)
        PROVE  TypeOK'
    <3>1. validators[vote.validator].stake \in Nat
      BY <2>3 DEF BeginVote, MayVote, TypeOK
    <3>2. NewRow(0) \in Row
      BY RowTyped
    <3> QED BY <2>3, <3>1, <3>2 DEF BeginVote, rulesVars, TypeOK, IsBallot, Stage
  <2>4. ASSUME NEW p \in Process, ReadTotal(p)
        PROVE  TypeOK'
    BY <2>4 DEF ReadTotal, AtStage, rulesVars, TypeOK, IsBallot, Stage
  <2>5. ASSUME NEW p \in Process, ReadRow(p)
        PROVE  TypeOK'
    <3>1. RowOf(voting[p].vote.target) \in Row
      BY RowOfTyped
    <3> QED BY <2>5, <3>1 DEF ReadRow, AtStage, rulesVars, TypeOK, IsBallot, Stage
  <2>6. ASSUME NEW p \in Process, Slash(p)
        PROVE  TypeOK'
    BY <2>6 DEF Slash, SlashValidator, Done, TypeOK
  <2>7. ASSUME NEW p \in Process, IgnoreRepeated(p)
        PROVE  TypeOK'
    BY <2>7 DEF IgnoreRepeated, Done, rulesVars, TypeOK
  <2>8. ASSUME NEW p \in Process, RecordVote(p)
        PROVE  TypeOK'
    <3> DEFINE b == voting[p]
    <3> DEFINE row == WithVote(b.row, b.vote, b.weight, b.total)
    <3>1. IsBallot(b)
      BY <2>8 DEF RecordVote, FirstVote, AtStage, TypeOK
    <3>2. row \in Row
      BY <3>1, RowTyped DEF IsBallot
    <3>3. b.vote.target \in Target /\ PutRow(b.vote.target, row)
      BY <2>8, <3>1 DEF RecordVote, WriteRow, IsBallot, Vote
    <3>4. DOMAIN rows' \subseteq Target /\ \A u \in DOMAIN rows' : rows'[u] \in Row
      BY <3>2, <3>3, PutTyped
    <3> QED BY <2>8, <3>4 DEF RecordVote, WriteRow, Done, TypeOK
  <2>9. ASSUME NEW p \in Process, NEW t \in DOMAIN HeightOf, StoreBlock(p, t)
        PROVE  TypeOK'
    BY <2>9 DEF StoreBlock, rulesVars, TypeOK
  <2>10. ASSUME NEW p \in Process, OpenCheckpoint(p)
         PROVE  TypeOK'
    <3>1. opening[p] \in DOMAIN HeightOf
      BY <2>10 DEF OpenCheckpoint, TypeOK
    <3>2. NewRow(HeightOf[opening[p]]) \in Row
      BY <3>1, RowTyped
    <3>3. DOMAIN rows' \subseteq Target /\ \A u \in DOMAIN rows' : rows'[u] \in Row
      BY <2>10, <3>1, <3>2, PutTyped DEF OpenCheckpoint, OpenRow
    <3> QED BY <2>10, <3>3 DEF OpenCheckpoint, OpenRow, TypeOK
  <2>11. ASSUME NEW p \in Process, Crash(p)
         PROVE  TypeOK'
    BY <2>11 DEF Crash, Done, rulesVars, TypeOK
  <2> QED BY <2>1, <2>2, <2>3, <2>4, <2>5, <2>6, <2>7, <2>8, <2>9, <2>10, <2>11
          DEF Next, VoteStep
<1> QED BY <1>1, <1>2, PTL DEF Spec

-----------------------------------------------------------------------------
(* One vote per validator and row.                                         *)

RowOnce(row) == \A w, x \in row.votes : w.validator = x.validator => w = x

(* OneVoteEach alone is not inductive: a ballot writes back the copy of    *)
(* the row it has read, so the copies must be sound too.                   *)
OnceInv ==
  /\ OneVoteEach
  /\ \A p \in Process : voting[p] # None => RowOnce(voting[p].row)

LEMMA RowOnceKept ==
  /\ \A h : RowOnce(NewRow(h))
  /\ \A row, vote, weight, total :
       RowOnce(row) /\ ~HasVoted(row, vote) => RowOnce(WithVote(row, vote, weight, total))
BY DEF RowOnce, NewRow, WithVote, HasVoted

(* No interleaving of submit_vote calls makes a row count one validator    *)
(* twice.                                                                  *)
THEOREM OneVotePerRow == Spec => []OneVoteEach
<1>1. Init => OnceInv
  BY DEF Init, RulesInit, OnceInv, OneVoteEach
<1>2. TypeOK /\ OnceInv /\ [Next]_vars => OnceInv'
  <2> SUFFICES ASSUME TypeOK, OnceInv, [Next]_vars PROVE OnceInv'
    OBVIOUS
  <2>a. \A t : RowOnce(RowOf(t))
    BY RowOnceKept DEF OnceInv, OneVoteEach, RowOf, RowOnce
  <2>1. CASE UNCHANGED vars
    BY <2>1 DEF vars, rulesVars, calls, OnceInv, OneVoteEach
  <2>2. ASSUME NEW p \in Process, NEW v \in Validator, NEW s \in Stake,
               RegisterValidator(p, v, s)
        PROVE  OnceInv'
    BY <2>2 DEF RegisterValidator, Register, calls, OnceInv, OneVoteEach
  <2>3. ASSUME NEW p \in Process, NEW vote \in Vote, BeginVote(p, vote)
        PROVE  OnceInv'
    <3>1. RowOnce(NewRow(0))
      BY RowOnceKept
    <3> QED BY <2>3, <3>1 DEF BeginVote, rulesVars, TypeOK, OnceInv, OneVoteEach
  <2>4. ASSUME NEW p \in Process, ReadTotal(p)
        PROVE  OnceInv'
    BY <2>4 DEF ReadTotal, AtStage, rulesVars, TypeOK, IsBallot, OnceInv, OneVoteEach
  <2>5. ASSUME NEW p \in Process, ReadRow(p)
        PROVE  OnceInv'
    BY <2>5, <2>a DEF ReadRow, AtStage, rulesVars, TypeOK, IsBallot, OnceInv, OneVoteEach
  <2>6. ASSUME NEW p \in Process, Slash(p) \/ IgnoreRepeated(p) \/ Crash(p)
        PROVE  OnceInv'
    BY <2>6 DEF Slash, IgnoreRepeated, Crash, Done, rulesVars, TypeOK, OnceInv, OneVoteEach
  <2>7. ASSUME NEW p \in Process, RecordVote(p)
        PROVE  OnceInv'
    <3> DEFINE b == voting[p]
    <3>1. RowOnce(b.row) /\ ~HasVoted(b.row, b.vote)
      BY <2>7 DEF RecordVote, FirstVote, AtStage, OnceInv
    <3>2. RowOnce(WithVote(b.row, b.vote, b.weight, b.total))
      BY <3>1, RowOnceKept
    <3>3. \A t \in DOMAIN rows' : RowOnce(rows'[t])
      BY <2>7, <3>2 DEF RecordVote, WriteRow, PutRow, OnceInv, OneVoteEach, RowOnce
    <3> QED BY <2>7, <3>3 DEF RecordVote, WriteRow, Done, TypeOK, OnceInv, OneVoteEach, RowOnce
  <2>8. ASSUME NEW p \in Process, NEW t \in DOMAIN HeightOf, StoreBlock(p, t)
        PROVE  OnceInv'
    BY <2>8 DEF StoreBlock, rulesVars, OnceInv, OneVoteEach
  <2>9. ASSUME NEW p \in Process, OpenCheckpoint(p)
        PROVE  OnceInv'
    <3>1. RowOnce(NewRow(HeightOf[opening[p]]))
      BY RowOnceKept
    <3>2. \A t \in DOMAIN rows' : RowOnce(rows'[t])
      BY <2>9, <3>1 DEF OpenCheckpoint, OpenRow, PutRow, OnceInv, OneVoteEach, RowOnce
    <3> QED BY <2>9, <3>2 DEF OpenCheckpoint, OnceInv, OneVoteEach, RowOnce
  <2> QED BY <2>1, <2>2, <2>3, <2>4, <2>5, <2>6, <2>7, <2>8, <2>9 DEF Next, VoteStep
<1>3. OnceInv => OneVoteEach
  BY DEF OnceInv
<1> QED BY <1>1, <1>2, <1>3, TypeCorrect, PTL DEF Spec

-----------------------------------------------------------------------------
(* Slashing.                                                               *)

Backed(row, t) ==
  \A w \in row.votes :
    [validator |-> w.validator, source |-> w.source, target |-> t] \in cast

(* Every vote in a row, or in a copy of a row, has been cast, and so has   *)
(* the vote of every ballot.                                               *)
CastInv ==
  /\ OnlyEquivocatorsSlashed
  /\ \A t \in DOMAIN rows : Backed(rows[t], t)
  /\ \A p \in Process : voting[p] # None =>
       voting[p].vote \in cast /\ Backed(voting[p].row, voting[p].vote.target)

(* Validators and casts that only grow keep the slashed ones justified.    *)
LEMMA NoNewSlash ==
  ASSUME OnlyEquivocatorsSlashed, cast \subseteq cast',
         \A v \in DOMAIN validators' : validators'[v].slashed =>
            v \in DOMAIN validators /\ validators[v].slashed
  PROVE  OnlyEquivocatorsSlashed'
BY DEF OnlyEquivocatorsSlashed

(* Only a validator that voted for one target from two sources is ever     *)
(* slashed, whatever the interleaving, the crashes and the retries.        *)
THEOREM OnlyGuiltySlashed == Spec => []OnlyEquivocatorsSlashed
<1>1. Init => CastInv
  BY DEF Init, RulesInit, CastInv, OnlyEquivocatorsSlashed
<1>2. TypeOK /\ CastInv /\ [Next]_vars => CastInv'
  <2> SUFFICES ASSUME TypeOK, CastInv, [Next]_vars PROVE CastInv'
    OBVIOUS
  <2> USE DEF CastInv
  <2>1. CASE UNCHANGED vars
    BY <2>1 DEF vars, rulesVars, calls, OnlyEquivocatorsSlashed, Backed
  <2>2. ASSUME NEW p \in Process, NEW v \in Validator, NEW s \in Stake,
               RegisterValidator(p, v, s)
        PROVE  CastInv'
    <3>1. OnlyEquivocatorsSlashed'
      BY <2>2, NoNewSlash DEF RegisterValidator, Register
    <3> QED BY <2>2, <3>1 DEF RegisterValidator, Register, calls, Backed
  <2>3. ASSUME NEW p \in Process, NEW vote \in Vote, BeginVote(p, vote)
        PROVE  CastInv'
    <3>1. OnlyEquivocatorsSlashed'
      BY <2>3, NoNewSlash DEF BeginVote, rulesVars
    <3>2. Backed(NewRow(0), vote.target)'
      BY DEF Backed, NewRow
    <3>3. \A t \in DOMAIN rows' : Backed(rows[t], t)'
      BY <2>3 DEF BeginVote, rulesVars, Backed
    <3>4. \A q \in Process : voting'[q] # None =>
            voting'[q].vote \in cast' /\ Backed(voting[q].row, voting[q].vote.target)'
      BY <2>3, <3>2 DEF BeginVote, TypeOK, Backed
    <3> QED BY <3>1, <3>3, <3>4
  <2>4. ASSUME NEW p \in Process, ReadTotal(p)
        PROVE  CastInv'
    <3>1. OnlyEquivocatorsSlashed'
      BY <2>4, NoNewSlash DEF ReadTotal, rulesVars
    <3> QED BY <2>4, <3>1 DEF ReadTotal, AtStage, rulesVars, TypeOK, IsBallot, Backed
  <2>5. ASSUME NEW p \in Process, ReadRow(p)
        PROVE  CastInv'
    <3>1. OnlyEquivocatorsSlashed'
      BY <2>5, NoNewSlash DEF ReadRow, rulesVars
    <3>2. \A t : Backed(RowOf(t), t)
      BY DEF RowOf, NewRow, Backed
    <3> QED BY <2>5, <3>1, <3>2 DEF ReadRow, AtStage, rulesVars, TypeOK, IsBallot, Backed
  <2>6. ASSUME NEW p \in Process, Slash(p)
        PROVE  CastInv'
    <3> DEFINE vote == voting[p].vote
    <3>1. vote \in cast /\ vote \in Vote /\ Backed(voting[p].row, vote.target)
      BY <2>6 DEF Slash, AtStage, TypeOK, IsBallot
    <3>2. PICK w \in voting[p].row.votes : w.validator = vote.validator /\ w.source # vote.source
      BY <2>6 DEF Slash, Equivocates
    <3>3. [validator |-> w.validator, source |-> w.source, target |-> vote.target] \in cast
      BY <3>1 DEF Backed
    <3>4. \E a, b \in cast : /\ a.validator = vote.validator /\ b.validator = vote.validator
                            /\ a.target = b.target /\ a.source # b.source
      BY <3>1, <3>2, <3>3
    <3>5. OnlyEquivocatorsSlashed'
      BY <2>6, <3>4 DEF Slash, SlashValidator, OnlyEquivocatorsSlashed, TypeOK
    <3> QED BY <2>6, <3>5 DEF Slash, Done, TypeOK, Backed
  <2>7. ASSUME NEW p \in Process, IgnoreRepeated(p) \/ Crash(p)
        PROVE  CastInv'
    <3>1. OnlyEquivocatorsSlashed'
      BY <2>7, NoNewSlash DEF IgnoreRepeated, Crash, rulesVars
    <3> QED BY <2>7, <3>1 DEF IgnoreRepeated, Crash, Done, rulesVars, TypeOK, Backed
  <2>8. ASSUME NEW p \in Process, RecordVote(p)
        PROVE  CastInv'
    <3> DEFINE b == voting[p]
    <3>1. IsBallot(b) /\ b.vote \in cast /\ Backed(b.row, b.vote.target)
      BY <2>8 DEF RecordVote, FirstVote, AtStage, TypeOK
    <3>2. Backed(WithVote(b.row, b.vote, b.weight, b.total), b.vote.target)
      BY <3>1 DEF WithVote, Backed, IsBallot, Vote
    <3>3. OnlyEquivocatorsSlashed'
      BY <2>8, NoNewSlash DEF RecordVote, WriteRow
    <3> QED BY <2>8, <3>2, <3>3 DEF RecordVote, WriteRow, PutRow, Done, TypeOK, Backed
  <2>9. ASSUME NEW p \in Process, NEW t \in DOMAIN HeightOf, StoreBlock(p, t)
        PROVE  CastInv'
    <3>1. OnlyEquivocatorsSlashed'
      BY <2>9, NoNewSlash DEF StoreBlock, rulesVars
    <3> QED BY <2>9, <3>1 DEF StoreBlock, rulesVars, Backed
  <2>10. ASSUME NEW p \in Process, OpenCheckpoint(p)
         PROVE  CastInv'
    <3>1. OnlyEquivocatorsSlashed'
      BY <2>10, NoNewSlash DEF OpenCheckpoint, OpenRow
    <3>2. \A t \in DOMAIN rows' : Backed(rows'[t], t)
      BY <2>10 DEF OpenCheckpoint, OpenRow, PutRow, NewRow, Backed
    <3> QED BY <2>10, <3>1, <3>2 DEF OpenCheckpoint, Backed
  <2> QED BY <2>1, <2>2, <2>3, <2>4, <2>5, <2>6, <2>7, <2>8, <2>9, <2>10 DEF Next, VoteStep
<1>3. CastInv => OnlyEquivocatorsSlashed
  BY DEF CastInv
<1> QED BY <1>1, <1>2, <1>3, TypeCorrect, PTL DEF Spec

-----------------------------------------------------------------------------
(* One process.                                                            *)

(* What the queries of a lone process have returned is still true when it  *)
(* writes, and its pending checkpoint is that of a checkpoint block.       *)
LoneInv ==
  \A p \in Process :
    /\ opening[p] # None => opening[p] \in CheckpointBlocks /\ voting[p] = None
    /\ voting[p] # None =>
         LET b == voting[p]
         IN /\ MayVote(b.vote.validator)
            /\ b.weight = validators[b.vote.validator].stake
            /\ b.stage \in {"row", "write"} => b.total = TotalActive
            /\ b.stage = "write" => b.row = RowOf(b.vote.target)

LEMMA LoneInvKept ==
  ASSUME NEW me, Process = {me}, TypeOK, LoneInv, [Next]_vars
  PROVE  LoneInv'
<1> USE DEF LoneInv
<1>a. validators' = validators => TotalActive' = TotalActive /\ \A v : MayVote(v)' = MayVote(v)
  BY DEF TotalActive, Active, MayVote
<1>b. rows' = rows => \A t : RowOf(t)' = RowOf(t)
  BY DEF RowOf
<1>1. CASE UNCHANGED vars
  BY <1>1, <1>a, <1>b DEF vars, rulesVars, calls
<1>2. ASSUME NEW v \in Validator, NEW s \in Stake, RegisterValidator(me, v, s)
      PROVE  LoneInv'
  BY <1>2 DEF RegisterValidator, Idle, calls
<1>3. ASSUME NEW vote \in Vote, BeginVote(me, vote)
      PROVE  LoneInv'
  BY <1>3, <1>a DEF BeginVote, Idle, rulesVars, TypeOK
<1>4. ASSUME ReadTotal(me)
      PROVE  LoneInv'
  BY <1>4, <1>a DEF ReadTotal, AtStage, rulesVars, TypeOK, IsBallot
<1>5. ASSUME ReadRow(me)
      PROVE  LoneInv'
  BY <1>5, <1>a, <1>b DEF ReadRow, AtStage, rulesVars, TypeOK, IsBallot
<1>6. ASSUME Slash(me) \/ IgnoreRepeated(me) \/ RecordVote(me)
      PROVE  LoneInv'
  BY <1>6 DEF Slash, IgnoreRepeated, RecordVote, FirstVote, AtStage, WriteRow, Done, TypeOK
<1>7. ASSUME NEW t \in DOMAIN HeightOf, StoreBlock(me, t)
      PROVE  LoneInv'
  BY <1>7 DEF StoreBlock, Idle, TypeOK
<1>8. ASSUME OpenCheckpoint(me)
      PROVE  LoneInv'
  BY <1>8 DEF OpenCheckpoint, TypeOK
<1>9. ASSUME Crash(me)
      PROVE  LoneInv'
  BY <1>9 DEF Crash, Done, TypeOK
<1> QED BY <1>1, <1>2, <1>3, <1>4, <1>5, <1>6, <1>7, <1>8, <1>9 DEF Next, VoteStep

(* Each step of a lone process is a step of the rules or leaves the two    *)
(* tables as they are.                                                     *)
LEMMA LoneStepIsRule ==
  ASSUME NEW me, Process = {me}, TypeOK, LoneInv, [Next]_vars
  PROVE  [RulesNext]_rulesVars
<1>1. CASE UNCHANGED vars
  BY <1>1 DEF vars
<1>2. ASSUME NEW v \in Validator, NEW s \in Stake, RegisterValidator(me, v, s)
      PROVE  RulesNext
  BY <1>2 DEF RegisterValidator, RulesNext
<1>3. ASSUME Slash(me)
      PROVE  RulesNext
  <2> DEFINE b == voting[me]
  <2>1. IsBallot(b) /\ MayVote(b.vote.validator) /\ b.row = RowOf(b.vote.target)
    BY <1>3 DEF Slash, AtStage, TypeOK, LoneInv
  <2>2. CastVote(b.vote)
    BY <1>3, <2>1 DEF Slash, CastVote
  <2> QED BY <2>1, <2>2 DEF IsBallot, RulesNext
<1>4. ASSUME RecordVote(me)
      PROVE  RulesNext
  <2> DEFINE b == voting[me]
  <2>1. /\ IsBallot(b) /\ MayVote(b.vote.validator) /\ b.row = RowOf(b.vote.target)
        /\ b.weight = validators[b.vote.validator].stake /\ b.total = TotalActive
    BY <1>4 DEF RecordVote, FirstVote, AtStage, TypeOK, LoneInv
  <2>2. CastVote(b.vote)
    BY <1>4, <2>1 DEF RecordVote, FirstVote, WriteRow, CastVote
  <2> QED BY <2>1, <2>2 DEF IsBallot, RulesNext
<1>5. ASSUME OpenCheckpoint(me)
      PROVE  RulesNext
  BY <1>5 DEF OpenCheckpoint, LoneInv, RulesNext
<1>6. ASSUME \/ \E vote \in Vote : BeginVote(me, vote)
             \/ ReadTotal(me) \/ ReadRow(me) \/ IgnoreRepeated(me)
             \/ \E t \in DOMAIN HeightOf : StoreBlock(me, t)
             \/ Crash(me)
      PROVE  UNCHANGED rulesVars
  BY <1>6 DEF BeginVote, ReadTotal, ReadRow, IgnoreRepeated, StoreBlock, Crash
<1> QED BY <1>1, <1>2, <1>3, <1>4, <1>5, <1>6 DEF Next, VoteStep

(* With one process on the database, the separate queries and commits of   *)
(* submit_vote and submit_block amount to atomic calls.                    *)
THEOREM LoneVotesAtomic ==
  ASSUME NEW me, Process = {me}
  PROVE  Spec => AtomicVotes
<1>1. Init => RulesInit
  BY DEF Init
<1>2. Init => LoneInv
  BY DEF Init, LoneInv
<1>3. TypeOK /\ LoneInv /\ [Next]_vars => LoneInv'
  BY LoneInvKept
<1>4. TypeOK /\ LoneInv /\ [Next]_vars => [RulesNext]_rulesVars
  BY LoneStepIsRule
<1> QED BY <1>1, <1>2, <1>3, <1>4, TypeCorrect, PTL DEF Spec, AtomicVotes, RulesSpec

-----------------------------------------------------------------------------
(* Tallies.                                                                *)

Voters(row) == {w.validator : w \in row.votes}

(* A row's tally is that of its votes, and as long as the registered       *)
(* stakes have not changed it is the stake of those who voted.             *)
Sound(row, table, quiet) ==
  /\ IsFiniteSet(row.votes) /\ Voters(row) \subseteq DOMAIN table
  /\ row.voted = MapThenSumSet(LAMBDA w : w.weight, row.votes)
  /\ quiet => row.voted = StakeOf(table, Voters(row))

BallotSound(b, table, quiet) ==
  /\ Sound(b.row, table, quiet)
  /\ b.vote.validator \in DOMAIN table
  /\ quiet => b.weight = table[b.vote.validator].stake

(* A ballot writes back a copy of the row and a weight that it has read    *)
(* some time ago: for the rows to stay sound the copies have to be too.    *)
SoundInv ==
  /\ IsFiniteSet(DOMAIN validators)
  /\ calm => \A v \in DOMAIN validators :
       validators[v].active /\ ~validators[v].slashed /\ validators[v].stake >= MinStake
  /\ \A t \in DOMAIN rows : Sound(rows[t], validators, calm)
  /\ \A p \in Process : voting[p] # None => BallotSound(voting[p], validators, calm)

LEMMA NothingStaked == \A table : StakeOf(table, {}) = 0
<1>1. IsFiniteSet({})
  BY FS_EmptySet
<1>2. \A f : SumOver(f, {}) = 0
  BY <1>1, SumAdds
<1> QED
  BY <1>1, <1>2, StakeIsSum

LEMMA NewRowSound ==
  ASSUME NEW h, NEW table, NEW quiet
  PROVE  Sound(NewRow(h), table, quiet)
<1>1. PICK row : row = NewRow(h)
  OBVIOUS
<1>2. row.votes = {} /\ row.voted = 0
  BY <1>1 DEF NewRow
<1>3. Voters(row) = {} /\ IsFiniteSet({})
  BY <1>2, FS_EmptySet DEF Voters
<1>4. \A f : SumOver(f, {}) = 0
  BY <1>3, SumAdds
<1>5. MapThenSumSet(LAMBDA w : w.weight, row.votes) = SumOver([w \in row.votes |-> w.weight], row.votes)
  BY <1>2, <1>3, TallyIsSum
<1>6. SumOver([w \in row.votes |-> w.weight], row.votes) = 0
  BY <1>2, <1>4
<1>7. StakeOf(table, Voters(row)) = 0
  BY <1>3, NothingStaked
<1>8. Voters(row) \subseteq DOMAIN table /\ IsFiniteSet(row.votes)
  BY <1>2, <1>3
<1>9. Sound(row, table, quiet)
  BY <1>2, <1>5, <1>6, <1>7, <1>8 DEF Sound
<1> QED
  BY <1>1, <1>9

(* Two tables that agree on vs give it the same stake.                     *)
LEMMA SameStake ==
  ASSUME NEW old, NEW new, NEW vs, IsFiniteSet(vs), \A v \in vs : new[v] = old[v]
  PROVE  StakeOf(new, vs) = StakeOf(old, vs)
<1> DEFINE f == [v \in vs |-> old[v].stake]
           e == [v \in vs |-> new[v].stake]
<1>1. StakeOf(old, vs) = SumOver(f, vs) /\ StakeOf(new, vs) = SumOver(e, vs)
  BY StakeIsSum
<1>2. \A v \in vs : f[v] = e[v]
  OBVIOUS
<1> HIDE DEF f, e
<1>3. SumOver(f, vs) = SumOver(e, vs)
  BY <1>2, SumSame
<1> QED
  BY <1>1, <1>3

(* A row stays sound in a step that only adds validators, or ends the calm.*)
LEMMA SoundStays ==
  ASSUME NEW row, NEW old, NEW new, NEW before, NEW after,
         IsFiniteSet(DOMAIN old), DOMAIN old \subseteq DOMAIN new,
         after => before /\ \A v \in DOMAIN old : new[v] = old[v],
         Sound(row, old, before)
  PROVE  Sound(row, new, after)
<1>1. IsFiniteSet(Voters(row)) /\ Voters(row) \subseteq DOMAIN old
  BY FS_Subset DEF Sound
<1>2. after => StakeOf(new, Voters(row)) = StakeOf(old, Voters(row))
  BY <1>1, SameStake
<1> QED
  BY <1>1, <1>2 DEF Sound

(* A first vote keeps a row sound.                                         *)
LEMMA SoundVote ==
  ASSUME NEW row \in Row, NEW table, NEW quiet, Sound(row, table, quiet),
         IsFiniteSet(DOMAIN table), \A v \in DOMAIN table : table[v].stake \in Nat,
         NEW vote, ~HasVoted(row, vote), vote.validator \in DOMAIN table,
         NEW weight \in Nat, quiet => weight = table[vote.validator].stake, NEW total
  PROVE  Sound(WithVote(row, vote, weight, total), table, quiet)
<1> DEFINE v == vote.validator
           w == [validator |-> v, source |-> vote.source, weight |-> weight]
           vs == Voters(row)
<1>1. PICK new : new = WithVote(row, vote, weight, total)
  OBVIOUS
<1>2. new.votes = row.votes \cup {w} /\ new.voted = row.voted + weight
  BY <1>1 DEF WithVote
<1>3. v \notin vs /\ w \notin row.votes /\ w.validator = v /\ w.weight = weight
  BY DEF HasVoted, Voters
<1> HIDE DEF w
<1>4. IsFiniteSet(row.votes)
  BY DEF Sound
<1>5. IsFiniteSet(row.votes \cup {w})
  BY <1>4, FS_AddElement
<1>6. IsFiniteSet(new.votes)
  BY <1>2, <1>5
<1>7. Voters(new) = vs \cup {v}
  BY <1>2, <1>3 DEF Voters
<1>8. vs \cup {v} \subseteq DOMAIN table
  BY DEF Sound
<1>9. IsFiniteSet(vs \cup {v}) /\ IsFiniteSet(vs)
  BY <1>8, FS_Subset
<1>10. new.voted = MapThenSumSet(LAMBDA x : x.weight, new.votes)
  <2> DEFINE f == [x \in new.votes |-> x.weight]
             e == [x \in row.votes |-> x.weight]
  <2>1. \A x \in new.votes : f[x] \in Int
    BY <1>2, <1>3 DEF Row
  <2>2. \A x \in row.votes : f[x] = e[x]
    BY <1>2
  <2>3. f[w] = weight /\ w \in new.votes /\ new.votes \ {w} = row.votes
    BY <1>2, <1>3
  <2>4. MapThenSumSet(LAMBDA x : x.weight, row.votes) = SumOver(e, row.votes)
    BY <1>4, TallyIsSum
  <2>5. MapThenSumSet(LAMBDA x : x.weight, new.votes) = SumOver(f, new.votes)
    BY <1>6, TallyIsSum
  <2>6. row.voted = MapThenSumSet(LAMBDA x : x.weight, row.votes)
    BY DEF Sound
  <2> HIDE DEF f, e
  <2>7. \A T \in SUBSET new.votes : SumOver(f, T) \in Int
    BY <1>6, <2>1, SumAdds
  <2>8. \A T \in SUBSET new.votes : \A x \in T : SumOver(f, T) = f[x] + SumOver(f, T \ {x})
    BY <1>6, <2>1, SumAdds
  <2>9. SumOver(f, new.votes) = f[w] + SumOver(f, row.votes)
    BY <2>3, <2>8
  <2>10. SumOver(f, row.votes) \in Int
    BY <1>2, <2>7
  <2>11. SumOver(f, row.votes) = SumOver(e, row.votes)
    BY <1>4, <2>2, SumSame
  <2>12. row.voted = SumOver(f, row.votes)
    BY <2>4, <2>6, <2>11
  <2>13. new.voted = SumOver(f, new.votes)
    BY <1>2, <2>3, <2>9, <2>10, <2>12
  <2> QED
    BY <2>5, <2>13
<1>11. ASSUME quiet
       PROVE  new.voted = StakeOf(table, vs \cup {v})
  <2> DEFINE f == [x \in vs \cup {v} |-> table[x].stake]
             e == [x \in vs |-> table[x].stake]
  <2>1. \A x \in vs \cup {v} : f[x] \in Int
    BY <1>8
  <2>2. \A x \in vs : f[x] = e[x]
    OBVIOUS
  <2>3. f[v] = weight /\ (vs \cup {v}) \ {v} = vs
    BY <1>3, <1>11
  <2>4. StakeOf(table, vs \cup {v}) = SumOver(f, vs \cup {v})
    BY <1>9, StakeIsSum
  <2>5. row.voted = SumOver(e, vs)
    BY <1>9, <1>11, StakeIsSum DEF Sound
  <2> HIDE DEF f, e, vs
  <2>6. \A T \in SUBSET (vs \cup {v}) : SumOver(f, T) \in Int
    BY <1>9, <2>1, SumAdds
  <2>7. \A T \in SUBSET (vs \cup {v}) : \A x \in T : SumOver(f, T) = f[x] + SumOver(f, T \ {x})
    BY <1>9, <2>1, SumAdds
  <2>8. SumOver(f, vs \cup {v}) = f[v] + SumOver(f, vs) /\ SumOver(f, vs) \in Int
    BY <2>3, <2>6, <2>7
  <2>9. SumOver(f, vs) = SumOver(e, vs)
    BY <1>9, <2>2, SumSame
  <2> QED
    BY <1>2, <2>3, <2>4, <2>5, <2>8, <2>9
<1>12. Sound(new, table, quiet)
  BY <1>6, <1>7, <1>8, <1>10, <1>11 DEF Sound
<1> QED
  BY <1>1, <1>12


(* What each step does to the stakes: it leaves them, adds a validator or  *)
(* ends the calm.                                                          *)
LEMMA StakesMove ==
  ASSUME TypeOK, SoundInv, [Next]_vars
  PROVE  /\ IsFiniteSet(DOMAIN validators') /\ DOMAIN validators \subseteq DOMAIN validators'
         /\ calm' => calm /\ \A v \in DOMAIN validators : validators'[v] = validators[v]
         /\ calm' => \A v \in DOMAIN validators' :
              /\ validators'[v].active /\ ~validators'[v].slashed
              /\ validators'[v].stake >= MinStake
<1>1. CASE UNCHANGED <<validators, calm>>
  BY <1>1 DEF SoundInv
<1>2. ASSUME NEW p \in Process, NEW v \in Validator, NEW s \in Stake, RegisterValidator(p, v, s)
      PROVE  DOMAIN validators' = DOMAIN validators \cup {v} /\ (calm' => calm /\ v \notin DOMAIN validators)
  BY <1>2 DEF RegisterValidator, Register
<1>3. ASSUME NEW p \in Process, NEW v \in Validator, NEW s \in Stake, RegisterValidator(p, v, s)
      PROVE  IsFiniteSet(DOMAIN validators')
  <2>1. IsFiniteSet(DOMAIN validators \cup {v})
    BY FS_AddElement DEF SoundInv
  <2> QED
    BY <1>2, <1>3, <2>1
<1>4. CASE \E p \in Process, v \in Validator, s \in Stake : RegisterValidator(p, v, s)
  <2>1. PICK p \in Process, v \in Validator, s \in Stake : RegisterValidator(p, v, s)
    BY <1>4
  <2>2. /\ DOMAIN validators' = DOMAIN validators \cup {v} /\ s >= MinStake
        /\ validators'[v] = [stake |-> s, active |-> TRUE, slashed |-> FALSE]
        /\ \A u \in DOMAIN validators : u # v => validators'[u] = validators[u]
    BY <2>1 DEF RegisterValidator, Register
  <2>3. calm' => calm /\ v \notin DOMAIN validators
    BY <1>2, <2>1
  <2>4. calm' => \A u \in DOMAIN validators : validators'[u] = validators[u]
    BY <2>2, <2>3
  <2>5. calm' => \A u \in DOMAIN validators' :
          /\ validators'[u].active /\ ~validators'[u].slashed /\ validators'[u].stake >= MinStake
    BY <2>2, <2>3, <2>4 DEF SoundInv
  <2> QED
    BY <1>3, <2>1, <2>2, <2>3, <2>4, <2>5
<1>5. CASE \E p \in Process : Slash(p)
  BY <1>5 DEF Slash, SlashValidator, SoundInv
<1>6. \/ UNCHANGED <<validators, calm>>
      \/ \E p \in Process : Slash(p)
      \/ \E p \in Process, v \in Validator, s \in Stake : RegisterValidator(p, v, s)
  BY DEF Next, VoteStep, BeginVote, ReadTotal, ReadRow, IgnoreRepeated, RecordVote, WriteRow,
         StoreBlock, OpenCheckpoint, OpenRow, Crash, rulesVars, history, vars
<1> QED
  BY <1>1, <1>4, <1>5, <1>6

(* What each step writes to the checkpoints.                               *)
LEMMA RowsMove ==
  ASSUME TypeOK, [Next]_vars, NEW t \in DOMAIN rows'
  PROVE  \/ t \in DOMAIN rows /\ rows'[t] = rows[t]
         \/ \E h : rows'[t] = NewRow(h)
         \/ \E p \in Process :
              /\ voting[p] # None /\ FirstVote(p) /\ calm' = calm /\ validators' = validators
              /\ t = voting[p].vote.target
              /\ rows'[t] = WithVote(voting[p].row, voting[p].vote, voting[p].weight, voting[p].total)
<1>1. CASE UNCHANGED rows
  BY <1>1
<1>2. ASSUME NEW p \in Process, RecordVote(p)
      PROVE  \/ t \in DOMAIN rows /\ rows'[t] = rows[t]
             \/ /\ voting[p] # None /\ FirstVote(p) /\ calm' = calm /\ validators' = validators
                /\ t = voting[p].vote.target
                /\ rows'[t] = WithVote(voting[p].row, voting[p].vote, voting[p].weight, voting[p].total)
  <2>1. /\ voting[p] # None /\ FirstVote(p) /\ calm' = calm /\ validators' = validators
        /\ PutRow(voting[p].vote.target,
                  WithVote(voting[p].row, voting[p].vote, voting[p].weight, voting[p].total))
    BY <1>2 DEF RecordVote, FirstVote, AtStage, WriteRow, history
  <2> QED
    BY <2>1 DEF PutRow
<1>3. ASSUME NEW p \in Process, OpenCheckpoint(p)
      PROVE  (t \in DOMAIN rows /\ rows'[t] = rows[t]) \/ \E h : rows'[t] = NewRow(h)
  BY <1>3 DEF OpenCheckpoint, OpenRow, PutRow
<1>4. \/ UNCHANGED rows
      \/ \E p \in Process : RecordVote(p) \/ OpenCheckpoint(p)
  BY DEF Next, VoteStep, BeginVote, ReadTotal, ReadRow, IgnoreRepeated, Slash,
         RegisterValidator, Register, StoreBlock, Crash, rulesVars, vars
<1> QED
  BY <1>1, <1>2, <1>3, <1>4

(* What each step leaves of the ballots.                                   *)
LEMMA BallotsMove ==
  ASSUME TypeOK, [Next]_vars, NEW p \in Process, voting'[p] # None
  PROVE  \/ voting'[p] = voting[p]
         \/ /\ voting[p] = None /\ calm' = calm /\ validators' = validators
            /\ voting'[p].vote.validator \in DOMAIN validators
            /\ voting'[p].weight = validators[voting'[p].vote.validator].stake
            /\ voting'[p].row = NewRow(0) /\ voting'[p].vote \in cast'
         \/ /\ voting[p] # None /\ calm' = calm /\ validators' = validators
            /\ voting'[p].vote = voting[p].vote /\ voting'[p].weight = voting[p].weight
            /\ voting'[p].row = voting[p].row \/ voting'[p].row = RowOf(voting[p].vote.target)
<1>1. CASE UNCHANGED voting
  BY <1>1
<1>2. CASE \E q \in Process : Slash(q) \/ IgnoreRepeated(q) \/ RecordVote(q) \/ Crash(q)
  BY <1>2 DEF Slash, IgnoreRepeated, RecordVote, WriteRow, Crash, Done, TypeOK
<1>3. ASSUME NEW q \in Process, NEW vote \in Vote, BeginVote(q, vote)
      PROVE  \/ voting'[p] = voting[p]
             \/ /\ voting[p] = None /\ calm' = calm /\ validators' = validators
                /\ voting'[p].vote.validator \in DOMAIN validators
                /\ voting'[p].weight = validators[voting'[p].vote.validator].stake
                /\ voting'[p].row = NewRow(0) /\ voting'[p].vote \in cast'
  BY <1>3 DEF BeginVote, Idle, MayVote, rulesVars, TypeOK
<1>4. ASSUME NEW q \in Process, ReadTotal(q) \/ ReadRow(q)
      PROVE  \/ voting'[p] = voting[p]
             \/ /\ voting[p] # None /\ calm' = calm /\ validators' = validators
                /\ voting'[p].vote = voting[p].vote /\ voting'[p].weight = voting[p].weight
                /\ voting'[p].row = voting[p].row \/ voting'[p].row = RowOf(voting[p].vote.target)
  BY <1>4 DEF ReadTotal, ReadRow, AtStage, rulesVars, history, TypeOK, IsBallot
<1>5. \/ UNCHANGED voting
      \/ \E q \in Process : Slash(q) \/ IgnoreRepeated(q) \/ RecordVote(q) \/ Crash(q)
      \/ \E q \in Process, vote \in Vote : BeginVote(q, vote)
      \/ \E q \in Process : ReadTotal(q) \/ ReadRow(q)
  BY DEF Next, VoteStep, RegisterValidator, StoreBlock, OpenCheckpoint, calls, vars
<1> QED
  BY <1>1, <1>2, <1>3, <1>4, <1>5

LEMMA SoundStep ==
  ASSUME TypeOK, SoundInv, [Next]_vars
  PROVE  SoundInv'
<1>1. /\ IsFiniteSet(DOMAIN validators') /\ DOMAIN validators \subseteq DOMAIN validators'
      /\ calm' => calm /\ \A v \in DOMAIN validators : validators'[v] = validators[v]
      /\ calm' => \A v \in DOMAIN validators' :
           /\ validators'[v].active /\ ~validators'[v].slashed /\ validators'[v].stake >= MinStake
  BY StakesMove
<1>2. ASSUME NEW row, Sound(row, validators, calm)
      PROVE  Sound(row, validators', calm')
  <2>1. IsFiniteSet(DOMAIN validators)
    BY DEF SoundInv
  <2> QED
    BY <1>1, <1>2, <2>1, SoundStays
<1>3. \A h : Sound(NewRow(h), validators, calm)
  BY NewRowSound
<1>4. \A t : Sound(RowOf(t), validators, calm)
  BY <1>3 DEF RowOf, SoundInv
<1>5. ASSUME NEW p \in Process, voting[p] # None, FirstVote(p)
      PROVE  Sound(WithVote(voting[p].row, voting[p].vote, voting[p].weight, voting[p].total),
                   validators, calm)
  <2>1. PICK b : b = voting[p]
    OBVIOUS
  <2>2. b.row \in Row /\ b.weight \in Nat /\ ~HasVoted(b.row, b.vote)
    BY <1>5, <2>1 DEF TypeOK, IsBallot, FirstVote
  <2>3. BallotSound(b, validators, calm)
    BY <1>5, <2>1 DEF SoundInv
  <2>4. IsFiniteSet(DOMAIN validators) /\ \A v \in DOMAIN validators : validators[v].stake \in Nat
    BY DEF TypeOK, SoundInv
  <2>5. Sound(WithVote(b.row, b.vote, b.weight, b.total), validators, calm)
    BY <2>2, <2>3, <2>4, SoundVote DEF BallotSound
  <2> QED
    BY <2>1, <2>5
<1>6. ASSUME NEW t \in DOMAIN rows'
      PROVE  Sound(rows'[t], validators', calm')
  <2>1. Sound(rows'[t], validators, calm)
    BY <1>3, <1>5, RowsMove DEF SoundInv
  <2> QED
    BY <1>2, <2>1
<1>7. ASSUME NEW p \in Process, voting'[p] # None
      PROVE  BallotSound(voting'[p], validators', calm')
  <2>1. Sound(voting'[p].row, validators, calm)
    BY <1>3, <1>4, <1>7, BallotsMove DEF SoundInv, BallotSound
  <2>2. Sound(voting'[p].row, validators', calm')
    BY <1>2, <2>1
  <2>3. /\ voting'[p].vote.validator \in DOMAIN validators
        /\ calm' => voting'[p].weight = validators[voting'[p].vote.validator].stake
    BY <1>1, <1>7, BallotsMove DEF SoundInv, BallotSound
  <2> QED
    BY <1>1, <2>2, <2>3 DEF BallotSound
<1> QED
  BY <1>1, <1>6, <1>7 DEF SoundInv

LEMMA SoundAlways == Spec => []SoundInv
<1>1. Init => SoundInv
  BY FS_EmptySet DEF Init, RulesInit, SoundInv
<1>2. TypeOK /\ SoundInv /\ [Next]_vars => SoundInv'
  BY SoundStep
<1> QED
  BY <1>1, <1>2, TypeCorrect, PTL DEF Spec

(* However submit_vote calls interleave and old copies of a row are        *)
(* written back, a row's total_stake_voted is the sum of the weights of    *)
(* the votes it holds.                                                     *)
THEOREM TallyAddsUp == Spec => []TallySound
<1>1. SoundInv => TallySound
  BY DEF SoundInv, Sound, TallySound
<1> QED
  BY <1>1, SoundAlways, PTL


-----------------------------------------------------------------------------
(* Finality, with one process.                                             *)

LEMMA LoneAlways ==
  ASSUME NEW me, Process = {me}
  PROVE  Spec => []LoneInv
<1>1. Init => LoneInv
  BY DEF Init, LoneInv
<1>2. TypeOK /\ LoneInv /\ [Next]_vars => LoneInv'
  BY LoneInvKept
<1> QED
  BY <1>1, <1>2, TypeCorrect, PTL DEF Spec

(* The stake of some validators is at most that of all.                    *)
LEMMA StakeGrows ==
  ASSUME NEW table, IsFiniteSet(DOMAIN table), \A v \in DOMAIN table : table[v].stake \in Nat,
         NEW vs \in SUBSET DOMAIN table
  PROVE  /\ StakeOf(table, vs) \in Nat
         /\ StakeOf(table, vs) <= StakeOf(table, DOMAIN table)
<1> DEFINE all == DOMAIN table
           f == [v \in all |-> table[v].stake]
           e == [v \in vs |-> table[v].stake]
<1>1. StakeOf(table, all) = SumOver(f, all)
  BY StakeIsSum
<1>2. IsFiniteSet(vs)
  BY FS_Subset
<1>3. StakeOf(table, vs) = SumOver(e, vs)
  BY <1>2, StakeIsSum
<1>4. (\A v \in vs : f[v] = e[v]) /\ (\A v \in all : f[v] \in Nat)
  OBVIOUS
<1> HIDE DEF f, e
<1>5. SumOver(f, vs) = SumOver(e, vs)
  BY <1>2, <1>4, SumSame
<1>6. SumOver(f, vs) \in Nat /\ SumOver(f, vs) <= SumOver(f, all)
  BY <1>4, SumGrows
<1> QED
  BY <1>1, <1>3, <1>5, <1>6

(* While the calm lasts every validator is active, and the active stake    *)
(* grows from nothing with each one.                                       *)
LEMMA CalmStake ==
  ASSUME TypeOK, SoundInv, calm
  PROVE  /\ Active = DOMAIN validators /\ TotalActive = StakeOf(validators, DOMAIN validators)
         /\ TotalActive \in Nat
         /\ TotalActive = 0 => DOMAIN validators = {}
<1>1. Active = DOMAIN validators
  BY DEF Active, SoundInv
<1>2. TotalActive = StakeOf(validators, DOMAIN validators)
  BY <1>1 DEF TotalActive
<1>3. IsFiniteSet(DOMAIN validators) /\ \A v \in DOMAIN validators : validators[v].stake \in Nat
  BY DEF TypeOK, SoundInv
<1>4. TotalActive \in Nat
  BY <1>2, <1>3, StakeGrows
<1>5. ASSUME NEW v \in DOMAIN validators
      PROVE  TotalActive > 0
  <2> DEFINE f == [u \in {v} |-> validators[u].stake]
  <2>1. IsFiniteSet({v})
    BY FS_Singleton
  <2>2. StakeOf(validators, {v}) = SumOver(f, {v})
    BY <2>1, StakeIsSum
  <2>3. (\A u \in {v} : f[u] \in Int) /\ f[v] = validators[v].stake /\ {v} \ {v} = {}
    BY <1>3
  <2> HIDE DEF f
  <2>4. /\ SumOver(f, {}) = 0
        /\ \A T \in SUBSET {v} : \A x \in T : SumOver(f, T) = f[x] + SumOver(f, T \ {x})
    BY <2>1, <2>3, SumAdds
  <2>5. SumOver(f, {v}) = f[v] + SumOver(f, {v} \ {v})
    BY <2>4
  <2>6. StakeOf(validators, {v}) = validators[v].stake /\ validators[v].stake \in Nat
    BY <1>3, <2>2, <2>3, <2>4, <2>5
  <2>7. validators[v].stake >= MinStake /\ MinStake \in Nat \ {0}
    BY FinalityAssumption DEF SoundInv
  <2>8. StakeOf(validators, {v}) <= TotalActive
    BY <1>2, <1>3, StakeGrows
  <2> QED
    BY <1>4, <2>6, <2>7, <2>8
<1>6. ASSUME TotalActive = 0
      PROVE  DOMAIN validators = {}
  <2>1. ~(TotalActive > 0)
    BY <1>6
  <2>2. \A v \in DOMAIN validators : TotalActive > 0
    BY <1>5
  <2> QED
    BY <2>1, <2>2, Zenon
<1> QED
  BY <1>1, <1>2, <1>4, <1>6

LEMMA CalmStakeGrows ==
  ASSUME TypeOK, SoundInv, TypeOK', SoundInv', [Next]_vars, calm'
  PROVE  TotalActive' \in Nat /\ TotalActive <= TotalActive'
<1>1. /\ DOMAIN validators \subseteq DOMAIN validators' /\ calm
      /\ \A v \in DOMAIN validators : validators'[v] = validators[v]
  BY StakesMove
<1>2. TypeOK /\ SoundInv /\ calm =>
        TotalActive \in Nat /\ TotalActive = StakeOf(validators, DOMAIN validators)
  BY CalmStake
<1>3. (TypeOK /\ SoundInv /\ calm =>
        TotalActive \in Nat /\ TotalActive = StakeOf(validators, DOMAIN validators))'
  BY CalmStake, PTL
<1>4. TotalActive' = StakeOf(validators', DOMAIN validators') /\ TotalActive' \in Nat
  <2>1. StakeOf(validators, DOMAIN validators)' = StakeOf(validators', DOMAIN validators')
    OBVIOUS
  <2> QED
    BY <1>3, <2>1
<1>5. StakeOf(validators, DOMAIN validators) = StakeOf(validators', DOMAIN validators)
  <2>1. IsFiniteSet(DOMAIN validators)
    BY DEF SoundInv
  <2>2. PICK old, new : old = validators /\ new = validators'
    OBVIOUS
  <2>3. StakeOf(new, DOMAIN old) = StakeOf(old, DOMAIN old)
    BY <1>1, <2>1, <2>2, SameStake
  <2> QED
    BY <2>2, <2>3
<1>6. StakeOf(validators', DOMAIN validators) <= StakeOf(validators', DOMAIN validators')
  <2>1. /\ IsFiniteSet(DOMAIN validators')
        /\ \A v \in DOMAIN validators' : validators'[v].stake \in Nat
    BY DEF TypeOK, SoundInv
  <2> QED
    BY <1>1, <2>1, StakeGrows
<1> QED
  BY <1>1, <1>2, <1>4, <1>5, <1>6

(* Even while a vote is under way: the tally that reaches the threshold is *)
(* written together with the flag.                                         *)
MetInv ==
  calm => \A t \in DOMAIN rows : Quorum(rows[t].voted, TotalActive) => rows[t].finalized


LEMMA MetStep ==
  ASSUME NEW me, Process = {me}, TypeOK, SoundInv, LoneInv, MetInv, TypeOK', SoundInv', [Next]_vars
  PROVE  MetInv'
<1> SUFFICES ASSUME calm', NEW t \in DOMAIN rows', Quorum(rows'[t].voted, TotalActive')
             PROVE  rows'[t].finalized
  BY DEF MetInv, Quorum
<1>1. PICK row : row = rows'[t]
  OBVIOUS
<1>2. TotalActive' \in Nat /\ TotalActive <= TotalActive' /\ calm
  BY CalmStakeGrows, StakesMove
<1>3. TotalActive \in Nat /\ (TotalActive = 0 => DOMAIN validators = {})
  BY <1>2, CalmStake
<1>4. ASSUME row.voted = 0
      PROVE  FALSE
  <2>1. PICK total : total = TotalActive'
    OBVIOUS
  <2>2. Quorum(row.voted, total)
    BY <1>1, <2>1
  <2>3. total \in Nat
    BY <2>1, CalmStakeGrows
  <2> QED
    BY <1>4, <2>2, <2>3 DEF Quorum
<1>5. CASE t \in DOMAIN rows /\ row = rows[t]
  <2>1. row \in Row /\ Sound(row, validators, calm)
    BY <1>5 DEF TypeOK, SoundInv
  <2>2. CASE TotalActive = 0
    <3>1. Voters(row) = {}
      BY <1>3, <2>1, <2>2 DEF Sound
    <3>2. row.voted = 0
      BY <1>2, <2>1, <3>1, NothingStaked DEF Sound
    <3> QED
      BY <1>4, <3>2
  <2>3. CASE TotalActive > 0
    <3>1. row.voted \in Int
      BY <2>1 DEF Row
    <3>2. Quorum(row.voted, TotalActive)
      BY <1>1, <1>2, <1>3, <2>3, <3>1 DEF Quorum
    <3> QED
      BY <1>1, <1>2, <1>5, <3>2 DEF MetInv
  <2> QED
    BY <1>3, <2>2, <2>3
<1>6. ASSUME NEW h, row = NewRow(h)
      PROVE  FALSE
  <2>1. row.voted = 0
    BY <1>6 DEF NewRow
  <2> QED
    BY <1>4, <2>1
<1>7. ASSUME NEW p \in Process, voting[p] # None, FirstVote(p), validators' = validators,
             row = WithVote(voting[p].row, voting[p].vote, voting[p].weight, voting[p].total)
      PROVE  row.finalized
  <2>1. voting[p].total = TotalActive
    BY <1>7 DEF FirstVote, AtStage, LoneInv
  <2>2. TotalActive' = TotalActive
    BY <1>7 DEF TotalActive, Active
  <2>3. row.finalized <=> voting[p].row.finalized \/ Quorum(row.voted, TotalActive')
    BY <1>7, <2>1, <2>2 DEF WithVote
  <2> QED
    BY <1>1, <2>3
<1> QED
  BY <1>1, <1>5, <1>6, <1>7, RowsMove

(* With one process on the database, and as long as no validator is        *)
(* slashed or registers again, a checkpoint whose tally is two thirds of   *)
(* the active stake is final.                                              *)
THEOREM MetIsFinal ==
  ASSUME NEW me, Process = {me}
  PROVE  Spec => []FinalizedWhenMet
<1>1. Init => MetInv
  BY DEF Init, RulesInit, MetInv
<1>2. TypeOK /\ SoundInv /\ LoneInv /\ MetInv /\ TypeOK' /\ SoundInv' /\ [Next]_vars => MetInv'
  BY MetStep
<1>3. MetInv => FinalizedWhenMet
  BY DEF MetInv, FinalizedWhenMet
<1>4. Spec => []LoneInv
  BY LoneAlways
<1> QED
  BY <1>1, <1>2, <1>3, <1>4, SoundAlways, TypeCorrect, PTL DEF Spec

(* A step that makes a checkpoint final.                                   *)
LEMMA QuorumStep ==
  ASSUME NEW me, Process = {me}, TypeOK, SoundInv, LoneInv, SoundInv', [Next]_vars, calm,
         NEW t \in Final', t \notin Final
  PROVE  Quorum(Backing(t)', TotalActive')
<1>1. PICK row : row = rows'[t]
  OBVIOUS
<1>2. t \in DOMAIN rows' /\ row.finalized
  BY <1>1 DEF Final
<1>3. PICK p \in Process :
        /\ voting[p] # None /\ FirstVote(p) /\ calm' = calm /\ validators' = validators
        /\ t = voting[p].vote.target
        /\ row = WithVote(voting[p].row, voting[p].vote, voting[p].weight, voting[p].total)
  <2>1. ~(t \in DOMAIN rows /\ row = rows[t])
    BY <1>2 DEF Final
  <2>2. \A h : row # NewRow(h)
    BY <1>2 DEF NewRow
  <2> QED
    BY <1>1, <1>2, <2>1, <2>2, RowsMove
<1>4. voting[p].total = TotalActive /\ voting[p].row = RowOf(t)
  BY <1>3 DEF FirstVote, AtStage, LoneInv
<1>5. TotalActive' = TotalActive
  BY <1>3 DEF TotalActive, Active
<1>6. Quorum(row.voted, TotalActive')
  <2>1. row.finalized <=> voting[p].row.finalized \/ Quorum(row.voted, TotalActive)
    BY <1>3, <1>4 DEF WithVote
  <2>2. ~voting[p].row.finalized
    BY <1>4 DEF Final, RowOf, NewRow
  <2> QED
    BY <1>2, <1>5, <2>1, <2>2
<1>7. Sound(row, validators', calm') /\ calm'
  BY <1>1, <1>2, <1>3 DEF SoundInv
<1>8. {v \in Active' : \E w \in row.votes : w.validator = v} = Voters(row)
  <2>1. Active' = DOMAIN validators'
    BY <1>7 DEF Active, SoundInv
  <2> QED
    BY <1>7, <2>1 DEF Sound, Voters
<1>9. Backing(t)' = StakeOf(validators', {v \in Active' : \E w \in row.votes : w.validator = v})
  BY <1>1 DEF Backing
<1> QED
  BY <1>6, <1>7, <1>8, <1>9 DEF Sound

(* With one process, and under the same condition, a checkpoint becomes    *)
(* final only when two thirds of the stake that is active at that moment   *)
(* have voted for it.                                                      *)
THEOREM FinalityIsBacked ==
  ASSUME NEW me, Process = {me}
  PROVE  Spec => FinalizedHasActiveQuorum
<1>1. TypeOK /\ SoundInv /\ LoneInv /\ SoundInv' /\ [Next]_vars =>
        [calm => \A t \in Final' \ Final : Quorum(Backing(t)', TotalActive')]_vars
  BY QuorumStep
<1>2. Spec => []LoneInv
  BY LoneAlways
<1> QED
  BY <1>1, <1>2, SoundAlways, TypeCorrect, PTL DEF Spec, FinalizedHasActiveQuorum

(* A block whose checkpoint is still to be opened has no row yet, since    *)
(* only stored blocks have been voted for.                                 *)
FreshInv ==
  /\ DOMAIN rows \subseteq stored
  /\ \A p \in Process : opening[p] # None =>
       opening[p] \in stored /\ opening[p] \notin DOMAIN rows
  /\ \A p \in Process : voting[p] # None => voting[p].vote \in cast

LEMMA FreshStep ==
  ASSUME NEW me, Process = {me}, TypeOK, LoneInv, FreshInv, [KnownNext]_vars
  PROVE  FreshInv'
<1> USE DEF FreshInv
<1>1. CASE UNCHANGED vars
  BY <1>1 DEF vars, rulesVars, calls, history
<1>2. ASSUME NEW v \in Validator, NEW s \in Stake, RegisterValidator(me, v, s)
      PROVE  FreshInv'
  BY <1>2 DEF RegisterValidator, Register, calls
<1>3. ASSUME NEW vote \in Vote, BeginVote(me, vote)
      PROVE  FreshInv'
  BY <1>3 DEF BeginVote, Idle, rulesVars, TypeOK
<1>4. ASSUME ReadTotal(me) \/ ReadRow(me)
      PROVE  FreshInv'
  BY <1>4 DEF ReadTotal, ReadRow, AtStage, rulesVars, history, TypeOK, IsBallot
<1>5. ASSUME Slash(me) \/ IgnoreRepeated(me) \/ Crash(me)
      PROVE  FreshInv'
  BY <1>5 DEF Slash, IgnoreRepeated, Crash, Done, rulesVars, history, TypeOK
<1>6. ASSUME RecordVote(me), \A vote \in cast' : vote.target \in stored
      PROVE  FreshInv'
  <2>1. voting[me].vote.target \in stored /\ opening[me] = None
    BY <1>6 DEF RecordVote, FirstVote, AtStage, WriteRow, history, LoneInv
  <2>2. DOMAIN rows' = DOMAIN rows \cup {voting[me].vote.target}
    BY <1>6 DEF RecordVote, WriteRow, PutRow
  <2> QED
    BY <1>6, <2>1, <2>2 DEF RecordVote, WriteRow, Done, history, TypeOK
<1>7. ASSUME NEW t \in DOMAIN HeightOf, StoreBlock(me, t)
      PROVE  FreshInv'
  BY <1>7 DEF StoreBlock, Idle, rulesVars, history, TypeOK
<1>8. ASSUME OpenCheckpoint(me)
      PROVE  FreshInv'
  <2>1. DOMAIN rows' = DOMAIN rows \cup {opening[me]} /\ opening'[me] = None
    BY <1>8 DEF OpenCheckpoint, OpenRow, PutRow, TypeOK
  <2> QED
    BY <1>8, <2>1 DEF OpenCheckpoint, history
<1> QED
  BY <1>1, <1>2, <1>3, <1>4, <1>5, <1>6, <1>7, <1>8 DEF KnownNext, Next, VoteStep

LEMMA FinalStep ==
  ASSUME NEW me, Process = {me}, TypeOK, LoneInv, FreshInv, [Next]_vars
  PROVE  Final \subseteq Final'
<1>1. CASE UNCHANGED rows
  BY <1>1 DEF Final
<1>2. CASE RecordVote(me)
  <2> DEFINE b == voting[me]
  <2>1. b.row = RowOf(b.vote.target)
    BY <1>2 DEF RecordVote, FirstVote, AtStage, LoneInv
  <2>2. PutRow(b.vote.target, WithVote(b.row, b.vote, b.weight, b.total))
    BY <1>2 DEF RecordVote, WriteRow
  <2> QED
    BY <2>1, <2>2 DEF PutRow, WithVote, RowOf, Final
<1>3. CASE OpenCheckpoint(me)
  <2>1. opening[me] \notin DOMAIN rows
    BY <1>3 DEF OpenCheckpoint, FreshInv
  <2> QED
    BY <1>3, <2>1 DEF OpenCheckpoint, OpenRow, PutRow, Final
<1> QED
  BY <1>1, <1>2, <1>3
  DEF Next, VoteStep, BeginVote, ReadTotal, ReadRow, IgnoreRepeated, Slash,
      RegisterValidator, Register, StoreBlock, Crash, rulesVars, vars

(* With one process that votes for blocks it has stored, no step undoes a  *)
(* finalization.                                                           *)
THEOREM FinalityStays ==
  ASSUME NEW me, Process = {me}
  PROVE  KnownSpec => FinalIsFinal
<1>1. Init => FreshInv
  BY DEF Init, RulesInit, FreshInv
<1>2. TypeOK /\ LoneInv /\ FreshInv /\ [KnownNext]_vars => FreshInv'
  BY FreshStep
<1>3. TypeOK /\ LoneInv /\ FreshInv /\ [Next]_vars => [Final \subseteq Final']_vars
  BY FinalStep
<1>4. [KnownNext]_vars => [Next]_vars
  BY DEF KnownNext
<1>5. Spec => []LoneInv
  BY LoneAlways
<1>6. Spec => []TypeOK
  BY TypeCorrect
<1> QED
  BY <1>1, <1>2, <1>3, <1>4, <1>5, <1>6, PTL DEF Spec, KnownSpec, FinalIsFinal
=============================================================================
