--------------------------- MODULE ResearchProofs ---------------------------
(***************************************************************************)
(* Proofs about KnowledgeUpdater and ResearchSync, for any number of       *)
(* processes, papers, listings and providers, and a file of any length.    *)
(***************************************************************************)
EXTENDS ResearchSync, FiniteSetTheorems, TLAPS

(* A sequence made of a finite set holds nothing else.                     *)
LEMMA SeqsOfSet ==
  ASSUME NEW S, IsFiniteSet(S), NEW s \in SetToSeqs(S)
  PROVE  s \in Seq(S) /\ ToSet(s) \subseteq S
<1>1. Cardinality(S) \in Nat
  BY FS_CardinalityType
<1>2. s \in [1..Cardinality(S) -> S]
  BY DEF SetToSeqs
<1>3. s \in Seq(S) /\ DOMAIN s = 1..Cardinality(S) /\ \A i \in DOMAIN s : s[i] \in S
  BY <1>1, <1>2
<1> QED
  BY <1>3 DEF ToSet

LEMMA Concatenated ==
  ASSUME NEW S, NEW s \in Seq(S), NEW t \in Seq(S)
  PROVE  ToSet(s \o t) = ToSet(s) \cup ToSet(t)
<1>1. /\ DOMAIN s = 1..Len(s) /\ DOMAIN t = 1..Len(t)
      /\ DOMAIN (s \o t) = 1..(Len(s) + Len(t)) /\ Len(s) \in Nat /\ Len(t) \in Nat
  OBVIOUS
<1>2. \A i \in 1..Len(s) : (s \o t)[i] = s[i]
  OBVIOUS
<1>3. \A i \in 1..Len(t) : (s \o t)[Len(s) + i] = t[i]
  OBVIOUS
<1>4. \A i \in DOMAIN (s \o t) :
        i \in 1..Len(s) \/ \E n \in 1..Len(t) : i = Len(s) + n
  <2> SUFFICES ASSUME NEW i \in 1..(Len(s) + Len(t)), i > Len(s)
               PROVE  \E n \in 1..Len(t) : i = Len(s) + n
    BY <1>1
  <2>1. i - Len(s) \in 1..Len(t) /\ i = Len(s) + (i - Len(s))
    BY <1>1
  <2> QED
    BY <2>1
<1>5. \A n \in 1..Len(t) : Len(s) + n \in DOMAIN (s \o t)
  BY <1>1
<1>6. \A n \in 1..Len(s) : n \in DOMAIN (s \o t)
  BY <1>1
<1>7. ASSUME NEW x \in ToSet(s \o t) PROVE x \in ToSet(s) \cup ToSet(t)
  <2>1. PICK i \in DOMAIN (s \o t) : x = (s \o t)[i]
    BY <1>7 DEF ToSet
  <2>2. CASE i \in 1..Len(s)
    BY <1>1, <1>2, <2>1, <2>2 DEF ToSet
  <2>3. CASE \E n \in 1..Len(t) : i = Len(s) + n
    BY <1>1, <1>3, <2>1, <2>3 DEF ToSet
  <2> QED
    BY <1>4, <2>2, <2>3
<1>8. ToSet(s) \subseteq ToSet(s \o t)
  BY <1>1, <1>2, <1>6 DEF ToSet
<1>9. ASSUME NEW x \in ToSet(t) PROVE x \in ToSet(s \o t)
  <2>1. PICK n \in 1..Len(t) : x = t[n]
    BY <1>1 DEF ToSet
  <2> QED
    BY <1>3, <1>5, <2>1 DEF ToSet
<1> QED
  BY <1>7, <1>8, <1>9

(* What a listing answers is a sequence of its papers.                     *)
LEMMA PageIsListed ==
  ASSUME NEW i \in DOMAIN Listing, NEW S, NEW listed \in SUBSET (Listing[i] \ S),
         NEW page \in SetToSeqs(listed)
  PROVE  /\ page \in Seq(Paper)
         /\ ToSet(page) \subseteq Listing[i] \ S
<1>1. Listing[i] \subseteq Paper /\ IsFiniteSet(Listing[i])
  BY UpdaterAssumption
<1>2. IsFiniteSet(listed)
  BY <1>1, FS_Subset
<1>3. page \in Seq(listed) /\ ToSet(page) \subseteq listed
  BY <1>2, SeqsOfSet
<1> QED
  BY <1>1, <1>3

(* The entries a ranking keeps are among the papers found.                 *)
LEMMA EntriesAreFound ==
  ASSUME NEW papers \in Seq(Paper), NEW order \in Ranked(papers)
  PROVE  /\ Entries(papers, order) \in Seq(Paper)
         /\ ToSet(Entries(papers, order)) \subseteq ToSet(papers)
<1>1. Top(papers) \subseteq 1..Len(papers)
  BY DEF Top
<1>2. IsFiniteSet(Top(papers))
  BY <1>1, FS_Interval, FS_Subset
<1>3. order \in Seq(Top(papers))
  BY <1>2, SeqsOfSet DEF Ranked
<1>4. \A n \in DOMAIN order : order[n] \in 1..Len(papers)
  BY <1>1, <1>3
<1>5. DOMAIN Entries(papers, order) = 1..Len(order)
  BY <1>3 DEF Entries
<1>6. \A n \in 1..Len(order) : Entries(papers, order)[n] = papers[order[n]]
  BY <1>3 DEF Entries
<1>7. Entries(papers, order) \in Seq(Paper)
  BY <1>3, <1>4 DEF Entries
<1>8. ToSet(Entries(papers, order)) \subseteq ToSet(papers)
  BY <1>3, <1>4, <1>5, <1>6 DEF ToSet
<1> QED
  BY <1>7, <1>8

-----------------------------------------------------------------------------
LEMMA SyncStepIsUpdater == [ResearchNext]_syncVars => [Next]_vars
  BY DEF ResearchNext, Crawl, StartSync, SyncStep, Killed, RunUpdater, CrawlStep,
    AskAboutNew, CallFails, CallAnswers, StoreSynthesis, SyncReturns, Next, syncVars

(* Every step of a sync or a crawl is a step of an updater, or leaves the  *)
(* updaters alone: what is proved of them holds beside the models as well. *)
THEOREM SyncIsUpdater == ResearchSpec => Spec
<1>1. ResearchInit => Init
  BY DEF ResearchInit
<1> QED
  BY <1>1, SyncStepIsUpdater, PTL DEF ResearchSpec, Spec

(* TypeOK of KnowledgeUpdater is inductive.                                *)
LEMMA TypeStep == TypeOK /\ [Next]_vars => TypeOK'
<1> SUFFICES ASSUME TypeOK, [Next]_vars PROVE TypeOK'
  OBVIOUS
<1> USE DEF TypeOK
<1>1. ASSUME UNCHANGED vars PROVE TypeOK'
  BY <1>1 DEF vars, runVars
<1>2. ASSUME NEW p \in Process, Make(p) PROVE TypeOK'
  <2>1. Recorded \subseteq Paper
    <3>1. ASSUME NEW i \in DOMAIN brain PROVE ToSet(brain[i].rows) \subseteq Paper
      <4>1. brain[i] \in [by : Process, rows : Seq(Paper)]
        <5> DEFINE Section == [by : Process, rows : Seq(Paper)]
        <5>1. brain \in Seq(Section)
          BY DEF TypeOK
        <5> HIDE DEF Section
        <5>2. brain[i] \in Section
          BY <5>1
        <5> QED
          BY <5>2 DEF Section
      <4>2. brain[i].rows \in Seq(Paper)
        BY <4>1
      <4> QED
        BY <4>2 DEF ToSet
    <3> QED
      BY <3>1 DEF Recorded
  <2> QED
    BY <1>2, <2>1 DEF Make, runVars
<1>3. ASSUME NEW p \in Process, End(p) PROVE TypeOK'
  BY <1>3 DEF End, Over
<1>4. ASSUME NEW p \in Process, Run(p) PROVE TypeOK'
  BY <1>4 DEF Run
<1>5. ASSUME NEW p \in Process, Fetch(p) PROVE TypeOK'
  <2>1. asked[p] + 1 \in DOMAIN Listing
    BY <1>5, UpdaterAssumption DEF Fetch
  <2>2. PICK listed \in SUBSET (Listing[asked[p] + 1] \ seen[p]) :
          \E page \in SetToSeqs(listed) : found' = [found EXCEPT ![p] = @ \o page]
    BY <1>5 DEF Fetch
  <2>6. PICK page \in SetToSeqs(listed) : found' = [found EXCEPT ![p] = @ \o page]
    BY <2>2
  <2>3. page \in Seq(Paper)
    BY <2>1, PageIsListed
  <2>4. found' \in [Process -> Seq(Paper)]
    BY <2>6, <2>3
  <2>5. asked' \in [Process -> 0..Len(Listing)]
    BY <1>5, UpdaterAssumption DEF Fetch
  <2> QED
    BY <1>5, <2>4, <2>5 DEF Fetch
<1>6. ASSUME NEW p \in Process, Rank(p) PROVE TypeOK'
  <2>1. CASE Over(p)
    BY <1>6, <2>1 DEF Rank, Over
  <2>2. CASE ~Over(p)
    <3>1. PICK order \in Ranked(found[p]) :
            new' = [new EXCEPT ![p] = Entries(found[p], order)]
      BY <1>6, <2>2 DEF Rank
    <3>2. Entries(found[p], order) \in Seq(Paper)
      BY EntriesAreFound
    <3>3. p \in up
      BY <1>6 DEF Rank
    <3> QED
      BY <1>6, <2>2, <3>1, <3>2, <3>3 DEF Rank
  <2> QED
    BY <2>1, <2>2
<1>7. ASSUME NEW p \in Process, AppendToBrain(p) PROVE TypeOK'
  <2>1. brain' \in Seq([by : Process, rows : Seq(Paper)])
    BY <1>7 DEF AppendToBrain
  <2> QED
    BY <1>7, <2>1 DEF AppendToBrain
<1>8. ASSUME NEW p \in Process, AppendFails(p) PROVE TypeOK'
  BY <1>8 DEF AppendFails, Over
<1>9. ASSUME NEW p \in Process, Mark(p) PROVE TypeOK'
  <2>1. ToSet(new[p]) \subseteq Paper
    BY DEF ToSet
  <2>2. p \in up
    BY <1>9 DEF Mark
  <2> QED
    BY <1>9, <2>1, <2>2 DEF Mark, Over
<1> QED
  BY <1>1, <1>2, <1>3, <1>4, <1>5, <1>6, <1>7, <1>8, <1>9 DEF Next

LEMMA UpdaterTyped == Spec => []TypeOK
<1>1. Init => TypeOK
  BY DEF Init, TypeOK
<1> QED
  BY <1>1, TypeStep, PTL DEF Spec

(* Every variable of the updaters keeps its type, and a process without an *)
(* updater has no run and no seen set.                                     *)
THEOREM TypeCorrect == ResearchSpec => []TypeOK
  BY SyncIsUpdater, UpdaterTyped, PTL
-----------------------------------------------------------------------------
(* What SeenIsRecorded needs: also what a run is about to mark is in the   *)
(* file already.                                                           *)
MarkedIsRecorded ==
  \A p \in Process : stage[p] = "mark" => ToSet(new[p]) \subseteq Recorded

SeenInv == SeenIsRecorded /\ MarkedIsRecorded

(* The file only grows.                                                    *)
LEMMA FileGrows ==
  ASSUME TypeOK, NEW p \in Process, AppendToBrain(p)
  PROVE  Recorded' = Recorded \cup ToSet(new[p])
<1>1. brain' = Append(brain, [by |-> p, rows |-> new[p]])
  BY DEF AppendToBrain
<1>2. brain \in Seq([by : Process, rows : Seq(Paper)]) /\ new[p] \in Seq(Paper)
  BY DEF TypeOK
<1>3. DOMAIN brain' = DOMAIN brain \cup {Len(brain) + 1}
  BY <1>1, <1>2
<1>4. \A i \in DOMAIN brain : brain'[i] = brain[i]
  BY <1>1, <1>2
<1>5. brain'[Len(brain) + 1].rows = new[p]
  BY <1>1, <1>2
<1> QED
  BY <1>3, <1>4, <1>5 DEF Recorded

(* SeenInv is inductive, with the types.                                   *)
LEMMA SeenStep == TypeOK /\ SeenInv /\ [Next]_vars => SeenInv'
<1> SUFFICES ASSUME TypeOK, SeenInv, [Next]_vars PROVE SeenInv'
  OBVIOUS
<1> USE DEF SeenInv, SeenIsRecorded, MarkedIsRecorded
<1>a. /\ seen \in [Process -> SUBSET Paper] /\ new \in [Process -> Seq(Paper)]
      /\ stage \in [Process -> {"idle", "fetch", "append", "mark"}]
  BY DEF TypeOK
<1>1. ASSUME UNCHANGED brain PROVE Recorded' = Recorded
  BY <1>1 DEF Recorded
<1>2. CASE UNCHANGED vars
  BY <1>1, <1>2 DEF vars, runVars
<1>3. ASSUME NEW p \in Process, Make(p) PROVE SeenInv'
  BY <1>a, <1>1, <1>3 DEF Make, runVars
<1>4. ASSUME NEW p \in Process, End(p) \/ AppendFails(p) \/ Run(p) \/ Fetch(p) PROVE SeenInv'
  BY <1>a, <1>1, <1>4 DEF End, AppendFails, Run, Fetch, Over
<1>5. ASSUME NEW p \in Process, Rank(p) PROVE SeenInv'
  <2>1. CASE Over(p)
    BY <1>a, <1>1, <1>5, <2>1 DEF Rank, Over
  <2>2. CASE ~Over(p)
    <3>1. PICK order \in Ranked(found[p]) :
            new' = [new EXCEPT ![p] = Entries(found[p], order)]
      BY <1>5, <2>2 DEF Rank
    <3> QED
      BY <1>a, <1>1, <1>5, <2>2, <3>1 DEF Rank
  <2> QED
    BY <2>1, <2>2
<1>6. ASSUME NEW p \in Process, AppendToBrain(p) PROVE SeenInv'
  BY <1>a, <1>6, FileGrows DEF AppendToBrain
<1>7. ASSUME NEW p \in Process, Mark(p) PROVE SeenInv'
  BY <1>a, <1>1, <1>7 DEF Mark, Over
<1> QED
  BY <1>2, <1>3, <1>4, <1>5, <1>6, <1>7 DEF Next

(* An updater takes for seen only what the file has, wherever runs fail or *)
(* processes die.                                                          *)
THEOREM SeenRecorded == ResearchSpec => []SeenIsRecorded
<1>1. Init => SeenInv
  BY DEF Init, SeenInv, SeenIsRecorded, MarkedIsRecorded
<1>2. Spec => []SeenInv
  BY <1>1, SeenStep, UpdaterTyped, PTL DEF Spec
<1>3. SeenInv => SeenIsRecorded
  BY DEF SeenInv
<1> QED
  BY <1>2, <1>3, SyncIsUpdater, PTL
-----------------------------------------------------------------------------
(* What NoRowTwice needs: what a process has recorded is seen by its       *)
(* updater or about to be marked, and what a run has found and not yet     *)
(* recorded is unseen.                                                     *)
OwnRowsSeen ==
  \A p \in up, i \in DOMAIN brain : brain[i].by = p =>
    \A x \in ToSet(brain[i].rows) \ Torn :
      x \in seen[p] \/ (stage[p] = "mark" /\ x \in ToSet(new[p]))

FoundIsUnseen ==
  \A p \in Process :
    /\ stage[p] = "idle" => found[p] = << >>
    /\ stage[p] # "mark" => ToSet(found[p]) \cap seen[p] = {}
    /\ stage[p] = "append" => ToSet(new[p]) \subseteq ToSet(found[p])

OnceInv == NoRowTwice /\ OwnRowsSeen /\ FoundIsUnseen

LEMMA FoundStep == TypeOK /\ FoundIsUnseen /\ [Next]_vars => FoundIsUnseen'
<1> SUFFICES ASSUME TypeOK, FoundIsUnseen, [Next]_vars PROVE FoundIsUnseen'
  OBVIOUS
<1> USE DEF FoundIsUnseen
<1>a. /\ seen \in [Process -> SUBSET Paper] /\ new \in [Process -> Seq(Paper)]
      /\ found \in [Process -> Seq(Paper)]
      /\ stage \in [Process -> {"idle", "fetch", "append", "mark"}]
  BY DEF TypeOK
<1>b. ToSet(<< >>) = {}
  BY DEF ToSet
<1>1. CASE UNCHANGED vars
  BY <1>1 DEF vars, runVars
<1>2. ASSUME NEW p \in Process, Make(p) PROVE FoundIsUnseen'
  BY <1>a, <1>b, <1>2 DEF Make, runVars, TypeOK
<1>3. ASSUME NEW p \in Process, End(p) \/ AppendFails(p) \/ Mark(p) PROVE FoundIsUnseen'
  BY <1>a, <1>b, <1>3 DEF End, AppendFails, Mark, Over
<1>4. ASSUME NEW p \in Process, Run(p) \/ AppendToBrain(p) PROVE FoundIsUnseen'
  BY <1>a, <1>b, <1>4 DEF Run, AppendToBrain
<1>5. ASSUME NEW p \in Process, Fetch(p) PROVE FoundIsUnseen'
  <2>1. asked[p] + 1 \in DOMAIN Listing
    BY <1>5, UpdaterAssumption DEF Fetch, TypeOK
  <2>2. PICK listed \in SUBSET (Listing[asked[p] + 1] \ seen[p]) :
          \E page \in SetToSeqs(listed) : found' = [found EXCEPT ![p] = @ \o page]
    BY <1>5 DEF Fetch
  <2>3. PICK page \in SetToSeqs(listed) : found' = [found EXCEPT ![p] = @ \o page]
    BY <2>2
  <2>4. page \in Seq(Paper) /\ ToSet(page) \cap seen[p] = {}
    BY <2>1, PageIsListed
  <2>5. ToSet(found[p] \o page) = ToSet(found[p]) \cup ToSet(page)
    BY <1>a, <2>4, Concatenated
  <2>6. ToSet(found'[p]) \cap seen[p] = {}
    BY <1>a, <1>5, <2>3, <2>4, <2>5 DEF Fetch
  <2> QED
    BY <1>a, <1>5, <2>3, <2>6 DEF Fetch
<1>6. ASSUME NEW p \in Process, Rank(p) PROVE FoundIsUnseen'
  <2>1. CASE Over(p)
    BY <1>a, <1>b, <1>6, <2>1 DEF Rank, Over
  <2>2. CASE ~Over(p)
    <3>1. PICK order \in Ranked(found[p]) :
            new' = [new EXCEPT ![p] = Entries(found[p], order)]
      BY <1>6, <2>2 DEF Rank
    <3>2. ToSet(Entries(found[p], order)) \subseteq ToSet(found[p])
      BY <1>a, EntriesAreFound
    <3> QED
      BY <1>a, <1>6, <2>2, <3>1, <3>2 DEF Rank
  <2> QED
    BY <2>1, <2>2
<1> QED
  BY <1>1, <1>2, <1>3, <1>4, <1>5, <1>6 DEF Next

(* OnceInv is inductive, with the types.  Sections differ only after an    *)
(* append, and then the new one holds nothing that its writer has seen.    *)
LEMMA OnceStep == TypeOK /\ OnceInv /\ [Next]_vars => OnceInv'
<1> SUFFICES ASSUME TypeOK, OnceInv, [Next]_vars PROVE NoRowTwice' /\ OwnRowsSeen'
  BY FoundStep DEF OnceInv
<1> USE DEF OwnRowsSeen
<1>a. /\ seen \in [Process -> SUBSET Paper] /\ new \in [Process -> Seq(Paper)]
      /\ stage \in [Process -> {"idle", "fetch", "append", "mark"}] /\ up \subseteq Process
  BY DEF TypeOK
<1>b. NoRowTwice /\ OwnRowsSeen
  BY DEF OnceInv
<1>1. ASSUME UNCHANGED brain PROVE NoRowTwice'
  BY <1>b, <1>1 DEF NoRowTwice
<1>2. CASE UNCHANGED vars
  BY <1>b, <1>1, <1>2 DEF vars, runVars
<1>3. ASSUME NEW p \in Process, Make(p) PROVE NoRowTwice' /\ OwnRowsSeen'
  <2>1. \A i \in DOMAIN brain : ToSet(brain[i].rows) \subseteq Recorded
    BY DEF Recorded
  <2> QED
    BY <1>a, <1>b, <1>1, <1>3, <2>1 DEF Make, runVars
<1>4. ASSUME NEW p \in Process, End(p) \/ AppendFails(p) \/ Run(p) \/ Fetch(p)
      PROVE NoRowTwice' /\ OwnRowsSeen'
  BY <1>a, <1>b, <1>1, <1>4 DEF End, AppendFails, Run, Fetch, Over
<1>5. ASSUME NEW p \in Process, Rank(p) PROVE NoRowTwice' /\ OwnRowsSeen'
  <2>1. CASE Over(p)
    BY <1>a, <1>b, <1>1, <1>5, <2>1 DEF Rank, Over
  <2>2. CASE ~Over(p)
    <3>1. PICK order \in Ranked(found[p]) :
            new' = [new EXCEPT ![p] = Entries(found[p], order)]
      BY <1>5, <2>2 DEF Rank
    <3> QED
      BY <1>a, <1>b, <1>1, <1>5, <2>2, <3>1 DEF Rank
  <2> QED
    BY <2>1, <2>2
<1>6. ASSUME NEW p \in Process, AppendToBrain(p) PROVE NoRowTwice' /\ OwnRowsSeen'
  <2> DEFINE last == Len(brain) + 1
  <2>1. brain' = Append(brain, [by |-> p, rows |-> new[p]])
    BY <1>6 DEF AppendToBrain
  <2>2. brain \in Seq([by : Process, rows : Seq(Paper)]) /\ new[p] \in Seq(Paper)
    BY DEF TypeOK
  <2>3. DOMAIN brain = 1..Len(brain) /\ DOMAIN brain' = 1..last /\ Len(brain) \in Nat
    BY <2>1, <2>2
  <2>4. \A i \in DOMAIN brain : brain'[i] = brain[i]
    BY <2>1, <2>2
  <2>5. brain'[last].by = p /\ brain'[last].rows = new[p]
    BY <2>1, <2>2
  <2>6. ToSet(new[p]) \cap seen[p] = {} /\ p \in up /\ stage[p] = "append"
    BY <1>6 DEF AppendToBrain, OnceInv, FoundIsUnseen, TypeOK
  <2>7. \A i \in DOMAIN brain : brain[i].by = p =>
          ToSet(brain[i].rows) \cap ToSet(new[p]) \subseteq Torn
    BY <1>b, <2>6
  <2>8. NoRowTwice'
    <3> SUFFICES ASSUME NEW i \in 1..last, NEW j \in 1..last, i < j, brain'[i].by = brain'[j].by
                 PROVE  ToSet(brain'[i].rows) \cap ToSet(brain'[j].rows) \subseteq Torn
      BY <2>3 DEF NoRowTwice
    <3>1. CASE j = last
      BY <2>3, <2>4, <2>5, <2>7, <3>1
    <3>2. CASE j # last
      BY <1>b, <2>3, <2>4, <3>2 DEF NoRowTwice
    <3> QED
      BY <3>1, <3>2
  <2>9. OwnRowsSeen'
    BY <1>a, <1>b, <1>6, <2>3, <2>4, <2>5, <2>6 DEF AppendToBrain
  <2> QED
    BY <2>8, <2>9
<1>7. ASSUME NEW p \in Process, Mark(p) PROVE NoRowTwice' /\ OwnRowsSeen'
  BY <1>a, <1>b, <1>1, <1>7 DEF Mark, Over
<1> QED
  BY <1>2, <1>3, <1>4, <1>5, <1>6, <1>7 DEF Next

(* No process gives a paper rows in two sections, but for torn URLs,       *)
(* however often its runs fail and it is restarted.                        *)
THEOREM NoSecondRow == ResearchSpec => []NoRowTwice
<1>1. Init => OnceInv
  BY DEF Init, OnceInv, NoRowTwice, OwnRowsSeen, FoundIsUnseen, ToSet
<1>2. Spec => []OnceInv
  BY <1>1, OnceStep, UpdaterTyped, PTL DEF Spec
<1>3. OnceInv => NoRowTwice
  BY DEF OnceInv
<1> QED
  BY <1>2, <1>3, SyncIsUpdater, PTL

-----------------------------------------------------------------------------
(* What SynthesisRecorded needs: a section is in the file whole from the   *)
(* append on, and a prompt is about one that a node has written.           *)
SectionOf(writers, papers) ==
  \E i \in DOMAIN brain : brain[i].by \in writers /\ brain[i].rows = papers

PromptInv ==
  /\ prompt \in [Process -> [papers : Seq(Paper), provider : Nat, attempt : Nat,
                             answer : {None, "json", "text", "fallback"}] \cup {None}]
  /\ \A p \in Process : stage[p] = "mark" => SectionOf({p}, new[p])
  /\ \A p \in Process : prompt[p] # None => SectionOf(Node, prompt[p].papers)
  /\ latest # None => SectionOf(Node, latest.papers)

(* Sections stay.                                                          *)
LEMMA SectionsStay ==
  ASSUME TypeOK, [Next]_vars, NEW writers, NEW papers, SectionOf(writers, papers)
  PROVE  SectionOf(writers, papers)'
<1>1. CASE UNCHANGED brain
  BY <1>1 DEF SectionOf
<1>2. ASSUME NEW p \in Process, AppendToBrain(p) PROVE SectionOf(writers, papers)'
  <2>1. brain' = Append(brain, [by |-> p, rows |-> new[p]])
    BY <1>2 DEF AppendToBrain
  <2>2. brain \in Seq([by : Process, rows : Seq(Paper)]) /\ new[p] \in Seq(Paper)
    BY DEF TypeOK
  <2>3. \A i \in DOMAIN brain : i \in DOMAIN brain' /\ brain'[i] = brain[i]
    BY <2>1, <2>2
  <2> QED
    BY <2>3 DEF SectionOf
<1> QED
  BY <1>1, <1>2 DEF Next, Make, End, Run, Fetch, Rank, AppendFails, Mark, Over, vars

LEMMA PromptStep == TypeOK /\ PromptInv /\ [ResearchNext]_syncVars => PromptInv'
<1> SUFFICES ASSUME TypeOK, PromptInv, [ResearchNext]_syncVars PROVE PromptInv'
  OBVIOUS
<1> DEFINE Prompt == [papers : Seq(Paper), provider : Nat, attempt : Nat,
                      answer : {None, "json", "text", "fallback"}]
           Marks == \A q \in Process : stage[q] = "mark" => SectionOf({q}, new[q])
           Prompts == \A q \in Process : prompt[q] # None => SectionOf(Node, prompt[q].papers)
           Latest == latest # None => SectionOf(Node, latest.papers)
<1>a. [Next]_vars
  BY SyncStepIsUpdater
<1>b. ASSUME NEW writers, NEW papers, SectionOf(writers, papers)
      PROVE  \E i \in DOMAIN brain' : brain'[i].by \in writers /\ brain'[i].rows = papers
  <2>1. SectionOf(writers, papers)'
    BY <1>a, <1>b, SectionsStay
  <2> QED
    BY <2>1 DEF SectionOf
<1>c. /\ new \in [Process -> Seq(Paper)]
      /\ stage \in [Process -> {"idle", "fetch", "append", "mark"}]
      /\ prompt \in [Process -> Prompt \cup {None}]
  BY DEF TypeOK, PromptInv
<1>d. Marks /\ Prompts /\ Latest
  BY DEF PromptInv
<1>e. \A q \in Process : stage[q] = "mark" =>
        \E i \in DOMAIN brain' : brain'[i].by \in {q} /\ brain'[i].rows = new[q]
  BY <1>b, <1>d
<1>f. \A q \in Process : prompt[q] # None =>
        \E i \in DOMAIN brain' : brain'[i].by \in Node /\ brain'[i].rows = prompt[q].papers
  BY <1>b, <1>d
<1>g. latest # None =>
        \E i \in DOMAIN brain' : brain'[i].by \in Node /\ brain'[i].rows = latest.papers
  BY <1>b, <1>d
<1>1. ASSUME prompt' = prompt, latest' = latest
      PROVE  (prompt \in [Process -> Prompt \cup {None}])' /\ Prompts' /\ Latest'
  <2>1. Prompts'
    BY <1>1, <1>f DEF SectionOf
  <2>2. Latest'
    BY <1>1, <1>g DEF SectionOf
  <2> QED
    BY <1>1, <1>c, <2>1, <2>2
<1>2. ASSUME UNCHANGED <<stage, new>> PROVE Marks'
  BY <1>2, <1>e DEF SectionOf
<1>3. ASSUME NEW p \in Process, Over(p) PROVE Marks'
  BY <1>3, <1>c, <1>e DEF SectionOf, Over
<1>4. CASE UNCHANGED syncVars
  BY <1>1, <1>2, <1>4 DEF syncVars, vars, runVars, researchVars, PromptInv
<1>5. ASSUME NEW p \in Process, Crawl(p) \/ StartSync(p) \/ RunUpdater(p) \/ SyncReturns(p)
      PROVE  Marks'
  <2>1. CASE Make(p)
    BY <1>2, <2>1 DEF Make, runVars
  <2>2. CASE End(p) \/ Mark(p)
    BY <1>3, <2>2 DEF End, Mark
  <2>3. CASE Run(p)
    BY <1>c, <1>e, <2>3 DEF Run, SectionOf
  <2> QED
    BY <1>5, <2>1, <2>2, <2>3 DEF Crawl, StartSync, RunUpdater, SyncReturns
<1>6. ASSUME NEW p \in Process, Crawl(p) \/ StartSync(p) \/ RunUpdater(p) \/ SyncReturns(p)
      PROVE  PromptInv'
  <2>1. prompt' = prompt /\ latest' = latest
    BY <1>6 DEF Crawl, StartSync, RunUpdater, SyncReturns, researchVars
  <2> QED
    BY <1>1, <1>5, <1>6, <2>1 DEF PromptInv
<1>7. ASSUME NEW p \in Process, CrawlStep(p) PROVE PromptInv'
  <2>1. prompt' = prompt /\ latest' = latest
    BY <1>7 DEF CrawlStep, researchVars
  <2>2. Marks'
    <3>1. CASE Fetch(p)
      BY <1>2, <3>1 DEF Fetch
    <3>2. CASE Rank(p) /\ ~Over(p)
      <4>1. PICK order \in Ranked(found[p]) :
              new' = [new EXCEPT ![p] = Entries(found[p], order)]
        BY <3>2 DEF Rank
      <4>2. stage' = [stage EXCEPT ![p] = "append"]
        BY <3>2 DEF Rank
      <4>3. \A q \in Process : stage'[q] = "mark" => stage[q] = "mark" /\ new'[q] = new[q]
        BY <1>c, <4>1, <4>2
      <4> QED
        BY <1>e, <4>3 DEF SectionOf
    <3>3. CASE AppendToBrain(p)
      <4>1. brain' = Append(brain, [by |-> p, rows |-> new[p]])
        BY <3>3 DEF AppendToBrain
      <4>2. brain \in Seq([by : Process, rows : Seq(Paper)]) /\ new[p] \in Seq(Paper)
        BY DEF TypeOK
      <4>3. \E i \in DOMAIN brain' : brain'[i].by \in {p} /\ brain'[i].rows = new[p]
        <5>1. Len(brain) + 1 \in DOMAIN brain'
          BY <4>1, <4>2
        <5>2. brain'[Len(brain) + 1].by = p /\ brain'[Len(brain) + 1].rows = new[p]
          BY <4>1, <4>2
        <5> QED
          BY <5>1, <5>2
      <4> QED
        BY <1>c, <1>e, <3>3, <4>3 DEF AppendToBrain, SectionOf
    <3>4. CASE Over(p)
      BY <1>3, <3>4
    <3> QED
      BY <1>7, <3>1, <3>2, <3>3, <3>4 DEF CrawlStep, AppendFails
  <2> QED
    BY <1>1, <2>1, <2>2 DEF PromptInv
<1>8. ASSUME NEW p \in Process, AskAboutNew(p) PROVE PromptInv'
  <2>1. Marks' /\ latest' = latest
    BY <1>3, <1>8 DEF AskAboutNew, Mark
  <2>2. CASE prompt' = prompt
    BY <1>1, <2>1, <2>2 DEF PromptInv
  <2>3. CASE prompt' = [prompt EXCEPT ![p] = Synthesis(new[p], 1)]
    <3>1. SectionOf({p}, new[p]) /\ p \in Node
      BY <1>8, <1>d DEF AskAboutNew, Mark
    <3>2. \E i \in DOMAIN brain' : brain'[i].by \in Node /\ brain'[i].rows = new[p]
      BY <1>8, <1>e, <3>1 DEF AskAboutNew, Mark
    <3>3. Prompts'
      BY <1>c, <1>f, <2>3, <3>2 DEF Synthesis, SectionOf
    <3>4. Latest'
      BY <1>g, <2>1 DEF SectionOf
    <3>5. (prompt \in [Process -> Prompt \cup {None}])'
      BY <1>c, <2>3 DEF Synthesis
    <3> QED
      BY <2>1, <3>3, <3>4, <3>5 DEF PromptInv
  <2> QED
    BY <1>8, <2>2, <2>3 DEF AskAboutNew
<1>9. ASSUME NEW p \in Process, CallFails(p) \/ CallAnswers(p) PROVE PromptInv'
  <2>1. prompt[p] \in Prompt /\ prompt[p] # None
    BY <1>9, <1>c DEF CallFails, CallAnswers, Asking
  <2>2. PICK r \in Prompt : prompt' = [prompt EXCEPT ![p] = r] /\ r.papers = prompt[p].papers
    <3> DEFINE q == prompt[p]
    <3>1. q.attempt \in Nat /\ q.provider \in Nat
      BY <2>1
    <3>2. CASE prompt' = [prompt EXCEPT ![p].attempt = @ + 1]
      <4>1. [q EXCEPT !.attempt = q.attempt + 1] \in Prompt
        BY <2>1, <3>1
      <4> QED
        BY <1>c, <2>1, <3>2, <4>1
    <3>3. CASE prompt' = [prompt EXCEPT ![p] = Synthesis(@.papers, @.provider + 1)]
      <4>1. Synthesis(q.papers, q.provider + 1) \in Prompt
        BY <2>1, <3>1 DEF Synthesis
      <4> QED
        BY <1>c, <2>1, <3>3, <4>1 DEF Synthesis
    <3>4. ASSUME NEW kind \in {"json", "text", "fallback"},
                 prompt' = [prompt EXCEPT ![p].answer = kind]
          PROVE  \E r \in Prompt : prompt' = [prompt EXCEPT ![p] = r] /\ r.papers = prompt[p].papers
      <4>1. [q EXCEPT !.answer = kind] \in Prompt
        BY <2>1, <3>4
      <4> QED
        BY <1>c, <2>1, <3>4, <4>1
    <3> QED
      BY <1>9, <3>2, <3>3, <3>4 DEF CallFails, Retry, FallBack, CallAnswers, Answers
  <2>3. Marks' /\ latest' = latest /\ brain' = brain
    BY <1>2, <1>9 DEF CallFails, CallAnswers, vars, runVars
  <2>4. Prompts'
    BY <1>c, <1>f, <2>1, <2>2 DEF SectionOf
  <2>5. Latest'
    BY <1>g, <2>3 DEF SectionOf
  <2>6. (prompt \in [Process -> Prompt \cup {None}])'
    BY <1>c, <2>2
  <2> QED
    BY <2>3, <2>4, <2>5, <2>6 DEF PromptInv
<1>10. ASSUME NEW p \in Process, StoreSynthesis(p) PROVE PromptInv'
  <2>1. Marks'
    BY <1>2, <1>10 DEF StoreSynthesis, vars, runVars
  <2>2. Prompts' /\ (prompt \in [Process -> Prompt \cup {None}])'
    BY <1>c, <1>f, <1>10 DEF StoreSynthesis, SectionOf
  <2>3. Latest'
    BY <1>f, <1>g, <1>10 DEF StoreSynthesis, SectionOf
  <2> QED
    BY <2>1, <2>2, <2>3 DEF PromptInv
<1>11. ASSUME NEW p \in Process, Killed(p) PROVE PromptInv'
  <2>1. Marks' /\ latest' = latest
    BY <1>3, <1>11 DEF Killed, End
  <2>2. Prompts' /\ (prompt \in [Process -> Prompt \cup {None}])'
    BY <1>c, <1>f, <1>11 DEF Killed, SectionOf
  <2>3. Latest'
    BY <1>g, <2>1 DEF SectionOf
  <2> QED
    BY <2>1, <2>2, <2>3 DEF PromptInv
<1> QED
  BY <1>4, <1>6, <1>7, <1>8, <1>9, <1>10, <1>11 DEF ResearchNext, SyncStep

(* A stored synthesis is about the papers of one section that a node has   *)
(* put into the file, whatever fails or dies.                              *)
THEOREM SynthesisOnRecord == ResearchSpec => []SynthesisRecorded
<1>1. ResearchInit => PromptInv
  BY DEF ResearchInit, Init, PromptInv
<1>2. ResearchSpec => []PromptInv
  BY <1>1, PromptStep, TypeCorrect, PTL DEF ResearchSpec
<1>3. PromptInv => SynthesisRecorded
  BY DEF PromptInv, SynthesisRecorded, SectionOf
<1> QED
  BY <1>2, <1>3, PTL
=============================================================================
