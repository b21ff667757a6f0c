-------------------------- MODULE KnowledgeUpdater --------------------------
(***************************************************************************)
(* The research crawler of src/tools/knowledge_updater.py: it looks for    *)
(* papers in four listings, ranks the ones it has not seen, and appends    *)
(* the best to a Markdown file, SECOND-KNOWLEDGE-BRAIN.md.                 *)
(*                                                                         *)
(* The file is all that survives.  An updater reads the URLs in it once,   *)
(* when it is made (by the weekly scheduler, the command line or the node's*)
(* run_research_sync), and from then on keeps its own set of seen URLs.    *)
(* Updaters in several processes share the file without a lock.            *)
(*                                                                         *)
(* A paper stands for its URL.  A score is recency and relevance together, *)
(* and does not change while a model runs.                                 *)
(***************************************************************************)
EXTENDS Naturals, Sequences, FiniteSets, SequencesExt

CONSTANTS
  Process,    \* processes that make updaters
  Paper,      \* papers
  Torn,       \* those whose URL the pattern of _load_seen_hashes cuts short
  Listing,    \* the papers of each source, in the order they are asked
  Score,      \* the score of each paper, in hundredths
  MaxNew,     \* MAX_NEW_ENTRIES_PER_RUN
  MaxSections \* bound: sections of the file

ASSUME UpdaterAssumption ==
  /\ Torn \subseteq Paper
  /\ Listing \in Seq(SUBSET Paper) /\ \A i \in DOMAIN Listing : IsFiniteSet(Listing[i])
  /\ Score \in [Paper -> Nat] /\ MaxNew \in Nat /\ MaxSections \in Nat

Threshold == 10

VARIABLES
  brain, \* the sections of the file, each with the papers of its rows
  up,    \* processes that have an updater
  seen,  \* each updater's _seen_hashes
  stage, \* what each updater does: "idle", "fetch", "append", "mark"
  asked, \* how many listings its run has asked
  found, \* all_papers of its run
  new    \* new_entries of its run

runVars == <<stage, asked, found, new>>
vars == <<brain, up, seen, runVars>>

Init ==
  /\ brain = << >> /\ up = {}
  /\ seen = [p \in Process |-> {}]
  /\ stage = [p \in Process |-> "idle"]
  /\ asked = [p \in Process |-> 0] /\ found = [p \in Process |-> << >>]
  /\ new = [p \in Process |-> << >>]

-----------------------------------------------------------------------------
Recorded == UNION {ToSet(brain[i].rows) : i \in DOMAIN brain}

(* A run that is over leaves nothing but what is seen.                     *)
Over(p) ==
  /\ stage' = [stage EXCEPT ![p] = "idle"] /\ asked' = [asked EXCEPT ![p] = 0]
  /\ found' = [found EXCEPT ![p] = << >>] /\ new' = [new EXCEPT ![p] = << >>]

(* KnowledgeUpdater(): a URL that the pattern cuts short hashes to         *)
(* something else and is not recognized later.                             *)
Make(p) ==
  /\ p \notin up /\ up' = up \cup {p}
  /\ seen' = [seen EXCEPT ![p] = Recorded \ Torn]
  /\ UNCHANGED <<brain, runVars>>

(* Variant that leaves an unfinished run behind (TypeOK).                  *)
EndLeavesRun(p) ==
  /\ p \in up /\ up' = up \ {p}
  /\ seen' = [seen EXCEPT ![p] = {}]
  /\ UNCHANGED <<brain, runVars>>

(* A process ends, at any point of a run.                                  *)
End(p) ==
  /\ p \in up /\ up' = up \ {p}
  /\ seen' = [seen EXCEPT ![p] = {}] /\ Over(p)
  /\ UNCHANGED brain

Run(p) ==
  /\ p \in up /\ stage[p] = "idle"
  /\ stage' = [stage EXCEPT ![p] = "fetch"]
  /\ UNCHANGED <<brain, up, seen, asked, found, new>>

(* fetch_arxiv for one category, fetch_semantic_scholar or                 *)
(* fetch_papers_with_code: the unseen papers of the answer, in its order,  *)
(* up to where the request or an entry of the answer fails.                *)
Fetch(p) ==
  /\ stage[p] = "fetch" /\ asked[p] < Len(Listing)
  /\ asked' = [asked EXCEPT ![p] = @ + 1]
  /\ \E listed \in SUBSET (Listing[asked[p] + 1] \ seen[p]) :
       \E page \in SetToSeqs(listed) : found' = [found EXCEPT ![p] = @ \o page]
  /\ UNCHANGED <<brain, up, seen, stage, new>>

(* The ranking of run, over the positions of the papers found: a stable    *)
(* sort by score, the first MaxNew of it, and of those the ones above the  *)
(* threshold.  A paper found twice is there twice.                         *)
Before(papers, i, j) ==
  \/ Score[papers[i]] > Score[papers[j]]
  \/ Score[papers[i]] = Score[papers[j]] /\ i < j

Top(papers) ==
  {i \in DOMAIN papers :
     /\ Score[papers[i]] > Threshold
     /\ Cardinality({j \in DOMAIN papers : Before(papers, j, i)}) < MaxNew}

Ranked(papers) ==
  {order \in SetToSeqs(Top(papers)) :
     \A m, n \in DOMAIN order : m < n => Before(papers, order[m], order[n])}

Entries(papers, order) == [n \in DOMAIN order |-> papers[order[n]]]

(* Variant that marks the entries before the file is written               *)
(* (SeenIsRecorded).                                                       *)
RankAndMark(p) ==
  /\ stage[p] = "fetch" /\ asked[p] = Len(Listing)
  /\ \E order \in Ranked(found[p]) : new' = [new EXCEPT ![p] = Entries(found[p], order)]
  /\ seen' = [seen EXCEPT ![p] = @ \cup ToSet(new'[p])]
  /\ stage' = [stage EXCEPT ![p] = IF new'[p] = << >> THEN "idle" ELSE "append"]
  /\ UNCHANGED <<brain, up, asked, found>>

(* The rest of run up to _append_to_brain.                                 *)
Rank(p) ==
  /\ stage[p] = "fetch" /\ asked[p] = Len(Listing)
  /\ \/ Top(found[p]) = {} /\ Over(p)
     \/ /\ Top(found[p]) # {}
        /\ \E order \in Ranked(found[p]) : new' = [new EXCEPT ![p] = Entries(found[p], order)]
        /\ stage' = [stage EXCEPT ![p] = "append"]
        /\ UNCHANGED <<asked, found>>
  /\ UNCHANGED <<brain, up, seen>>

(* _append_to_brain: the section is written at once, or not at all if the  *)
(* file cannot be opened, which ends the run.                              *)
AppendToBrain(p) ==
  /\ stage[p] = "append" /\ Len(brain) < MaxSections
  /\ brain' = Append(brain, [by |-> p, rows |-> new[p]])
  /\ stage' = [stage EXCEPT ![p] = "mark"]
  /\ UNCHANGED <<up, seen, asked, found, new>>

AppendFails(p) ==
  /\ stage[p] = "append"
  /\ Over(p) /\ UNCHANGED <<brain, up, seen>>

(* Variant that forgets the last row (NoRowTwice).                         *)
MarkAllButLast(p) ==
  /\ stage[p] = "mark"
  /\ seen' = [seen EXCEPT ![p] = @ \cup ToSet(Front(new[p]))]
  /\ Over(p) /\ UNCHANGED <<brain, up>>

(* _append_to_brain after the write: the URLs are marked seen.             *)
Mark(p) ==
  /\ stage[p] = "mark"
  /\ seen' = [seen EXCEPT ![p] = @ \cup ToSet(new[p])]
  /\ Over(p) /\ UNCHANGED <<brain, up>>

Next == \E p \in Process :
  \/ Make(p) \/ End(p) \/ Run(p) \/ Fetch(p)
  \/ Rank(p) \/ AppendToBrain(p) \/ AppendFails(p) \/ Mark(p)

Spec == Init /\ [][Next]_vars

-----------------------------------------------------------------------------
TypeOK ==
  /\ brain \in Seq([by : Process, rows : Seq(Paper)])
  /\ up \subseteq Process
  /\ seen \in [Process -> SUBSET Paper]
  /\ stage \in [Process -> {"idle", "fetch", "append", "mark"}]
  /\ asked \in [Process -> 0..Len(Listing)] /\ found \in [Process -> Seq(Paper)]
  /\ new \in [Process -> Seq(Paper)]
  /\ \A p \in Process \ up : stage[p] = "idle" /\ seen[p] = {}

(* "Zero duplicates on consecutive runs" (tests/test-scenarios.md:71): no  *)
(* paper gets a row in two sections of one process, whatever fails and     *)
(* however often the process is restarted.  A paper with a torn URL is the *)
(* exception.  (Two processes, or two listings asked in one run, do record *)
(* a paper twice.)                                                         *)
NoRowTwice ==
  \A i, j \in DOMAIN brain : i < j /\ brain[i].by = brain[j].by
    => ToSet(brain[i].rows) \cap ToSet(brain[j].rows) \subseteq Torn

(* An updater takes for seen only what the file has: a run that dies or    *)
(* fails never makes a paper disappear from later runs.                    *)
SeenIsRecorded == \A p \in Process : seen[p] \subseteq Recorded
=============================================================================
