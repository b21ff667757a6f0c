---------------------------- MODULE ResearchSync ----------------------------
(***************************************************************************)
(* run_research_sync of src/agent/orchestrator.py: a crawl with an updater *)
(* of its own, then a synthesis of the new papers by the language models   *)
(* of src/tools/llm_client.py, stored under research.latest_synthesis in   *)
(* agent_memory.db.  Other processes run the crawler alone, on the same    *)
(* file (KnowledgeUpdater).                                                *)
(*                                                                         *)
(* A prompt is the papers it is about; the answer of a model is JSON or    *)
(* plain text.                                                             *)
(***************************************************************************)
EXTENDS KnowledgeUpdater

CONSTANTS
  Node,      \* the processes that run research-sync
  Provider,  \* the providers, in the order ask tries them
  Keyless,   \* those whose key is not set: every call of them raises
  MaxRetries,
  None

ASSUME ResearchAssumption ==
  /\ Node \subseteq Process
  /\ Provider \in Seq(STRING) /\ Provider # << >> /\ Keyless \subseteq ToSet(Provider)
  /\ MaxRetries \in Nat \ {0}

VARIABLES
  fresh,  \* the nodes that have made their updater and not run it
  prompt, \* each node's ask in progress: the papers, the provider it is at
          \* and the attempt, or the answer; or None
  latest  \* durable: latest_synthesis, the papers and the kind of answer

researchVars == <<fresh, prompt, latest>>
syncVars == <<vars, researchVars>>

ResearchInit ==
  /\ Init
  /\ fresh = {} /\ prompt = [p \in Process |-> None] /\ latest = None

-----------------------------------------------------------------------------
(* The crawler alone, once or on a schedule.                               *)
Crawl(p) ==
  /\ p \notin Node
  /\ Make(p) \/ End(p) \/ Run(p) \/ Mark(p)
  /\ UNCHANGED researchVars

(* Variant that takes a failed append for a success (SynthesisRecorded).   *)
CrawlStepGoesOn(p) ==
  /\ \/ Fetch(p) \/ Rank(p) \/ AppendToBrain(p)
     \/ /\ stage[p] = "append" /\ stage' = [stage EXCEPT ![p] = "mark"]
        /\ UNCHANGED <<brain, up, seen, asked, found, new>>
  /\ UNCHANGED researchVars

(* A crawl by either; AppendFails ends the sync of a node too.             *)
CrawlStep(p) ==
  /\ Fetch(p) \/ Rank(p) \/ AppendToBrain(p) \/ AppendFails(p)
  /\ UNCHANGED researchVars

(* run_research_sync makes an updater and runs it, once.                   *)
StartSync(p) ==
  /\ p \in Node /\ Make(p)
  /\ fresh' = fresh \cup {p} /\ UNCHANGED <<prompt, latest>>

RunUpdater(p) ==
  /\ p \in fresh /\ Run(p)
  /\ fresh' = fresh \ {p} /\ UNCHANGED <<prompt, latest>>

(* The request of synthesize_blockchain_papers, at the nth provider.       *)
Synthesis(papers, n) == [papers |-> papers, provider |-> n, attempt |-> 1, answer |-> None]

(* run is over and log_event has its result: on to the synthesis of the    *)
(* new entries.  An exception of log_event ends the sync here.             *)
AskAboutNew(p) ==
  /\ p \in Node /\ Mark(p)
  /\ \/ prompt' = [prompt EXCEPT ![p] = Synthesis(new[p], 1)]
     \/ UNCHANGED prompt
  /\ UNCHANGED <<fresh, latest>>

Asking(p) == prompt[p] # None /\ prompt[p].answer = None

(* _call_provider: wait and try again.                                     *)
Retry(p) ==
  /\ prompt[p].attempt < MaxRetries
  /\ prompt' = [prompt EXCEPT ![p].attempt = @ + 1]

(* Variant that starts a provider over after its last attempt (SyncEnds).  *)
StartOver(p) ==
  /\ prompt[p].attempt = MaxRetries
  /\ prompt' = [prompt EXCEPT ![p].attempt = 1]

(* ask: the last attempt has raised; on to the next provider, or give up   *)
(* with a text.                                                            *)
FallBack(p) ==
  /\ prompt[p].attempt = MaxRetries
  /\ prompt' = IF prompt[p].provider < Len(Provider)
               THEN [prompt EXCEPT ![p] = Synthesis(@.papers, @.provider + 1)]
               ELSE [prompt EXCEPT ![p].answer = "fallback"]

(* An attempt raises: no key, no library, no connection, a timeout.        *)
CallFails(p) == Asking(p) /\ (Retry(p) \/ FallBack(p)) /\ UNCHANGED <<vars, fresh, latest>>

(* ask_json takes the JSON out of the answer, or keeps it as a text.       *)
Answers == {"json", "text"}

(* _call_claude, _call_openai or _call_ollama returns.                     *)
CallAnswers(p) ==
  /\ Asking(p) /\ Provider[prompt[p].provider] \notin Keyless
  /\ \E kind \in Answers : prompt' = [prompt EXCEPT ![p].answer = kind]
  /\ UNCHANGED <<vars, fresh, latest>>

(* memory.set, or its exception, which run_research_sync reports.          *)
StoreSynthesis(p) ==
  /\ prompt[p] # None /\ prompt[p].answer # None
  /\ prompt' = [prompt EXCEPT ![p] = None]
  /\ \/ latest' = [papers |-> prompt[p].papers, answer |-> prompt[p].answer]
     \/ UNCHANGED latest
  /\ UNCHANGED <<vars, fresh>>

(* The command returns, and its updater is gone.                           *)
SyncReturns(p) ==
  /\ p \in Node \ fresh /\ stage[p] = "idle" /\ prompt[p] = None
  /\ End(p) /\ UNCHANGED researchVars

(* The process of a sync is killed, at any point of it.                    *)
Killed(p) ==
  /\ p \in Node /\ End(p)
  /\ fresh' = fresh \ {p} /\ prompt' = [prompt EXCEPT ![p] = None]
  /\ UNCHANGED latest

SyncStep(p) ==
  \/ RunUpdater(p) \/ CrawlStep(p) \/ AskAboutNew(p)
  \/ CallFails(p) \/ CallAnswers(p) \/ StoreSynthesis(p) \/ SyncReturns(p)

ResearchNext ==
  \E p \in Process : Crawl(p) \/ StartSync(p) \/ SyncStep(p) \/ Killed(p)

(* Every request has a timeout, so a process that runs goes on.            *)
ResearchSpec ==
  /\ ResearchInit /\ [][ResearchNext]_syncVars
  /\ \A p \in Node : WF_syncVars(SyncStep(p))

-----------------------------------------------------------------------------
(* A stored synthesis is about papers that a sync has put into the file,   *)
(* the whole of one section, whatever failed or was killed: no advice is   *)
(* kept whose sources are not on record.                                   *)
SynthesisRecorded ==
  latest # None =>
    \E i \in DOMAIN brain : brain[i].by \in Node /\ brain[i].rows = latest.papers

(* However the listings, the file and the models fail, a sync ends.        *)
SyncEnds == \A p \in Node : p \in up ~> p \notin up
=============================================================================
