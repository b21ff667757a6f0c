--------------------------- MODULE MCResearchSync ---------------------------
(* Instances of ResearchSync for TLC.                                      *)
EXTENDS ResearchSync, TLC

CONSTANTS best, odd

(* best is listed twice, so a run may find more than MaxNew; odd has a     *)
(* torn URL.  None is below the threshold; any listing may fail.           *)
MCListing == << {best}, {best, odd} >>
MCScore == [x \in Paper |-> IF x = best THEN 90 ELSE 50]
MCProvider == <<"claude", "ollama">>
=============================================================================
