----------------------------- MODULE MCFeatureFiles -----------------------------
(* An instance of FeatureFiles for TLC.                                      *)
EXTENDS FeatureFiles

\* Two guests of a round
MCRuns == {"r1", "r2"}
MCAgentOf == [r \in MCRuns |-> IF r = "r2" THEN "walt" ELSE "mia"]
MCReports == {"r1", "r2"}
===============================================================================
