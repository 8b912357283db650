------------------------------ MODULE MCAnalysis ------------------------------
(***************************************************************************)
(* An instance of the analysis for TLC: every list of up to three frames.  *)
(***************************************************************************)
EXTENDS StageAnalysis

MCFrameIds == 0 .. 3
MCNumbers  == 1 .. 4
MCTimes    == 1 .. 2
===============================================================================
