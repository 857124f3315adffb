---------------------------- MODULE MCConsolidation ----------------------------
(* Two batches that repeat a line, one that shares its lines, one of a      *)
(* single line.                                                             *)
EXTENDS Consolidation

CONSTANTS a, b

SomeBatches == { <<a, a>>, <<a, b>>, <<b>>, <<a, b, a>> }
TwoLines == { <<a, b>> }
AllFaults == {"write", "commit", "crash"}
NoFaults == {}
=============================================================================
