----------------------------- MODULE MCDedupHook -----------------------------
(* The instances of DedupHook that TLC checks.  No symmetry: one run checks *)
(* a liveness property, one a refinement.                                   *)
EXTENDS DedupHook

NoFaults == {}
WriteFaults == {"write"}
AllFaults == {"write", "crash", "damage", "panic", "no_replay"}
=============================================================================
