------------------------------ MODULE Subsequences ------------------------------
(***************************************************************************)
(* What Iterator::filter leaves of a sequence: the elements at some of its *)
(* places, in order.  It is said by counting, not by a loop: the n-th      *)
(* place is the one with n - 1 before it.                                  *)
(***************************************************************************)
EXTENDS Integers, FiniteSets, Sequences

NthPlace(places, n) ==
    CHOOSE i \in places : Cardinality({ j \in places : j < i }) = n - 1

ElementsAt(s, places) ==
    [n \in 1..Cardinality(places) |-> s[NthPlace(places, n)]]
=============================================================================
