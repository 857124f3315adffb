---------------------------- MODULE MCInMemoryStore ----------------------------
(* Readers and tokens are interchangeable: no definition names one of them. *)
EXTENDS InMemoryStore

Symmetry == Permutations(Readers) \cup Permutations(Tokens)
=============================================================================
