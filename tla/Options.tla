-------------------------------- MODULE Options --------------------------------
(***************************************************************************)
(* An Option is a set with at most one element.                            *)
(***************************************************************************)
None == {}
Some(x) == {x}
=============================================================================
