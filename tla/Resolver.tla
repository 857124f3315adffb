-------------------------------- MODULE Resolver --------------------------------
(***************************************************************************)
(* ExactHashResolver of src/reconcile.rs.  The content hash is taken to be *)
(* injective, so the set holds the lines themselves.  reconcile borrows    *)
(* the resolver shared, observe exclusively: each is one step, two calls   *)
(* in a row are not.                                                       *)
(***************************************************************************)
CONSTANT Lines

VARIABLE seen

content_hash(line) == line

(* ExactHashResolver::new(existing)                                        *)
Hashes(existing) == { content_hash(line) : line \in existing }

ResolverNew == seen = Hashes({})

(* Mutant: a resolver that knows no line.                                  *)
reconcile_adds_all(line) == "Add"

reconcile(line) == IF content_hash(line) \in seen THEN "Noop" ELSE "Add"

(* observe, for each of lines.                                             *)
observe(lines) == seen' = seen \cup Hashes(lines)
=============================================================================
