-------------------------------- MODULE DedupKey --------------------------------
(***************************************************************************)
(* compute_key of src/dedup.rs: five fields joined by NUL and hashed.  A   *)
(* text is a sequence of bytes (naturals, NUL is 0).  blake3 is taken to   *)
(* be injective, so a key is the byte string that is hashed.               *)
(*                                                                         *)
(* The machine offers entries one by one; two of them with the same key    *)
(* are one entry to a DedupSet.                                            *)
(***************************************************************************)
EXTENDS Naturals, Sequences, FiniteSets, Options

CONSTANTS
    Heads,      \* values of kind, conversation_id and role
    Scopes,     \* values of scope: an Option, a set with at most one element
    Texts,      \* values of text
    MaxOffered  \* bound: entries offered

NUL == 0

Fields == [kind : Heads, conversation_id : Heads, role : Heads,
           scope : Scopes, text : Texts]

(* scope.unwrap_or("")                                                     *)
Unwrapped(scope) == IF scope = None THEN << >> ELSE CHOOSE x \in scope : TRUE

-----------------------------------------------------------------------------
(* Mutant: the fields are run together.                                    *)
compute_key_unseparated(e) ==
    e.kind \o (e.conversation_id \o (e.role \o (Unwrapped(e.scope) \o e.text)))

compute_key(e) ==
    e.kind \o <<NUL>> \o (e.conversation_id \o <<NUL>> \o (e.role \o <<NUL>> \o
        (Unwrapped(e.scope) \o <<NUL>> \o e.text)))

VARIABLE offered    \* the entries offered to the gate

Init == offered = {}

Offer(e) ==
    /\ Cardinality(offered \cup {e}) <= MaxOffered
    /\ offered' = offered \cup {e}

Next == \E e \in Fields : Offer(e)

Spec == Init /\ [][Next]_offered

-----------------------------------------------------------------------------
(* An entry as the key sees it: no scope and the empty scope are one.      *)
Seen(e) == [e EXCEPT !.scope = Unwrapped(e.scope)]

(* Entries that differ in a field have different keys, up to the scope's   *)
(* unwrap_or: no entry is taken for a duplicate of another one.  It needs  *)
(* heads and scopes without NUL; the text may contain it                   *)
(* (src/dedup.rs:42-43,51-61).                                             *)
KeysSeparateEntries ==
    \A e, f \in offered : compute_key(e) = compute_key(f) => Seen(e) = Seen(f)

(* src/dedup.rs:42-43: "two distinct field tuples cannot collide".         *)
DistinctTuplesDistinctKeys ==
    \A e, f \in offered : compute_key(e) = compute_key(f) => e = f
=============================================================================
