--------------------------------- MODULE Scope ---------------------------------
(***************************************************************************)
(* The scope helpers of src/scope.rs, as operators.                        *)
(*                                                                         *)
(* A scope text is the sequence of what stands between its slashes, each   *)
(* part a sequence of characters of which only the blank matters: "/a b/"  *)
(* is << <<>>, <<"a", " ", "b">>, <<>> >>.  Splitting at '/' and joining   *)
(* with '/' are then the identity, except in contains, which compares      *)
(* joined strings character by character and is modelled so.               *)
(***************************************************************************)
EXTENDS SequencesExt, Subsequences, Options

Blank == " "
Slash == "/"

-----------------------------------------------------------------------------
(* str::trim                                                               *)
trim(part) ==
    LET letters == { i \in DOMAIN part : part[i] # Blank }
    IN  IF letters = {} THEN << >> ELSE SubSeq(part, Min(letters), Max(letters))

Trimmed(text) == [i \in DOMAIN text |-> trim(text[i])]
NonEmpty(segments) == { i \in DOMAIN segments : segments[i] # << >> }

(* Mutants: a normalization that does not trim, one that leaves the blank  *)
(* parts in.                                                               *)
normalize_untrimmed(text) == ElementsAt(text, NonEmpty(text))

normalize_blank(text) == ElementsAt(Trimmed(text), NonEmpty(text))

normalize_scope(text) == ElementsAt(Trimmed(text), NonEmpty(Trimmed(text)))

(* The string of a normalized scope.                                       *)
Joined(segments) ==
    LET joined[n \in 0..Len(segments)] ==
            IF n = 0 THEN << >>
            ELSE IF n = 1 THEN segments[1]
            ELSE joined[n - 1] \o <<Slash>> \o segments[n]
    IN  joined[Len(segments)]

-----------------------------------------------------------------------------
(* Mutant: a comparison with the candidate as it was stored.               *)
matches_raw(self, candidate) == candidate = Some(self)

(* Scope::matches; self is normalized by Scope::new.                       *)
matches(self, candidate) ==
    \E text \in candidate : normalize_scope(text) = self

(* Mutant: a prefix test that does not look for the slash.                 *)
contains_prefix(self, candidate) ==
    \E text \in candidate :
        LET normal == normalize_scope(text)
        IN  IF self = << >> THEN normal = << >>
            ELSE IsPrefix(Joined(self), Joined(normal))

(* Scope::contains: equal strings, or self is a prefix and what is left    *)
(* starts with a slash.                                                    *)
contains(self, candidate) ==
    \E text \in candidate :
        LET normal == normalize_scope(text)
        IN  IF self = << >> THEN normal = << >>
            ELSE \/ Joined(normal) = Joined(self)
                 \/ IsPrefix(Joined(self) \o <<Slash>>, Joined(normal))

-----------------------------------------------------------------------------
(* Mutant: the required scope lets its descendants pass.                   *)
scope_matches_subtree(required, candidate) ==
    \/ \E text \in required : contains(normalize_scope(text), candidate)
    \/ required = None /\ \A text \in candidate : normalize_scope(text) = << >>

(* scope_matches(required, candidate)                                      *)
scope_matches(required, candidate) ==
    \/ \E text \in required : matches(normalize_scope(text), candidate)
    \/ required = None /\ \A text \in candidate : normalize_scope(text) = << >>
=============================================================================
