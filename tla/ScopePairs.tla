------------------------------ MODULE ScopePairs ------------------------------
(***************************************************************************)
(* The scope helpers on every pair of texts up to MaxParts parts: the      *)
(* scope a policy or a query names and the scope a stored entry carries,   *)
(* typed part by part.                                                     *)
(***************************************************************************)
EXTENDS Scope

CONSTANTS
    Chars,      \* what a text is written with, the slash apart
    Parts,      \* what may stand between two slashes
    MaxParts    \* bound: parts of one text

ASSUME TextAssumption == Parts \subseteq Seq(Chars) /\ Slash \notin Chars

VARIABLES asked, stored     \* two scope texts

scopeVars == <<asked, stored>>

ScopeInit == asked = << >> /\ stored = << >>

TypeAsked ==
    /\ Len(asked) < MaxParts
    /\ \E part \in Parts : asked' = Append(asked, part)
    /\ UNCHANGED stored

TypeStored ==
    /\ Len(stored) < MaxParts
    /\ \E part \in Parts : stored' = Append(stored, part)
    /\ UNCHANGED asked

ScopeNext == TypeAsked \/ TypeStored

ScopeSpec == ScopeInit /\ [][ScopeNext]_scopeVars

-----------------------------------------------------------------------------
self == normalize_scope(asked)
normal == normalize_scope(stored)

(* Two texts, and the normal form scope_path promises: every segment is    *)
(* non-empty and bare at both ends (src/scope.rs:110-118).                 *)
TypeOK ==
    /\ asked \in Seq(Parts)
    /\ stored \in Seq(Parts)
    /\ \A i \in DOMAIN normal :
          normal[i] # << >> /\ Blank \notin {normal[i][1], Last(normal[i])}

(* Scope::contains compares strings, but it means the tree of paths: "a"   *)
(* contains "a/b" and not "ab" (src/scope.rs:60-64), and the root contains *)
(* only itself.                                                            *)
ContainsIsSubtree ==
    contains(self, Some(stored)) <=>
        IF self = << >> THEN normal = << >> ELSE IsPrefix(self, normal)

(* A scope text matches a stored one exactly when the stored one, used as  *)
(* the policy's scope, matches it: isolation does not depend on which side *)
(* was written without normalization (src/scope.rs:10-12).                 *)
MatchIsSymmetric ==
    /\ scope_matches(Some(asked), Some(stored))
         <=> scope_matches(Some(stored), Some(asked))
    /\ scope_matches(Some(asked), Some(asked))

(* Normalizing a second time changes nothing, so a Scope built from        *)
(* another Scope's as_str() is the same scope.                             *)
NormalizeIsIdempotent == normalize_scope(normal) = normal
=============================================================================
