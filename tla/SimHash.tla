-------------------------------- MODULE SimHash --------------------------------
(***************************************************************************)
(* SimHash of src/dedup.rs (feature near-dedup) on two texts, typed token  *)
(* by token.  A token is a word and how it is dressed: case and            *)
(* punctuation, which from_text strips; a token that is nothing but        *)
(* punctuation has no word.  The hash of a word is the set of its 1 bits.  *)
(* The width of the counters, an i32 each, is left out.                    *)
(***************************************************************************)
EXTENDS SequencesExt

CONSTANTS
    Tokens,     \* records [word, dress]
    NoWord,     \* the word of a token that is only punctuation
    Bits,       \* the bits of a fingerprint
    Hash(_),    \* token_hash_8: the 1 bits of a word's hash
    MaxTokens   \* bound: tokens of a text

VARIABLES left, right

vars == <<left, right>>

Init == left = << >> /\ right = << >>

TypeLeft ==
    /\ Len(left) < MaxTokens
    /\ \E token \in Tokens : left' = Append(left, token)
    /\ UNCHANGED right

TypeRight ==
    /\ Len(right) < MaxTokens
    /\ \E token \in Tokens : right' = Append(right, token)
    /\ UNCHANGED left

Next == TypeLeft \/ TypeRight

Spec == Init /\ [][Next]_vars

-----------------------------------------------------------------------------
(* Mutant: only the first occurrence of a word counts.                     *)
words_once(text) ==
    { i \in DOMAIN text : /\ text[i].word # NoWord
                          /\ \A j \in 1..i - 1 : text[j].word # text[i].word }

(* The tokens that the loop does not skip.                                 *)
words(text) == { i \in DOMAIN text : text[i].word # NoWord }

(* The counter of a bit: +1 for a word with a 1 there, -1 for a 0.         *)
column(text, bit) ==
    LET after[i \in 0..Len(text)] ==
            IF i = 0 THEN 0
            ELSE IF i \notin words(text) THEN after[i - 1]
            ELSE after[i - 1] + IF bit \in Hash(text[i].word) THEN 1 ELSE -1
    IN  after[Len(text)]

(* Mutant: a tie counts as 1.                                              *)
from_text_ties(text) ==
    IF words(text) = {} THEN {} ELSE { bit \in Bits : column(text, bit) >= 0 }

from_text(text) ==
    IF words(text) = {} THEN {} ELSE { bit \in Bits : column(text, bit) > 0 }

hamming_distance(f, g) == Cardinality(SymDiff(f, g))

is_near(f, g, max_distance) == hamming_distance(f, g) <= max_distance

-----------------------------------------------------------------------------
Votes(text, word) == Cardinality({ i \in DOMAIN text : text[i].word = word })
Words == { token.word : token \in Tokens } \ {NoWord}

(* Texts with the same words the same number of times are at distance 0,   *)
(* whatever their order, case and punctuation (src/dedup.rs:192-197), and  *)
(* a bit is 1 exactly if most of the words have it: half is not enough.    *)
FingerprintIsMajority ==
    /\ (\A word \in Words : Votes(left, word) = Votes(right, word))
         => is_near(from_text(left), from_text(right), 0)
    /\ from_text(left) =
         { bit \in Bits :
             2 * Cardinality({ i \in DOMAIN left : left[i].word # NoWord
                                                   /\ bit \in Hash(left[i].word) })
                 > Cardinality({ i \in DOMAIN left : left[i].word # NoWord }) }

(* Joining two texts keeps every bit on which they agree, so it is no      *)
(* farther from either of them than they are from each other: appending a  *)
(* near-duplicate never leads away from a cluster (src/dedup.rs:195-199).  *)
JoinedTextIsBetween ==
    LET joined == from_text(left \o right)
    IN  /\ from_text(left) \cap from_text(right) \subseteq joined
        /\ joined \subseteq from_text(left) \cup from_text(right)
        /\ is_near(joined, from_text(left),
                   hamming_distance(from_text(left), from_text(right)))
=============================================================================
