-------------------------------- MODULE HexCodec --------------------------------
(***************************************************************************)
(* The hex form of a key (src/dedup.rs) on a text typed byte by byte.  A   *)
(* key has KeyLen bytes, 32 in the code.  Module DedupSet uses the result: *)
(* a line of a snapshot decodes to its key or not at all.                  *)
(***************************************************************************)
EXTENDS Integers, Sequences, Options

CONSTANTS
    Bytes,      \* the bytes that are typed
    KeyLen      \* bytes of a key

VARIABLE text

Init == text = << >>

TypeByte ==
    /\ Len(text) <= 2 * KeyLen
    /\ \E byte \in Bytes : text' = Append(text, byte)

Spec == Init /\ [][TypeByte]_text

-----------------------------------------------------------------------------
(* ASCII: '0' is 48, 'A' 65, 'a' 97.                                       *)
nibble_to_hex(n) == IF n < 10 THEN 48 + n ELSE 97 + n - 10

hex_encode(key) ==
    [i \in 1..2 * KeyLen |->
        LET byte == key[(i + 1) \div 2]
        IN  nibble_to_hex(IF i % 2 = 1 THEN byte \div 16 ELSE byte % 16)]

nibble(b) ==
    CASE b \in 48..57  -> Some(b - 48)
      [] b \in 97..102 -> Some(b - 97 + 10)
      [] b \in 65..70  -> Some(b - 65 + 10)
      [] OTHER         -> None

Nibble(b) == CHOOSE n \in nibble(b) : TRUE

(* Mutant: the halves of a byte are swapped.                               *)
hex_decode_swapped(hex) ==
    IF Len(hex) # 2 * KeyLen \/ \E i \in DOMAIN hex : nibble(hex[i]) = None
    THEN None
    ELSE Some([i \in 1..KeyLen |-> Nibble(hex[2 * i]) * 16 + Nibble(hex[2 * i - 1])])

hex_decode(hex) ==
    IF Len(hex) # 2 * KeyLen \/ \E i \in DOMAIN hex : nibble(hex[i]) = None
    THEN None
    ELSE Some([i \in 1..KeyLen |-> Nibble(hex[2 * i - 1]) * 16 + Nibble(hex[2 * i])])

-----------------------------------------------------------------------------
Digits == (48..57) \cup (65..70) \cup (97..102)
Lower(hex) == [i \in DOMAIN hex |-> IF hex[i] \in 65..70 THEN hex[i] + 32 ELSE hex[i]]

(* A text decodes exactly if it has the length and is all hex digits; what *)
(* it decodes to is written as the same text in lower case, and decodes to *)
(* itself.  So two lines of a sidecar give one key only if they differ in  *)
(* case, and a snapshot of what was replayed is the snapshot that was read *)
(* (src/dedup.rs:138-188).                                                 *)
HexRoundTrip ==
    IF Len(text) = 2 * KeyLen /\ \A i \in DOMAIN text : text[i] \in Digits
    THEN \E key \in hex_decode(text) :
            hex_encode(key) = Lower(text) /\ hex_decode(hex_encode(key)) = Some(key)
    ELSE hex_decode(text) = None
=============================================================================
